----------------------------- MODULE VoiceSocket -----------------------------
(***************************************************************************)
(* The socket a citizen speaks to (api/routes/voice.py): a recording is a  *)
(* start, pieces of audio and an end, and becomes one voice turn.  The     *)
(* server takes one message after the other and none during a turn, while  *)
(* the client goes on sending.                                             *)
(*                                                                         *)
(* Left out: the turn itself (module VoiceTurn), of which the socket sees  *)
(* only whether it answers, and the texts of the errors sent back.         *)
(***************************************************************************)
EXTENDS Naturals, Sequences

CONSTANTS
    Sessions,       \* session_id of a start message
    MaxPieces,      \* voice_max_upload_mb, in pieces
    MaxSent,        \* bound: messages of the client
    NoRecording

VARIABLES
    sent,           \* how many messages the client has sent: pieces bear this number
    recording,      \* the client's view: the recording it is making
    made,           \* the client's view: the recordings ended and not yet answered
    wire,           \* messages on their way, in order
    start,          \* the start message in effect
    chunks,         \* pieces received
    turn,           \* the recording a voice turn is running with
    open            \* the handler runs

socketVars == <<sent, recording, made, wire, start, chunks, turn, open>>

\* supported: the mime type is one of SUPPORTED_AUDIO_MIME_TYPES.
Start == [session: Sessions, supported: BOOLEAN]
Recording == [by: Start, audio: Seq(1..MaxSent)]
Message == [type: {"start"}, by: Start] \cup [type: {"bytes"}, piece: 1..MaxSent]
             \cup [type: {"end", "other", "malformed"}]

ASSUME SocketAssumption ==
    MaxPieces \in Nat /\ MaxSent \in Nat /\ NoRecording \notin Recording \cup Start

SocketTypeOK ==
    /\ sent \in 0..MaxSent
    /\ recording \in Recording \cup {NoRecording}
    /\ made \in Seq(Recording)
    /\ wire \in Seq(Message)
    /\ start \in Start \cup {NoRecording}
    /\ chunks \in Seq(1..MaxSent)
    /\ turn \in Recording \cup {NoRecording}
    /\ open \in BOOLEAN

SocketInit ==
    /\ sent = 0 /\ recording = NoRecording /\ made = <<>> /\ wire = <<>>
    /\ start = NoRecording /\ chunks = <<>> /\ turn = NoRecording /\ open = TRUE

-----------------------------------------------------------------------------
(* The client.                                                               *)

Send(message) ==
    /\ sent < MaxSent /\ sent' = sent + 1
    /\ wire' = Append(wire, message)
    /\ UNCHANGED <<start, chunks, turn, open>>

\* A new start gives up the recording before it.
SendStart(by) ==
    /\ Send([type |-> "start", by |-> by])
    /\ recording' = [by |-> by, audio |-> <<>>] /\ UNCHANGED made

SendBytes ==
    /\ Send([type |-> "bytes", piece |-> sent + 1])
    /\ recording' = IF recording = NoRecording THEN recording ELSE [recording EXCEPT !.audio = Append(@, sent + 1)]
    /\ UNCHANGED made

SendEnd ==
    /\ Send([type |-> "end"])
    /\ made' = IF recording = NoRecording THEN made ELSE Append(made, recording)
    /\ recording' = NoRecording

\* A text of another type, or one that is not JSON or no valid start.
SendOther(type) ==
    /\ type \in {"other", "malformed"}
    /\ Send([type |-> type]) /\ UNCHANGED <<recording, made>>

-----------------------------------------------------------------------------
(* websocket_voice_endpoint.                                                 *)

Receive(type) ==
    /\ open /\ turn = NoRecording /\ wire # <<>>
    /\ Head(wire).type = type
    /\ wire' = Tail(wire)
    /\ UNCHANGED <<sent, recording, made>>

\* Faulty variant of Kept: a start keeps what came before it.
KeptAll(pieces) == pieces

\* The pieces a start message keeps.
Kept(pieces) == <<>>

ReceiveStart ==
    /\ Receive("start")
    /\ start' = Head(wire).by /\ chunks' = Kept(chunks)
    /\ UNCHANGED <<turn, open>>

\* VOICE_START_REQUIRED when no start is in effect.
ReceiveBytes ==
    /\ Receive("bytes")
    /\ chunks' = IF start = NoRecording THEN chunks ELSE Append(chunks, Head(wire).piece)
    /\ UNCHANGED <<start, turn, open>>

\* validate_audio_upload: AUDIO_TOO_LARGE, UNSUPPORTED_AUDIO_FORMAT.
Valid(audio, by) == Len(audio) <= MaxPieces /\ by.supported

\* VOICE_START_REQUIRED, or the turn, or an ApiError that nothing catches.
ReceiveEnd ==
    /\ Receive("end")
    /\ IF start # NoRecording /\ Valid(chunks, start)
       THEN turn' = [by |-> start, audio |-> chunks] ELSE UNCHANGED turn
    /\ open' = (start = NoRecording \/ Valid(chunks, start))
    /\ UNCHANGED <<start, chunks>>

ReceiveOther == Receive("other") /\ UNCHANGED <<start, chunks, turn, open>>

\* Closed with code 4400.
ReceiveMalformed == Receive("malformed") /\ open' = FALSE /\ UNCHANGED <<start, chunks, turn>>

\* The answer is sent, and the next recording needs a start of its own.
TurnAnswered ==
    /\ turn # NoRecording
    /\ turn' = NoRecording /\ start' = NoRecording /\ chunks' = <<>>
    /\ made' = Tail(made)
    /\ UNCHANGED <<sent, recording, wire, open>>

\* The client leaves, or an error of the turn ends the handler.
SocketCloses ==
    /\ open
    /\ open' = FALSE /\ turn' = NoRecording
    /\ UNCHANGED <<sent, recording, made, wire, start, chunks>>

SocketNext ==
    \/ \E by \in Start : SendStart(by)
    \/ SendBytes \/ SendEnd \/ \E type \in {"other", "malformed"} : SendOther(type)
    \/ ReceiveStart \/ ReceiveBytes \/ ReceiveEnd
    \/ ReceiveOther \/ ReceiveMalformed \/ TurnAnswered \/ SocketCloses

SocketSpec == SocketInit /\ [][SocketNext]_socketVars

-----------------------------------------------------------------------------
(* Properties. *)

\* A voice turn is given the audio of one recording that is not too long, complete and in
\* order, and the session its start named, in the order the recordings were ended,
\* whatever was started and given up before or sent during a turn
\* (api/routes/voice.py:72-130).
RecordingsApart ==
    turn # NoRecording => made # <<>> /\ turn = Head(made) /\ Len(turn.audio) <= MaxPieces
=============================================================================
