----------------------------- MODULE VoiceTurn -----------------------------
(***************************************************************************)
(* Voice turns of one session (voice/pipeline.py): the audio becomes a     *)
(* transcript, the transcript English, the agent answers it, the answer is *)
(* translated back and spoken, and rows are kept of it all.  Translations  *)
(* and speech are cached in Redis (translation/client.py, tts/client.py).  *)
(*                                                                         *)
(* The agent's turn is one step here: it commits before the rest goes on   *)
(* (module AgentSession has its steps).  A handler is one step per awaited *)
(* read or provider; every provider may fail.                              *)
(*                                                                         *)
(* Left out: timings, the event rows of translation and speech, and the    *)
(* socket, which runs one turn after the other (module VoiceSocket).       *)
(***************************************************************************)
EXTENDS Naturals, FiniteSets

CONSTANTS
    Utterances,     \* voice turns: each handler serves one
    Sentences,      \* transcripts
    Replies,        \* contents of the agent's answers
    TooLong         \* sentences longer than a chat message may be

ASSUME VoiceAssumption == TooLong \subseteq Sentences /\ Replies # {}

VARIABLES
    hasFallback,    \* a second translation provider is configured now
    hasProfile,     \* the session has an active profile
    session,        \* the row of conversation_sessions exists
    translated,     \* cached translations, by text and direction
    spoken,         \* cached speech, by the text it speaks
    voiceRows,      \* voice_turns.status by utterance
    preferences,    \* rows of user_language_preferences of this profile, or session
    heard,          \* history: utterances the agent has committed a turn for
    voices          \* the handlers

voiceVars == <<hasFallback, hasProfile, session, translated, spoken, voiceRows, preferences, heard, voices>>
voiceTables == <<session, translated, spoken, voiceRows, preferences, heard>>

Directions == {"in", "out"}
SaidTexts == Sentences \cup Replies

\* What a translation yields: text in the other language, or the text it was given.
Rendering == {"translated", "verbatim"}

Voice == [pc: {"idle", "hear", "in", "in miss", "agent", "out", "out miss", "speak", "prefer",
               "commit", "answered", "unclear", "failed"},
          sentence: Sentences, foreign: BOOLEAN, clear: BOOLEAN, row: BOOLEAN, reply: Replies,
          rendering: Rendering, preferred: BOOLEAN]

VoiceTypeOK ==
    /\ hasFallback \in BOOLEAN /\ hasProfile \in BOOLEAN /\ session \in BOOLEAN
    /\ translated \in [SaidTexts \X Directions -> Rendering \cup {"none"}]
    /\ spoken \subseteq Replies \X Rendering
    /\ voiceRows \in [Utterances -> {"none", "low_confidence", "agent_completed"}]
    /\ preferences \in Nat
    /\ heard \subseteq Utterances
    /\ voices \in [Utterances -> Voice]

VoiceInit ==
    /\ hasFallback \in BOOLEAN /\ hasProfile \in BOOLEAN /\ session \in BOOLEAN
    /\ translated = [x \in SaidTexts \X Directions |-> "none"]
    /\ spoken = {}
    /\ voiceRows = [u \in Utterances |-> "none"]
    /\ preferences = 0
    /\ heard = {}
    /\ voices \in [Utterances -> {[pc |-> "idle", sentence |-> s, foreign |-> f, clear |-> TRUE, row |-> FALSE,
                                   reply |-> CHOOSE x \in Replies : TRUE, rendering |-> "verbatim",
                                   preferred |-> FALSE] : s \in Sentences, f \in BOOLEAN}]

Ended == {"idle", "answered", "unclear", "failed"}

Speaks(u, pc) == voices[u].pc = pc /\ UNCHANGED <<hasFallback, hasProfile>>
Voicing(u, v) == voices' = [voices EXCEPT ![u] = v]
At(u, pc) == Voicing(u, [voices[u] EXCEPT !.pc = pc])

-----------------------------------------------------------------------------

\* A session is opened by its own request.
SessionOpens ==
    /\ ~session /\ session' = TRUE
    /\ UNCHANGED <<hasFallback, hasProfile, translated, spoken, voiceRows, preferences, heard, voices>>

CacheExpires ==
    /\ \/ \E x \in SaidTexts \X Directions :
            /\ translated[x] # "none"
            /\ translated' = [translated EXCEPT ![x] = "none"] /\ UNCHANGED spoken
       \/ \E x \in spoken : spoken' = spoken \ {x} /\ UNCHANGED translated
    /\ UNCHANGED <<hasFallback, hasProfile, session, voiceRows, preferences, heard, voices>>

\* The server is started again with a second provider: Redis keeps the caches.
ProviderAdded ==
    /\ ~hasFallback /\ hasFallback' = TRUE
    /\ voices' = [u \in Utterances |-> IF voices[u].pc \in Ended THEN voices[u]
                                       ELSE [voices[u] EXCEPT !.pc = "failed"]]
    /\ UNCHANGED <<hasProfile, voiceTables>>

\* post_voice_turn: the daily limit, audio too large or of another kind.
VoiceRefused(u) == Speaks(u, "idle") /\ At(u, "failed") /\ UNCHANGED voiceTables

VoiceStart(u) ==
    /\ Speaks(u, "idle")
    /\ Voicing(u, [voices[u] EXCEPT !.pc = "hear", !.row = session])
    /\ UNCHANGED voiceTables

\* Faulty variant of Confident: nobody looks at the confidence of a transcript.
Trusting(clear) == TRUE

\* asr.confidence >= min_confidence.
Confident(clear) == clear

\* transcribe.  A transcript that is not clear enough ends the turn with a row of its own.
Hear(u, clear) ==
    LET v == voices[u] IN
    /\ Speaks(u, "hear")
    /\ Voicing(u, [v EXCEPT !.clear = clear, !.pc = CASE ~Confident(clear) -> "unclear"
                                                     [] Confident(clear) /\ v.foreign -> "in"
                                                     [] Confident(clear) /\ ~v.foreign -> "agent"])
    /\ voiceRows' = [voiceRows EXCEPT ![u] = IF ~Confident(clear) /\ v.row THEN "low_confidence" ELSE @]
    /\ UNCHANGED <<session, translated, spoken, preferences, heard>>

TextOf(u, way) == <<IF way = "in" THEN voices[u].sentence ELSE voices[u].reply, way>>
After(way) == IF way = "in" THEN "agent" ELSE "speak"
Miss(way) == IF way = "in" THEN "in miss" ELSE "out miss"

TranslationCached(u, way) ==
    LET hit == translated[TextOf(u, way)] IN
    /\ Speaks(u, way)
    /\ IF hit = "none" THEN At(u, Miss(way))
       ELSE Voicing(u, [voices[u] EXCEPT !.pc = After(way), !.rendering = hit])
    /\ UNCHANGED voiceTables

\* The primary provider, or the fallback for it: either text is cached for the primary.
TranslationProvided(u, way) ==
    /\ Speaks(u, Miss(way))
    /\ Voicing(u, [voices[u] EXCEPT !.pc = After(way), !.rendering = "translated"])
    /\ translated' = [translated EXCEPT ![TextOf(u, way)] = "translated"]
    /\ UNCHANGED <<session, spoken, voiceRows, preferences, heard>>

\* Faulty variant of CachedOnWarning: the text that went through untranslated is cached.
CachedAnyway(cache, key) == [cache EXCEPT ![key] = "verbatim"]

CachedOnWarning(cache, key) == cache

\* No fallback: the text goes on as it is, with a warning.
TranslationPassedThrough(u, way) ==
    /\ ~hasFallback /\ Speaks(u, Miss(way))
    /\ Voicing(u, [voices[u] EXCEPT !.pc = After(way), !.rendering = "verbatim"])
    /\ translated' = CachedOnWarning(translated, TextOf(u, way))
    /\ UNCHANGED <<session, spoken, voiceRows, preferences, heard>>

\* chat_handler: 404 without a session; a message too long is answered, not heard.
AgentAnswers(u, reply) ==
    LET v == voices[u] IN
    /\ Speaks(u, "agent")
    /\ v.sentence \in TooLong \/ session
    /\ heard' = IF v.sentence \in TooLong THEN heard ELSE heard \cup {u}
    /\ Voicing(u, [v EXCEPT !.pc = IF v.foreign THEN "out" ELSE "speak", !.reply = reply,
                            !.rendering = "verbatim"])
    /\ UNCHANGED <<session, translated, spoken, voiceRows, preferences>>

Synthesized(u) ==
    /\ Speaks(u, "speak")
    /\ spoken' = spoken \cup {<<voices[u].reply, voices[u].rendering>>}
    /\ At(u, "prefer")
    /\ UNCHANGED <<session, translated, voiceRows, preferences, heard>>

\* Without a profile to look for, every turn adds a preference.
PreferenceRead(u) ==
    /\ Speaks(u, "prefer")
    /\ Voicing(u, [voices[u] EXCEPT !.pc = "commit",
                                    !.preferred = voices[u].row /\ hasProfile /\ preferences # 0])
    /\ UNCHANGED voiceTables

\* uq_language_preference_profile, which rows without a profile do not meet.
PreferenceFits(u) ==
    voices[u].preferred \/ ~(voices[u].row /\ hasProfile) \/ preferences = 0

\* The counted rows are the profile's; those of sessions without one are not.
VoiceCommit(u) ==
    LET v == voices[u] IN
    /\ Speaks(u, "commit") /\ PreferenceFits(u)
    /\ preferences' = IF v.row /\ hasProfile /\ ~v.preferred THEN preferences + 1 ELSE preferences
    /\ voiceRows' = [voiceRows EXCEPT ![u] = IF v.row THEN "agent_completed" ELSE @]
    /\ At(u, "answered")
    /\ UNCHANGED <<session, translated, spoken, heard>>

\* The row of the turn goes with the preference that is refused.
VoiceConflict(u) ==
    /\ Speaks(u, "commit") /\ ~PreferenceFits(u)
    /\ At(u, "failed")
    /\ UNCHANGED voiceTables

\* A provider's error, a 404, a cancelled request: what the agent committed stays.
VoiceFails(u) ==
    /\ voices[u].pc \notin Ended
    /\ UNCHANGED <<hasFallback, hasProfile>>
    /\ At(u, "failed")
    /\ UNCHANGED voiceTables

VoiceNext ==
    \/ SessionOpens \/ CacheExpires \/ ProviderAdded
    \/ \E u \in Utterances :
         \/ VoiceRefused(u) \/ VoiceStart(u) \/ \E clear \in BOOLEAN : Hear(u, clear)
         \/ \E way \in Directions : \/ TranslationCached(u, way) \/ TranslationProvided(u, way)
                                    \/ TranslationPassedThrough(u, way)
         \/ \E reply \in Replies : AgentAnswers(u, reply)
         \/ Synthesized(u) \/ PreferenceRead(u) \/ VoiceCommit(u) \/ VoiceConflict(u) \/ VoiceFails(u)

VoiceSpec == VoiceInit /\ [][VoiceNext]_voiceVars

-----------------------------------------------------------------------------
(* Properties. *)

\* Whoever speaks another language is answered in it when a second provider is there to
\* help the first: a text that an earlier failure let through untranslated is not
\* remembered as its translation (translation/client.py:47-78).
AnsweredInTheirLanguage ==
    [][\A u \in Utterances :
          voices'[u].pc = "answered" /\ voices[u].pc # "answered" /\ voices[u].foreign /\ hasFallback =>
              voices[u].rendering = "translated"]_voiceVars

\* An utterance that was not understood well enough is never acted on, and a row tells the
\* truth about its turn: of the turns that found a session row when they began, exactly the
\* answered ones are "agent_completed" and the unclear ones "low_confidence", and what was
\* answered, with a row or without, the agent has committed (voice/pipeline.py:44-151).
\* It is less than docs/product/voice-multilingual-pipeline.md:180 says, "Every voice turn
\* is persisted": a turn that began before its session has no row, an unclear one (:63)
\* neither (pipeline.py:191), and one that fails, also after the agent's commit, has none;
\* the status `asr_error` (:190) is never written.
VoiceRowsTellTurns ==
    \A u \in Utterances :
        LET v == voices[u] IN
        /\ u \in heard => v.clear
        /\ voiceRows[u] = "low_confidence" <=> ~v.clear /\ v.row
        /\ voiceRows[u] = "agent_completed" <=> v.pc = "answered" /\ v.row
        /\ v.pc = "answered" => u \in heard \/ v.sentence \in TooLong
=============================================================================
