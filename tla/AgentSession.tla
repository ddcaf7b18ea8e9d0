---------------------------- MODULE AgentSession ----------------------------
(***************************************************************************)
(* One conversation with the intake agent: the row of                      *)
(* conversation_sessions and the profiles of its household in PostgreSQL,  *)
(* the copy of the agent state in Redis, and the handlers that read and    *)
(* write them: open, get state, chat turn (services/sessions), PATCH of a  *)
(* profile (services/profiles.py), member insertion and deletion           *)
(* (services/households.py).                                               *)
(*                                                                         *)
(* A chat turn commits to PostgreSQL first and writes Redis after.  As in  *)
(* SchemeCatalog a handler is one step per awaited read, and flush and     *)
(* commit are one step.                                                    *)
(*                                                                         *)
(* Left out: the text of messages, the fields already asked (they decide   *)
(* which question comes next, not whether one does), completeness and      *)
(* match results (any outcome may come of the rules), and the copy of the  *)
(* household members in the state, which is never read back.               *)
(***************************************************************************)
EXTENDS Naturals, FiniteSets

CONSTANTS
    Profiles,       \* profiles.id
    Scalars,        \* profile columns with one value
    Customs,        \* keys of the JSONB column custom_attributes
    Values,         \* values of a fact
    Relations,      \* relationship_to_primary of the other family members
    Child,          \* the relationship of a newborn
    NewbornFacts,   \* the facts a child_birth event stores with the new profile
    MaxQuestions,   \* agent_max_questions_before_result
    Requests,       \* handlers running at the same time
    Ops,            \* the handlers a run exercises
    Null,           \* no value
    NoRow,          \* no row with this key, ever
    Deleted,        \* a row that was deleted: its UUID does not come back
    NoState         \* Redis has no state for the session

Fields == Scalars \cup Customs
Facts == [Fields -> Values \cup {Null}]
Known == Fields \X Values

ProfileRow == [relation: Relations \cup {"self"}, facts: Facts]
SessionRow == [active: Profiles \cup {Null}, primary: Profiles \cup {Null}]

\* active_member_id is the string "self" when the session has no profile row.
Self == "self"

\* AgentStateModel.  The pending fact carries the member it was said of.  The turn
\* count saturates: only ">= MaxQuestions" is asked of it.
Members == Profiles \cup {Self}
State == [member: Members, facts: Facts, pending: (Known \X Members) \cup {Null},
          turns: 0..MaxQuestions]

\* What the extractor makes of a message.
Message == [about: Relations \cup {Self}, answer: {"yes", "no", "other"},
            sure: SUBSET Known, unsure: SUBSET Known, born: BOOLEAN]

ASSUME SessionAssumption ==
    /\ MaxQuestions \in Nat \ {0}
    /\ Scalars \cap Customs = {}
    /\ Self \notin Profiles \cup Relations
    /\ Child \in Relations
    /\ NewbornFacts \in Facts
    /\ Null \notin Values \cup Members \cup (Known \X Members)
    /\ NoRow \notin ProfileRow \cup SessionRow
    /\ Deleted \notin ProfileRow \cup {NoRow}
    /\ NoState \notin State

VARIABLES
    profiles,   \* table profiles, the rows of this household
    row,        \* the session's row in conversation_sessions
    expired,    \* row.expires_at <= now
    cache,      \* the session's key in Redis
    stored,     \* history: every fact ever committed, by profile
    streak,     \* history: agent messages committed since the last result
    reqs        \* the handlers in progress

vars == <<profiles, row, expired, cache, stored, streak, reqs>>
tables == <<profiles, row, expired, stored, streak>>

NoFacts == [f \in Fields |-> Null]
NoNew == [p \in Profiles |-> NoRow]
Fresh(p) == [member |-> p, facts |-> NoFacts, pending |-> Null, turns |-> 0]

\* A handler in progress.  row and loaded are the session row and the profile row
\* as its session loaded them, active the value row.active_profile_id will get, new
\* the profiles it has added and not committed; heard are the facts its message
\* established, and asked the member they were asked of if it confirms them.
Request == [op: {"none", "open", "state", "turn", "patch"},
            pc: {"idle", "load", "profile", "create", "fill", "row", "listen", "persist", "commit", "cache"},
            row: SessionRow \cup {NoRow}, active: Profiles \cup {Null}, state: State \cup {NoState},
            new: [Profiles -> ProfileRow \cup {NoRow}], loaded: ProfileRow \cup {NoRow},
            heard: SUBSET Known, asked: Members \cup {Null}, reply: {"none", "question", "clarification", "result"},
            profile: Profiles \cup {Null}, facts: Facts]

Idle == [op |-> "none", pc |-> "idle", row |-> NoRow, active |-> Null, state |-> NoState,
         new |-> NoNew, loaded |-> NoRow, heard |-> {}, asked |-> Null, reply |-> "none",
         profile |-> Null, facts |-> NoFacts]

TypeOK ==
    /\ profiles \in [Profiles -> ProfileRow \cup {NoRow, Deleted}]
    /\ row \in SessionRow \cup {NoRow}
    /\ expired \in BOOLEAN
    /\ cache \in State \cup {NoState}
    /\ stored \subseteq Profiles \X Fields \X Values
    /\ streak \in 0..MaxQuestions + 1
    /\ reqs \in [Requests -> Request]

Init ==
    /\ profiles = [p \in Profiles |-> NoRow]
    /\ row = NoRow
    /\ expired = FALSE
    /\ cache = NoState
    /\ stored = {}
    /\ streak = 0
    /\ reqs = [r \in Requests |-> Idle]

-----------------------------------------------------------------------------
(* Rows and columns. *)

Exists(p) == profiles[p] \notin {NoRow, Deleted}

\* A UUID nobody has used, nor is about to.
Unused(p) == profiles[p] = NoRow /\ \A r \in Requests : reqs[r].new[p] = NoRow

\* The profiles a handler's own transaction sees.
Visible(q, p) == IF q.new[p] # NoRow THEN q.new[p] ELSE profiles[p]

FactsOf(ps) == {x \in Profiles \X Fields \X Values :
                    ps[x[1]] \notin {NoRow, Deleted} /\ ps[x[1]].facts[x[2]] = x[3]}

\* The profile table becomes ps.
Store(ps) == profiles' = ps /\ stored' = stored \cup FactsOf(ps)

\* UPDATE of the columns whose value is not the loaded one; all the keys of
\* custom_attributes are one column.
Flushed(new, loaded, current) ==
    LET custom == \E c \in Customs : new[c] # loaded[c] IN
    [f \in Fields |-> IF f \in Scalars
                      THEN IF new[f] # loaded[f] THEN new[f] ELSE current[f]
                      ELSE IF custom THEN new[f] ELSE current[f]]

\* Faulty variant of Persisted: values that are None are assigned too.
PersistBlindly(data, loaded) == data

\* _persist_profile assigns the values that are not None; the dictionary of
\* custom attributes never is.
Persisted(data, loaded) ==
    [f \in Fields |-> IF f \in Scalars /\ data[f] = Null THEN loaded[f] ELSE data[f]]

\* Facts K put over facts F.
Merged(F, K) == [f \in Fields |-> IF \E k \in K : k[1] = f
                                  THEN (CHOOSE k \in K : k[1] = f)[2] ELSE F[f]]

\* Faulty variant of StateFromDb: the row's id is taken though its profile is gone.
StateFromDbUnchecked(srow) ==
    LET p == IF srow.active # Null THEN srow.active ELSE srow.primary IN
    IF p # Null /\ Exists(p) THEN [Fresh(p) EXCEPT !.facts = profiles[p].facts] ELSE Fresh(p)

StateFromDb(srow) ==
    LET p == IF srow.active # Null THEN srow.active ELSE srow.primary IN
    IF p # Null /\ Exists(p) THEN [Fresh(p) EXCEPT !.facts = profiles[p].facts] ELSE Fresh(Self)

At(r, op, pc) == reqs[r].op = op /\ reqs[r].pc = pc
Goto(r, q) == reqs' = [reqs EXCEPT ![r] = q]
Done(r) == Goto(r, Idle)

\* A handler ends early: an ApiError, an unexpected exception, a cancelled request
\* or a crash.  What it has not committed is lost, what it has stays.
Rollback(r) ==
    /\ reqs[r].pc # "idle"
    /\ Done(r)
    /\ UNCHANGED <<tables, cache>>

-----------------------------------------------------------------------------
(* get_or_create_session and get_session_state. *)

OpenReadRow(r) ==
    /\ "open" \in Ops /\ reqs[r].pc = "idle"
    /\ row # NoRow => ~expired
    /\ Goto(r, [Idle EXCEPT !.op = "open", !.pc = IF row = NoRow THEN "create" ELSE "profile", !.row = row])
    /\ UNCHANGED <<tables, cache>>

\* Household, primary profile and session row in one transaction; the unique key
\* of the session refuses a second one.
OpenCreate(r) ==
    /\ At(r, "open", "create")
    /\ row = NoRow
    /\ \E p \in Profiles :
        /\ Unused(p)
        /\ Store([profiles EXCEPT ![p] = [relation |-> "self", facts |-> NoFacts]])
        /\ row' = [active |-> p, primary |-> p]
        /\ Goto(r, [reqs[r] EXCEPT !.pc = "fill", !.state = Fresh(p)])
    /\ UNCHANGED <<expired, cache, streak>>

\* Both GET state and a chat turn begin with the key in Redis.  A GET that finds it
\* answers and changes nothing.
ReadCache(r, op) ==
    /\ op \in Ops /\ reqs[r].pc = "idle"
    /\ op = "state" => cache = NoState
    /\ Goto(r, [Idle EXCEPT !.op = op, !.pc = IF cache = NoState THEN "load" ELSE "row", !.state = cache])
    /\ UNCHANGED <<tables, cache>>

LoadRow(r) ==
    /\ reqs[r].pc = "load"
    /\ row # NoRow
    /\ ~expired
    /\ Goto(r, [reqs[r] EXCEPT !.pc = "profile", !.row = row])
    /\ UNCHANGED <<tables, cache>>

LoadProfile(r) ==
    /\ reqs[r].pc = "profile"
    /\ Goto(r, [reqs[r] EXCEPT !.pc = "fill", !.state = StateFromDb(reqs[r].row)])
    /\ UNCHANGED <<tables, cache>>

\* An opened session begins a new segment of the conversation.
Fill(r) ==
    /\ reqs[r].pc = "fill"
    /\ cache' = reqs[r].state
    /\ streak' = IF reqs[r].op = "open" THEN 0 ELSE streak
    /\ IF reqs[r].op = "turn" THEN Goto(r, [reqs[r] EXCEPT !.pc = "row"]) ELSE Done(r)
    /\ UNCHANGED <<profiles, row, expired, stored>>

-----------------------------------------------------------------------------
(* handle_chat_turn. *)

\* The messages worth telling apart: a plain answer to a confirmation, and what may
\* name a relative, tell of a birth and state one fact, surely or not.
Messages ==
    {m \in Message :
        /\ Cardinality(m.sure) + Cardinality(m.unsure) <= 1
        /\ m.answer # "other" => m.about = Self /\ m.sure \cup m.unsure = {} /\ ~m.born}

\* _session_row: the row is loaded again, expired or not.
TurnReadRow(r) ==
    /\ At(r, "turn", "row")
    /\ row # NoRow
    /\ Goto(r, [reqs[r] EXCEPT !.pc = "listen", !.row = row, !.active = row.active])
    /\ UNCHANGED <<tables, cache>>

\* merge_confirmed_pending_fact answers None unless something is pending and the
\* message is a plain yes or no.
Confirms(s, m) == s.pending # Null /\ m.answer # "other"

Heard(s, m) ==
    IF Confirms(s, m) THEN IF m.answer = "yes" THEN {s.pending[1]} ELSE {} ELSE m.sure

\* prepare_pending_confirmation keeps what is pending already, whoever it was said of.
Pending(s, m) ==
    IF Confirms(s, m) THEN Null
    ELSE IF s.pending # Null THEN s.pending
    ELSE IF m.unsure # {} THEN <<CHOOSE k \in m.unsure : TRUE, s.member>>
    ELSE Null

Turns(s) == IF s.turns = MaxQuestions THEN s.turns ELSE s.turns + 1

\* A pending confirmation comes before the hard stop.
Replies(s, m) ==
    IF Pending(s, m) # Null THEN {"clarification"}
    ELSE IF Turns(s) >= MaxQuestions THEN {"result"}
    ELSE {"question", "result"}

\* The state after the message m about the member whose state is s.
After(s, m, reply) ==
    [s EXCEPT !.facts = Merged(@, Heard(s, m)), !.pending = Pending(s, m),
              !.turns = IF reply = "result" THEN 0 ELSE Turns(s)]

\* Faulty variant of About: the facts of the previous member stay.
AboutWithOldFacts(s, p, prow) == [s EXCEPT !.member = p]

\* The state s turned to member p, whose row is prow.
About(s, p, prow) == [s EXCEPT !.member = p, !.facts = prow.facts]

Kin(relation) == {p \in Profiles : Exists(p) /\ profiles[p].relation = relation}

\* The rows new with the child that message m tells of, if it does.
Births(new, m) ==
    IF m.born
    THEN {[new EXCEPT ![p] = [relation |-> Child, facts |-> NewbornFacts]] :
              p \in {c \in Profiles : Unused(c) /\ new[c] = NoRow}}
    ELSE {new}

\* The nodes from detect_life_event to choose_response, for message m, the state s
\* of the member it is about, the rows added for that member and the session's
\* active member.
Answer(r, m, s, new, active) ==
    \E reply \in Replies(s, m), n \in Births(new, m) :
        Goto(r, [reqs[r] EXCEPT !.pc = "persist", !.active = active, !.state = After(s, m, reply), !.new = n,
                                !.heard = Heard(s, m), !.reply = reply,
                                !.asked = IF Confirms(s, m) THEN s.pending[2] ELSE Null])

\* The member a message is about is looked up by relationship in the household and
\* inserted when missing.  No message turns back to the primary person.
TurnListen(r) ==
    LET q == reqs[r] IN
    /\ At(r, "turn", "listen")
    /\ \E m \in Messages :
        \/ m.about = Self /\ Answer(r, m, q.state, NoNew, q.active)
        \/ /\ m.about # Self
           /\ \E p \in Kin(m.about) : Answer(r, m, About(q.state, p, profiles[p]), NoNew, p)
        \/ /\ m.about # Self /\ Kin(m.about) = {}
           /\ \E p \in Profiles :
                LET added == [relation |-> m.about, facts |-> NoFacts] IN
                /\ Unused(p)
                /\ Answer(r, m, About(q.state, p, added), [NoNew EXCEPT ![p] = added], p)
    /\ UNCHANGED <<tables, cache>>

\* The search finds no index file and rebuilds it; rebuild_faiss_index commits the
\* session it is given, with whatever the turn has flushed so far.
TurnIndexCommit(r) ==
    LET q == reqs[r] IN
    /\ "index" \in Ops /\ At(r, "turn", "persist")
    /\ q.active # q.row.active => q.new[q.active] # NoRow \/ Exists(q.active)
    /\ Store([p \in Profiles |-> Visible(q, p)])
    /\ row' = [row EXCEPT !.active = IF q.active # q.row.active THEN q.active ELSE @]
    /\ Goto(r, [q EXCEPT !.new = NoNew, !.row.active = q.active])
    /\ UNCHANGED <<expired, cache, streak>>

\* Faulty variant of TurnReadProfile: Redis is written before the commit.
TurnReadProfileAndCache(r) ==
    LET q == reqs[r] IN
    /\ At(r, "turn", "persist")
    /\ q.state.member # Self
    /\ Visible(q, q.state.member) \notin {NoRow, Deleted}
    /\ cache' = q.state
    /\ Goto(r, [q EXCEPT !.pc = "commit", !.loaded = Visible(q, q.state.member)])
    /\ UNCHANGED tables

\* _persist_profile loads the active member; "self" is no UUID and ends in an error.
TurnReadProfile(r) ==
    LET q == reqs[r] IN
    /\ At(r, "turn", "persist")
    /\ q.state.member # Self
    /\ Visible(q, q.state.member) \notin {NoRow, Deleted}
    /\ Goto(r, [q EXCEPT !.pc = "commit", !.loaded = Visible(q, q.state.member)])
    /\ UNCHANGED <<tables, cache>>

\* The match snapshot makes every turn update the profile's row, which must be there.
TurnCommit(r) ==
    LET q == reqs[r]
        p == q.state.member
        current == Visible(q, p) IN
    /\ At(r, "turn", "commit")
    /\ current \notin {NoRow, Deleted}
    /\ Store([x \in Profiles |->
            IF x = p THEN [current EXCEPT !.facts = Flushed(Persisted(q.state.facts, q.loaded.facts), q.loaded.facts, @)]
            ELSE Visible(q, x)])
    /\ row' = [row EXCEPT !.active = IF q.active # q.row.active THEN q.active ELSE @]
    /\ expired' = FALSE
    /\ streak' = IF q.reply = "result" THEN 0 ELSE IF streak > MaxQuestions THEN streak ELSE streak + 1
    /\ Goto(r, [q EXCEPT !.pc = "cache", !.new = NoNew])
    /\ UNCHANGED cache

TurnWriteCache(r) ==
    /\ At(r, "turn", "cache")
    /\ cache' = reqs[r].state
    /\ Done(r)
    /\ UNCHANGED tables

-----------------------------------------------------------------------------
(* patch_profile, create_household_member and delete_household_member.  None  *)
(* of them touches Redis.                                                    *)

PatchRead(r) ==
    /\ "patch" \in Ops /\ reqs[r].pc = "idle"
    /\ \E p \in Profiles, f \in Fields, v \in Values \cup {Null} :
        /\ Exists(p)
        /\ Goto(r, [Idle EXCEPT !.op = "patch", !.pc = "commit", !.profile = p, !.loaded = profiles[p],
                                !.facts = [profiles[p].facts EXCEPT ![f] = v]])
    /\ UNCHANGED <<tables, cache>>

PatchCommit(r) ==
    LET q == reqs[r] IN
    /\ At(r, "patch", "commit")
    /\ Exists(q.profile)
    /\ Store([profiles EXCEPT ![q.profile].facts = Flushed(q.facts, q.loaded.facts, @)])
    /\ Done(r)
    /\ UNCHANGED <<row, expired, cache, streak>>

AddMember(p) ==
    /\ "add" \in Ops
    /\ row # NoRow
    /\ Unused(p)
    /\ \E rel \in Relations, F \in Facts : Store([profiles EXCEPT ![p] = [relation |-> rel, facts |-> F]])
    /\ UNCHANGED <<row, expired, cache, streak, reqs>>

\* The session's foreign keys are ON DELETE SET NULL.
DeleteMember(p) ==
    /\ "delete" \in Ops
    /\ Exists(p)
    /\ Store([profiles EXCEPT ![p] = Deleted])
    /\ row' = [active |-> IF row.active = p THEN Null ELSE row.active,
               primary |-> IF row.primary = p THEN Null ELSE row.primary]
    /\ UNCHANGED <<expired, cache, streak, reqs>>

\* Thirty days go by since the last turn, or since the last write of the key; Redis
\* may also lose the key at any time.
Expire ==
    /\ "expire" \in Ops
    /\ row # NoRow
    /\ expired' = TRUE
    /\ UNCHANGED <<profiles, row, cache, stored, streak, reqs>>

LoseKey ==
    /\ "lose" \in Ops
    /\ cache' = NoState
    /\ UNCHANGED <<tables, reqs>>

-----------------------------------------------------------------------------

Handler(r) ==
    \/ OpenReadRow(r) \/ OpenCreate(r)
    \/ ReadCache(r, "state") \/ ReadCache(r, "turn") \/ LoadRow(r) \/ LoadProfile(r) \/ Fill(r)
    \/ TurnReadRow(r) \/ TurnListen(r) \/ TurnIndexCommit(r)
    \/ TurnReadProfile(r) \/ TurnCommit(r) \/ TurnWriteCache(r)
    \/ PatchRead(r) \/ PatchCommit(r)
    \/ Rollback(r)

Next ==
    \/ \E r \in Requests : Handler(r)
    \/ \E p \in Profiles : AddMember(p) \/ DeleteMember(p)
    \/ Expire
    \/ LoseKey

Spec == Init /\ [][Next]_vars

-----------------------------------------------------------------------------
(* Properties. *)

\* Redis never shows a fact that was not committed to that member's profile,
\* whatever fails between the two writes of a turn (session_service.py:588-589).
CacheNeverAhead ==
    cache # NoState /\ cache.member # Self =>
        \A f \in Fields : cache.facts[f] # Null => <<cache.member, f, cache.facts[f]>> \in stored

\* A chat turn never replaces a stored column by nothing, however old the copy of
\* the profile it started from (session_service.py:237-242).
ScalarsNeverErased ==
    [][\A r \in Requests, p \in Profiles, f \in Scalars :
        TurnCommit(r) /\ Exists(p) /\ profiles[p].facts[f] # Null => profiles'[p].facts[f] # Null]_vars

\* A fact enters a profile because the turn heard it, or because the turn added the
\* profile with it: facts do not move from one member to another, whatever the
\* cached state was and whoever it was about (session_service.py:361-363).
NothingInvented ==
    [][\A r \in Requests : TurnCommit(r) =>
        \A p \in Profiles, f \in Fields, v \in Values : <<p, f, v>> \in stored' \ stored =>
            \/ p = reqs[r].state.member /\ <<f, v>> \in reqs[r].heard
            \/ reqs[r].new[p] # NoRow /\ reqs[r].new[p].facts[f] = v]_vars

\* docs/prd/phase-2-agentic-conversation-layer.md:93, "If extraction confidence < 0.5,
\* the message must not update the profile": a turn that heard nothing changes no
\* fact (session_service.py:237-242 writes back what the cached state holds).
UnsureTurnsChangeNothing ==
    [][\A r \in Requests, p \in Profiles :
        TurnCommit(r) /\ reqs[r].heard = {} /\ Exists(p) => profiles'[p].facts = profiles[p].facts]_vars

\* docs/product/agent-conversation.md:11, "Hard stop": after MaxQuestions questions
\* the agent forces a result (session_service.py:486-509).
HardStop == streak <= MaxQuestions

\* docs/prd/phase-2-agentic-conversation-layer.md:32, "multiple household members with
\* individual sub-profiles": a fact that the answer confirms is stored with the member it
\* was asked about (agent/extraction.py:325-334).  An answer that declines stores nothing.
ConfirmedForItsMember ==
    [][\A r \in Requests :
        TurnCommit(r) /\ reqs[r].asked # Null /\ reqs[r].heard # {} =>
            reqs[r].asked = reqs[r].state.member]_vars
=============================================================================
