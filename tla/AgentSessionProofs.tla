------------------------- MODULE AgentSessionProofs -------------------------
(***************************************************************************)
(* Theorems about AgentSession for every household, every set of facts and *)
(* every number of concurrent handlers.                                    *)
(***************************************************************************)
EXTENDS AgentSession, TLAPS

-----------------------------------------------------------------------------
(* The inductive invariant. *)

\* Every fact of F was once committed to profile p.
Told(p, F) == \A f \in Fields : F[f] # Null => <<p, f, F[f]>> \in stored

\* Nobody has a profile before the session exists.
RowFirst == row = NoRow => \A p \in Profiles : profiles[p] = NoRow

\* What the profile table holds is part of its history.
BackedRows == \A p \in Profiles : Exists(p) => Told(p, profiles[p].facts)

\* The profiles a handler has added and not committed are its own.
NewUnused ==
    \A r \in Requests, p \in Profiles : reqs[r].new[p] # NoRow =>
        profiles[p] = NoRow /\ \A x \in Requests \ {r} : reqs[x].new[p] = NoRow

\* A turn's state holds what was stored for its member, and what it has just heard.
Explained(q) ==
    q.state.member # Self => \A f \in Fields : q.state.facts[f] # Null =>
        \/ <<q.state.member, f, q.state.facts[f]>> \in stored
        \/ <<f, q.state.facts[f]>> \in q.heard

\* The profile a turn loaded to write it back: facts of its history, or of the row
\* the turn has just added.
LoadedBacked(q) ==
    \A f \in Fields : q.loaded.facts[f] # Null =>
        \/ <<q.state.member, f, q.loaded.facts[f]>> \in stored
        \/ q.new[q.state.member] # NoRow /\ q.new[q.state.member].facts[f] = q.loaded.facts[f]

\* What a handler in progress relies on.
Sound(q) ==
    /\ q.pc \in {"fill", "row", "listen", "persist", "cache"} => q.state \in State
    /\ q.pc \in {"profile", "listen", "persist"} => q.row \in SessionRow
    /\ q.pc \in {"listen", "persist"} => row # NoRow
    /\ q.pc \in {"fill", "row", "listen", "cache"} =>
            (q.state.member # Self => Told(q.state.member, q.state.facts))
    /\ q.pc = "persist" => Explained(q)
    /\ q.op = "turn" /\ q.pc = "commit" =>
            /\ q.state \in State /\ q.state.member # Self
            /\ q.row \in SessionRow /\ row # NoRow
            /\ q.loaded \in ProfileRow
            /\ Explained(q) /\ LoadedBacked(q)
    /\ q.op = "patch" /\ q.pc = "commit" => q.profile \in Profiles /\ q.loaded \in ProfileRow

Handlers == \A r \in Requests : Sound(reqs[r])

SessionInv == TypeOK /\ RowFirst /\ BackedRows /\ NewUnused /\ CacheNeverAhead /\ Handlers

-----------------------------------------------------------------------------
(* Records and the operators on facts. *)

LEMMA IdleType == Idle \in Request /\ Idle.pc = "idle" /\ Idle.op = "none" /\ Idle.new = NoNew
  BY DEF Idle, Request, NoNew, NoFacts, Facts

LEMMA FreshType ==
  ASSUME NEW p \in Members
  PROVE  Fresh(p) \in State /\ Fresh(p).member = p /\ Fresh(p).facts = NoFacts
<1>1. MaxQuestions \in Nat  BY SessionAssumption
<1>2. NoFacts \in Facts  BY DEF NoFacts, Facts
<1>3. QED BY <1>1, <1>2 DEF Fresh, State

LEMMA MergedFacts ==
  ASSUME NEW F \in Facts, NEW K \in SUBSET Known
  PROVE  /\ Merged(F, K) \in Facts
         /\ \A f \in Fields : Merged(F, K)[f] = F[f] \/ <<f, Merged(F, K)[f]>> \in K
<1> DEFINE M == Merged(F, K)
<1>1. ASSUME NEW f \in Fields
      PROVE  M[f] \in Values \cup {Null} /\ (M[f] = F[f] \/ <<f, M[f]>> \in K)
  <2>1. CASE \E k \in K : k[1] = f
    <3> DEFINE k == CHOOSE x \in K : x[1] = f
    <3>1. k \in K /\ k[1] = f
      BY <2>1
    <3>2. M[f] = k[2]
      BY <2>1 DEF Merged
    <3>3. k = <<f, k[2]>> /\ k[2] \in Values
      BY <3>1 DEF Known
    <3>4. QED BY <3>1, <3>2, <3>3
  <2>2. CASE ~\E k \in K : k[1] = f
    BY <2>2 DEF Merged, Facts
  <2>3. QED BY <2>1, <2>2
<1>2. M = [f \in Fields |-> M[f]]
  BY DEF Merged
<1>3. QED BY <1>1, <1>2 DEF Facts

\* A flush of the persisted facts leaves in each column what was there, or a value
\* of the data that is not None; a column with one value is never emptied.
LEMMA FlushedFacts ==
  ASSUME NEW data \in Facts, NEW loaded \in Facts, NEW current \in Facts
  PROVE  LET F == Flushed(Persisted(data, loaded), loaded, current) IN
         /\ F \in Facts
         /\ \A f \in Fields : F[f] = current[f] \/ F[f] = data[f]
         /\ \A f \in Scalars : current[f] # Null => F[f] # Null
         /\ \A f \in Fields : data[f] # Null => F[f] = data[f] \/ loaded[f] = data[f]
<1> DEFINE P == Persisted(data, loaded)
           F == Flushed(P, loaded, current)
<1>1. \A f \in Fields : P[f] = IF f \in Scalars /\ data[f] = Null THEN loaded[f] ELSE data[f]
  BY DEF Persisted
<1>2. \A f \in Fields : data[f] \in Values \cup {Null} /\ current[f] \in Values \cup {Null}
  BY DEF Facts
<1> HIDE DEF P
<1> DEFINE custom == \E c \in Customs : P[c] # loaded[c]
<1>3. \A f \in Fields : F[f] = IF f \in Scalars
                               THEN IF P[f] # loaded[f] THEN P[f] ELSE current[f]
                               ELSE IF custom THEN P[f] ELSE current[f]
  BY DEF Flushed
<1>4. F = [f \in Fields |-> F[f]]
  BY DEF Flushed
<1> HIDE DEF F
<1>5. ASSUME NEW f \in Fields PROVE F[f] = current[f] \/ F[f] = data[f]
  BY <1>1, <1>3
<1>6. ASSUME NEW f \in Scalars, current[f] # Null PROVE F[f] # Null
  BY <1>1, <1>3, <1>6 DEF Fields
<1>7. ASSUME NEW f \in Fields, data[f] # Null PROVE F[f] = data[f] \/ loaded[f] = data[f]
  <2>1. P[f] = data[f]
    BY <1>1, <1>7
  <2>2. CASE f \in Scalars
    BY <1>3, <2>1, <2>2
  <2>3. CASE f \notin Scalars
    <3>1. f \in Customs
      BY <2>3 DEF Fields
    <3>2. QED BY <1>3, <2>1, <2>3, <3>1
  <2>4. QED BY <2>2, <2>3
<1>8. F \in Facts
  BY <1>2, <1>4, <1>5 DEF Facts
<1>9. QED BY <1>5, <1>6, <1>7, <1>8 DEF F, P

-----------------------------------------------------------------------------
(* What every step has to show. *)

\* A table of profiles that is stored enters the history.
LEMMA Stores ==
  ASSUME TypeOK, NEW ps \in [Profiles -> ProfileRow \cup {NoRow, Deleted}], Store(ps)
  PROVE  /\ profiles' = ps /\ stored' \subseteq Profiles \X Fields \X Values
         /\ stored \subseteq stored'
         /\ BackedRows'
<1>1. profiles' = ps /\ stored' = stored \cup FactsOf(ps)
  BY DEF Store
<1>2. FactsOf(ps) \subseteq Profiles \X Fields \X Values
  BY DEF FactsOf
<1>3. ASSUME NEW p \in Profiles, ps[p] \notin {NoRow, Deleted}, NEW f \in Fields, ps[p].facts[f] # Null
      PROVE  <<p, f, ps[p].facts[f]>> \in stored'
  <2>1. ps[p] \in ProfileRow
    BY <1>3
  <2>2. ps[p].facts[f] \in Values
    BY <1>3, <2>1 DEF ProfileRow, Facts
  <2>3. <<p, f, ps[p].facts[f]>> \in FactsOf(ps)
    BY <1>3, <2>2 DEF FactsOf
  <2>4. QED BY <1>1, <2>3
<1>4. BackedRows'
  BY <1>1, <1>3 DEF BackedRows, Exists, Told
<1>5. QED BY <1>1, <1>2, <1>4 DEF TypeOK

Grows == stored \subseteq stored' /\ (row # NoRow => row' # NoRow)

\* The history only grows and the session's row stays: what a handler relies on too.
LEMMA SoundKept ==
  ASSUME NEW q, Sound(q), Grows
  PROVE  Sound(q)'
  BY DEF Sound, Told, Explained, LoadedBacked, Grows

\* A step of handler r, which moves to m.
LEMMA HandlerStep ==
  ASSUME SessionInv, NEW r \in Requests, NEW m \in Request, Goto(r, m),
         Grows, Sound(m)', RowFirst', BackedRows', CacheNeverAhead',
         profiles' \in [Profiles -> ProfileRow \cup {NoRow, Deleted}],
         row' \in SessionRow \cup {NoRow}, expired' \in BOOLEAN, cache' \in State \cup {NoState},
         stored' \subseteq Profiles \X Fields \X Values, streak' \in 0..MaxQuestions + 1,
         \A p \in Profiles : m.new[p] # NoRow => reqs[r].new[p] # NoRow \/ Unused(p),
         \A p \in Profiles : profiles[p] = NoRow /\ profiles'[p] # NoRow =>
             m.new[p] = NoRow /\ \A x \in Requests \ {r} : reqs[x].new[p] = NoRow,
         \A p \in Profiles : profiles'[p] = NoRow => profiles[p] = NoRow
  PROVE  SessionInv'
<1>1. reqs' \in [Requests -> Request] /\ reqs'[r] = m /\ \A x \in Requests \ {r} : reqs'[x] = reqs[x]
  BY DEF SessionInv, TypeOK, Goto
<1>2. TypeOK'
  BY <1>1 DEF TypeOK
<1>3. ASSUME NEW x \in Requests PROVE Sound(reqs[x])'
  <2>1. CASE x = r
    BY <2>1, <1>1 DEF Sound, Told, Explained, LoadedBacked
  <2>2. CASE x # r
    <3>1. Sound(reqs[x])
      BY DEF SessionInv, Handlers
    <3>2. reqs'[x] = reqs[x]
      BY <2>2, <1>1
    <3>3. QED BY <3>1, <3>2 DEF Sound, Told, Explained, LoadedBacked, Grows
  <2>3. QED BY <2>1, <2>2
<1>4. Handlers'
  BY <1>3 DEF Handlers
<1>5. NewUnused'
  <2> SUFFICES ASSUME NEW y \in Requests, NEW p \in Profiles, reqs'[y].new[p] # NoRow
               PROVE  profiles'[p] = NoRow /\ \A x \in Requests \ {y} : reqs'[x].new[p] = NoRow
    BY DEF NewUnused
  <2>1. NewUnused
    BY DEF SessionInv
  <2>2. CASE y = r
    <3>1. m.new[p] # NoRow
      BY <1>1, <2>2
    <3>2. profiles[p] = NoRow /\ \A x \in Requests \ {r} : reqs[x].new[p] = NoRow
      BY <2>1, <3>1 DEF NewUnused, Unused
    <3>3. QED BY <1>1, <2>2, <3>1, <3>2
  <2>3. CASE y # r
    <3>1. reqs[y].new[p] # NoRow
      BY <1>1, <2>3
    <3>2. profiles[p] = NoRow /\ \A x \in Requests \ {y} : reqs[x].new[p] = NoRow
      BY <2>1, <3>1 DEF NewUnused
    <3>3. m.new[p] = NoRow
      BY <2>3, <3>1, <3>2 DEF Unused
    <3>4. profiles'[p] = NoRow
      BY <2>3, <3>1, <3>2
    <3>5. QED BY <1>1, <2>3, <3>2, <3>3, <3>4
  <2>4. QED BY <2>2, <2>3
<1>6. QED BY <1>2, <1>4, <1>5 DEF SessionInv

\* A handler that only reads.
LEMMA ReadStep ==
  ASSUME SessionInv, NEW r \in Requests, NEW m \in Request, Goto(r, m),
         UNCHANGED <<tables, cache>>, Sound(m),
         \A p \in Profiles : m.new[p] # NoRow => reqs[r].new[p] # NoRow \/ Unused(p)
  PROVE  SessionInv'
<1>1. UNCHANGED <<profiles, row, expired, cache, stored, streak>>
  BY DEF tables
<1>2. Grows
  BY <1>1 DEF Grows
<1>3. Sound(m)'
  BY <1>2, SoundKept
<1>4. RowFirst' /\ BackedRows' /\ CacheNeverAhead'
  BY <1>1 DEF SessionInv, RowFirst, BackedRows, CacheNeverAhead, Exists, Told
<1>5. QED BY <1>1, <1>2, <1>3, <1>4, HandlerStep DEF SessionInv, TypeOK

-----------------------------------------------------------------------------
(* The handlers that read. *)

\* The state a turn computes: its facts are those it started from and those it heard.
LEMMA AfterState ==
  ASSUME NEW s \in State, NEW m \in Messages, NEW reply
  PROVE  /\ Heard(s, m) \in SUBSET Known
         /\ After(s, m, reply) \in State
         /\ After(s, m, reply).member = s.member
         /\ After(s, m, reply).facts = Merged(s.facts, Heard(s, m))
         /\ Confirms(s, m) => s.pending[2] \in Members
<1>1. m \in Message
  BY DEF Messages
<1>2. s.facts \in Facts /\ s.pending \in (Known \X Members) \cup {Null} /\ s.turns \in 0..MaxQuestions
  BY DEF State
<1>3. s.pending # Null => s.pending[1] \in Known /\ s.pending[2] \in Members
  BY <1>2
<1>4. Heard(s, m) \in SUBSET Known
  BY <1>1, <1>3 DEF Heard, Confirms, Message
<1>5. Pending(s, m) \in (Known \X Members) \cup {Null}
  <2>1. s.member \in Members
    BY DEF State
  <2>2. m.unsure # {} => (CHOOSE k \in m.unsure : TRUE) \in Known
    BY <1>1 DEF Message
  <2>3. QED BY <1>2, <2>1, <2>2 DEF Pending
<1>6. Turns(s) \in 0..MaxQuestions
  BY <1>2, SessionAssumption DEF Turns
<1>7. Merged(s.facts, Heard(s, m)) \in Facts
  BY <1>2, <1>4, MergedFacts
<1>8. 0 \in 0..MaxQuestions
  BY SessionAssumption
<1>9. After(s, m, reply) \in State /\ After(s, m, reply).member = s.member
        /\ After(s, m, reply).facts = Merged(s.facts, Heard(s, m))
  BY <1>5, <1>6, <1>7, <1>8 DEF After, State
<1>10. QED BY <1>3, <1>4, <1>9 DEF Confirms

LEMMA BirthsType ==
  ASSUME NEW new \in [Profiles -> ProfileRow \cup {NoRow}], NEW m, NEW n \in Births(new, m),
         \A p \in Profiles : new[p] # NoRow => Unused(p)
  PROVE  n \in [Profiles -> ProfileRow \cup {NoRow}] /\ \A p \in Profiles : n[p] # NoRow => Unused(p)
<1>1. CASE m.born
  <2>1. PICK c \in Profiles : Unused(c) /\ n = [new EXCEPT ![c] = [relation |-> Child, facts |-> NewbornFacts]]
    BY <1>1 DEF Births
  <2>2. [relation |-> Child, facts |-> NewbornFacts] \in ProfileRow
    BY SessionAssumption DEF ProfileRow
  <2>3. QED BY <2>1, <2>2
<1>2. CASE ~m.born
  BY <1>2 DEF Births
<1>3. QED BY <1>1, <1>2

\* A handler that has read the key in Redis stays in its type.
LEMMA CacheReadType ==
  ASSUME NEW q \in Request, NEW op \in {"state", "turn"}, NEW pc \in {"load", "row"},
         NEW c \in State \cup {NoState}
  PROVE  [q EXCEPT !.op = op, !.pc = pc, !.state = c] \in Request
  BY ZenonT(90) DEF Request

LEMMA AnswerStep ==
  ASSUME SessionInv, NEW r \in Requests, At(r, "turn", "listen"), UNCHANGED <<tables, cache>>,
         NEW m \in Messages, NEW s \in State, NEW new \in [Profiles -> ProfileRow \cup {NoRow}],
         NEW active \in Profiles \cup {Null}, Answer(r, m, s, new, active),
         s.member # Self => Told(s.member, s.facts),
         \A p \in Profiles : new[p] # NoRow => Unused(p)
  PROVE  SessionInv'
<1> DEFINE q == reqs[r]
<1>1. PICK reply \in Replies(s, m), n \in Births(new, m) :
        Goto(r, [q EXCEPT !.pc = "persist", !.active = active, !.state = After(s, m, reply), !.new = n,
                          !.heard = Heard(s, m), !.reply = reply,
                          !.asked = IF Confirms(s, m) THEN s.pending[2] ELSE Null])
  BY DEF Answer
<1> DEFINE asked == IF Confirms(s, m) THEN s.pending[2] ELSE Null
           after == After(s, m, reply)
           heard == Heard(s, m)
           t == [q EXCEPT !.pc = "persist", !.active = active, !.state = after, !.new = n,
                          !.heard = heard, !.reply = reply, !.asked = asked]
<1>2. /\ heard \in SUBSET Known /\ after \in State /\ after.member = s.member
      /\ after.facts = Merged(s.facts, heard) /\ asked \in Members \cup {Null}
  BY AfterState
<1>3. n \in [Profiles -> ProfileRow \cup {NoRow}] /\ \A p \in Profiles : n[p] # NoRow => Unused(p)
  BY BirthsType
<1>4. reply \in {"none", "question", "clarification", "result"}
  BY DEF Replies
<1>5. q \in Request /\ Sound(q) /\ q.op = "turn" /\ q.pc = "listen"
  BY DEF SessionInv, TypeOK, Handlers, At
<1>6. Goto(r, t)
  BY <1>1
<1> HIDE DEF asked, after, heard, q
<1>7. /\ t \in Request /\ t.op = "turn" /\ t.pc = "persist" /\ t.state = after /\ t.new = n
      /\ t.heard = heard /\ t.row = q.row
  <2>1. t.op = "turn" /\ t.pc = "persist" /\ t.state = after /\ t.new = n /\ t.heard = heard /\ t.row = q.row
    BY <1>5 DEF Request
  <2>2. t \in Request
    <3>1. q \in Request /\ heard \in SUBSET Known /\ after \in State /\ asked \in Members \cup {Null}
      BY <1>2, <1>5
    <3>2. n \in [Profiles -> ProfileRow \cup {NoRow}]
      BY <1>3
    <3>3. active \in Profiles \cup {Null}
      OBVIOUS
    <3>4. QED BY <1>4, <3>1, <3>2, <3>3, ZenonT(90) DEF Request
  <2>3. QED BY <2>1, <2>2
<1>8. \A f \in Fields : after.facts[f] = s.facts[f] \/ <<f, after.facts[f]>> \in heard
  <2>1. s.facts \in Facts
    BY DEF State
  <2>2. QED BY <1>2, <2>1, MergedFacts
<1> HIDE DEF t
<1>9. Explained(t)
  BY <1>2, <1>7, <1>8 DEF Explained, Told
<1>10. q.row \in SessionRow /\ row # NoRow
  BY <1>5 DEF Sound
<1>11. Sound(t)
  BY <1>2, <1>7, <1>9, <1>10 DEF Sound
<1>12. QED BY <1>3, <1>6, <1>7, <1>11, ReadStep

LEMMA ListenInv ==
  ASSUME SessionInv, NEW r \in Requests, TurnListen(r)
  PROVE  SessionInv'
<1> DEFINE q == reqs[r]
<1>1. At(r, "turn", "listen") /\ UNCHANGED <<tables, cache>>
  BY DEF TurnListen
<1>2. q \in Request /\ q.state \in State /\ (q.state.member # Self => Told(q.state.member, q.state.facts))
  BY <1>1 DEF SessionInv, TypeOK, Handlers, Sound, At
<1>3. NoNew \in [Profiles -> ProfileRow \cup {NoRow}] /\ \A p \in Profiles : NoNew[p] = NoRow
  BY DEF NoNew
<1>4. PICK m \in Messages :
        \/ m.about = Self /\ Answer(r, m, q.state, NoNew, q.active)
        \/ /\ m.about # Self
           /\ \E p \in Kin(m.about) : Answer(r, m, About(q.state, p, profiles[p]), NoNew, p)
        \/ /\ m.about # Self /\ Kin(m.about) = {}
           /\ \E p \in Profiles :
                LET added == [relation |-> m.about, facts |-> NoFacts] IN
                /\ Unused(p)
                /\ Answer(r, m, About(q.state, p, added), [NoNew EXCEPT ![p] = added], p)
  BY DEF TurnListen
<1>5. ASSUME NEW p \in Profiles, NEW prow \in ProfileRow
      PROVE  About(q.state, p, prow) \in State /\ About(q.state, p, prow).member = p
                /\ About(q.state, p, prow).facts = prow.facts
  BY <1>2, <1>5 DEF About, State, Members, ProfileRow
<1>6. CASE m.about = Self /\ Answer(r, m, q.state, NoNew, q.active)
  <2>1. q.active \in Profiles \cup {Null}
    BY <1>2 DEF Request
  <2>2. QED BY <1>1, <1>2, <1>3, <1>6, <2>1, AnswerStep
<1>7. ASSUME NEW p \in Kin(m.about), Answer(r, m, About(q.state, p, profiles[p]), NoNew, p)
      PROVE  SessionInv'
  <2>1. p \in Profiles /\ Exists(p)
    BY DEF Kin
  <2>2. profiles[p] \in ProfileRow /\ Told(p, profiles[p].facts)
    BY <2>1 DEF SessionInv, TypeOK, Exists, BackedRows
  <2> DEFINE s == About(q.state, p, profiles[p])
  <2>3. s \in State /\ s.member = p /\ s.facts = profiles[p].facts
    BY <1>5, <2>1, <2>2
  <2>4. Answer(r, m, s, NoNew, p)
    BY <1>7
  <2> HIDE DEF s
  <2>5. s.member # Self => Told(s.member, s.facts)
    BY <2>2, <2>3
  <2>6. QED BY <1>1, <1>3, <2>1, <2>3, <2>4, <2>5, AnswerStep
<1>8. ASSUME m.about # Self, NEW p \in Profiles, NEW added, added = [relation |-> m.about, facts |-> NoFacts],
             Unused(p), Answer(r, m, About(q.state, p, added), [NoNew EXCEPT ![p] = added], p)
      PROVE  SessionInv'
  <2>1. m.about \in Relations
    BY <1>8 DEF Messages, Message
  <2>2. added \in ProfileRow /\ added.facts = NoFacts
    BY <1>8, <2>1 DEF ProfileRow, NoFacts, Facts
  <2> DEFINE s == About(q.state, p, added)
             new == [NoNew EXCEPT ![p] = added]
  <2>3. s \in State /\ s.member = p /\ s.facts = NoFacts
    BY <1>5, <2>2
  <2>4. new \in [Profiles -> ProfileRow \cup {NoRow}] /\ \A x \in Profiles : new[x] # NoRow => Unused(x)
    BY <1>3, <1>8, <2>2
  <2>5. Answer(r, m, s, new, p)
    BY <1>8
  <2> HIDE DEF s, new
  <2>6. Told(s.member, s.facts)
    BY <2>3 DEF Told, NoFacts
  <2>7. QED BY <1>1, <2>3, <2>4, <2>5, <2>6, AnswerStep
<1>9. QED BY <1>4, <1>6, <1>7, <1>8

LEMMA ReadersInv ==
  ASSUME SessionInv, NEW r \in Requests,
         \/ OpenReadRow(r) \/ ReadCache(r, "state") \/ ReadCache(r, "turn") \/ LoadRow(r) \/ LoadProfile(r)
         \/ TurnReadRow(r) \/ TurnReadProfile(r) \/ PatchRead(r) \/ Rollback(r)
  PROVE  SessionInv'
<1> DEFINE q == reqs[r]
<1>1. q \in Request /\ Sound(q) /\ TypeOK
  BY DEF SessionInv, TypeOK, Handlers
<1>2. \A p \in Profiles : NoNew[p] = NoRow
  BY DEF NoNew
<1>3. CASE OpenReadRow(r)
  <2> DEFINE pc == IF row = NoRow THEN "create" ELSE "profile"
             m == [Idle EXCEPT !.op = "open", !.pc = pc, !.row = row]
  <2> HIDE DEF pc
  <2>1. /\ m \in Request /\ m.op = "open" /\ m.row = row /\ m.new = NoNew
        /\ m.pc = pc
    <3>1. pc \in {"create", "profile"}
      BY DEF pc
    <3>2. row \in SessionRow \cup {NoRow}
      BY <1>1 DEF TypeOK
    <3>3. QED BY <3>1, <3>2, IdleType, ZenonT(90) DEF Request
  <2>2. Goto(r, m) /\ UNCHANGED <<tables, cache>>
    BY <1>3 DEF OpenReadRow, pc
  <2> HIDE DEF m
  <2>3. Sound(m)
    BY <1>1, <2>1 DEF Sound, TypeOK, pc
  <2>4. QED BY <1>2, <2>1, <2>2, <2>3, ReadStep
<1>4. ASSUME NEW op \in {"state", "turn"}, ReadCache(r, op) PROVE SessionInv'
  <2> DEFINE pc == IF cache = NoState THEN "load" ELSE "row"
             m == [Idle EXCEPT !.op = op, !.pc = pc, !.state = cache]
  <2> HIDE DEF pc
  <2>1. /\ m \in Request /\ m.op = op /\ m.state = cache /\ m.new = NoNew
        /\ m.pc = pc
    <3>1. pc \in {"load", "row"}
      BY DEF pc
    <3>2. cache \in State \cup {NoState}
      BY <1>1 DEF TypeOK
    <3>3. m \in Request
      BY <3>1, <3>2, IdleType, CacheReadType
    <3>4. m.op = op /\ m.state = cache /\ m.new = NoNew /\ m.pc = pc
      BY IdleType DEF Request
    <3>5. QED BY <3>3, <3>4
  <2>2. Goto(r, m) /\ UNCHANGED <<tables, cache>>
    BY <1>4 DEF ReadCache, pc
  <2> HIDE DEF m
  <2>3. cache # NoState => cache \in State /\ (cache.member # Self => Told(cache.member, cache.facts))
    BY <1>1 DEF TypeOK, SessionInv, CacheNeverAhead, Told
  <2>4. Sound(m)
    BY <2>1, <2>3 DEF Sound, pc
  <2>5. QED BY <1>2, <2>1, <2>2, <2>4, ReadStep
<1>5. CASE LoadRow(r)
  <2> DEFINE m == [q EXCEPT !.pc = "profile", !.row = row]
  <2>1. m \in Request /\ m.op = q.op /\ m.pc = "profile" /\ m.row = row /\ m.new = q.new
    BY <1>1, ZenonT(90) DEF TypeOK, Request
  <2>2. Goto(r, m) /\ UNCHANGED <<tables, cache>> /\ row \in SessionRow
    BY <1>1, <1>5 DEF LoadRow, TypeOK
  <2> HIDE DEF m
  <2>3. Sound(m)
    BY <2>1, <2>2 DEF Sound
  <2>4. QED BY <2>1, <2>2, <2>3, ReadStep
<1>6. CASE LoadProfile(r)
  <2> DEFINE s == StateFromDb(q.row)
             p == IF q.row.active # Null THEN q.row.active ELSE q.row.primary
             m == [q EXCEPT !.pc = "fill", !.state = s]
  <2>1. Goto(r, m) /\ UNCHANGED <<tables, cache>> /\ q.row \in SessionRow
    BY <1>1, <1>6 DEF LoadProfile, Sound
  <2>2. s \in State /\ (s.member # Self => Told(s.member, s.facts))
    <3>1. CASE p # Null /\ Exists(p)
      <4>1. p \in Profiles
        BY <2>1, <3>1 DEF SessionRow
      <4>2. profiles[p] \in ProfileRow /\ Told(p, profiles[p].facts)
        BY <1>1, <3>1, <4>1 DEF TypeOK, Exists, SessionInv, BackedRows
      <4>3. s = [Fresh(p) EXCEPT !.facts = profiles[p].facts]
        BY <3>1 DEF StateFromDb
      <4>4. Fresh(p) \in State /\ Fresh(p).member = p
        BY <4>1, FreshType DEF Members
      <4>5. s \in State /\ s.member = p /\ s.facts = profiles[p].facts
        BY <4>2, <4>3, <4>4 DEF State, ProfileRow
      <4> HIDE DEF s, p
      <4>6. QED BY <4>2, <4>5
    <3>2. CASE ~(p # Null /\ Exists(p))
      <4>1. s = Fresh(Self)
        BY <3>2 DEF StateFromDb
      <4>2. QED BY <4>1, FreshType DEF Members
    <3>3. QED BY <3>1, <3>2
  <2> HIDE DEF s, p
  <2>3. m \in Request /\ m.op = q.op /\ m.pc = "fill" /\ m.state = s /\ m.new = q.new
    BY <1>1, <2>2, ZenonT(90) DEF Request
  <2> HIDE DEF m
  <2>4. Sound(m)
    BY <2>2, <2>3 DEF Sound
  <2>5. QED BY <2>1, <2>3, <2>4, ReadStep
<1>7. CASE TurnReadRow(r)
  <2> DEFINE m == [q EXCEPT !.pc = "listen", !.row = row, !.active = row.active]
  <2>1. Goto(r, m) /\ UNCHANGED <<tables, cache>> /\ q.op = "turn" /\ q.pc = "row" /\ row \in SessionRow /\ row # NoRow
    BY <1>1, <1>7 DEF TurnReadRow, At, TypeOK
  <2>2. m \in Request /\ m.op = "turn" /\ m.pc = "listen" /\ m.row = row /\ m.new = q.new /\ m.state = q.state
    BY <1>1, <2>1, ZenonT(90) DEF Request, SessionRow
  <2> HIDE DEF m
  <2>3. Sound(m)
    BY <1>1, <2>1, <2>2 DEF Sound
  <2>4. QED BY <2>1, <2>2, <2>3, ReadStep
<1>8. CASE TurnReadProfile(r)
  <2> DEFINE p == q.state.member
             prow == Visible(q, p)
             m == [q EXCEPT !.pc = "commit", !.loaded = prow]
  <2>1. /\ Goto(r, m) /\ UNCHANGED <<tables, cache>> /\ q.op = "turn" /\ q.pc = "persist"
        /\ p # Self /\ prow \notin {NoRow, Deleted}
    BY <1>8 DEF TurnReadProfile, At
  <2>2. q.state \in State /\ q.row \in SessionRow /\ row # NoRow /\ Explained(q)
    BY <1>1, <2>1 DEF Sound
  <2>3. p \in Profiles
    BY <2>1, <2>2 DEF State, Members
  <2>4. prow \in ProfileRow /\ ((q.new[p] # NoRow /\ prow = q.new[p]) \/ (prow = profiles[p] /\ Exists(p)))
    <3>1. q.new[p] \in ProfileRow \cup {NoRow} /\ profiles[p] \in ProfileRow \cup {NoRow, Deleted}
      BY <1>1, <2>3 DEF TypeOK, Request
    <3>2. prow = IF q.new[p] # NoRow THEN q.new[p] ELSE profiles[p]
      BY DEF Visible
    <3> HIDE DEF prow, q
    <3>3. QED BY <2>1, <3>1, <3>2 DEF Exists
  <2> HIDE DEF prow
  <2>5. /\ m \in Request /\ m.op = "turn" /\ m.pc = "commit" /\ m.loaded = prow /\ m.new = q.new
        /\ m.state = q.state /\ m.row = q.row /\ m.heard = q.heard
    BY <1>1, <2>1, <2>4 DEF Request
  <2> HIDE DEF m
  <2>6. LoadedBacked(m)
    <3>1. Exists(p) => Told(p, profiles[p].facts)
      BY <2>3 DEF SessionInv, BackedRows
    <3>2. QED BY <2>4, <2>5, <3>1 DEF LoadedBacked, Told
  <2>7. Explained(m)
    BY <2>2, <2>5 DEF Explained
  <2>8. Sound(m)
    BY <2>1, <2>2, <2>4, <2>5, <2>6, <2>7 DEF Sound
  <2>9. QED BY <2>1, <2>5, <2>8, ReadStep
<1>9. CASE PatchRead(r)
  <2>1. PICK p \in Profiles, f \in Fields, v \in Values \cup {Null} :
          /\ Exists(p)
          /\ Goto(r, [Idle EXCEPT !.op = "patch", !.pc = "commit", !.profile = p, !.loaded = profiles[p],
                                  !.facts = [profiles[p].facts EXCEPT ![f] = v]])
    BY <1>9 DEF PatchRead
  <2> DEFINE F == [profiles[p].facts EXCEPT ![f] = v]
             m == [Idle EXCEPT !.op = "patch", !.pc = "commit", !.profile = p, !.loaded = profiles[p], !.facts = F]
  <2>2. profiles[p] \in ProfileRow
    BY <1>1, <2>1 DEF TypeOK, Exists
  <2>3. F \in Facts
    BY <2>2 DEF ProfileRow, Facts
  <2> HIDE DEF F
  <2>4. m \in Request /\ m.op = "patch" /\ m.pc = "commit" /\ m.profile = p /\ m.loaded = profiles[p] /\ m.new = NoNew
    BY <2>2, <2>3, IdleType DEF Request
  <2>5. Goto(r, m) /\ UNCHANGED <<tables, cache>>
    BY <1>9, <2>1 DEF F, PatchRead
  <2> HIDE DEF m
  <2>6. Sound(m)
    BY <2>2, <2>4 DEF Sound
  <2>7. QED BY <1>2, <2>4, <2>5, <2>6, ReadStep
<1>10. CASE Rollback(r)
  <2>1. Goto(r, Idle) /\ UNCHANGED <<tables, cache>>
    BY <1>10 DEF Rollback, Done
  <2>2. Sound(Idle)
    BY IdleType DEF Sound
  <2>3. QED BY <1>2, <2>1, <2>2, IdleType, ReadStep
<1>11. QED BY <1>3, <1>4, <1>5, <1>6, <1>7, <1>8, <1>9, <1>10

-----------------------------------------------------------------------------
(* The handlers that write. *)

\* Storing the table ps, whose deleted and unused profiles are those of before but
\* for what handler r adds.
LEMMA StoreStep ==
  ASSUME SessionInv, NEW r \in Requests, NEW m \in Request, Goto(r, m),
         NEW ps \in [Profiles -> ProfileRow \cup {NoRow, Deleted}], Store(ps),
         row # NoRow => row' # NoRow, Sound(m)', RowFirst', CacheNeverAhead',
         row' \in SessionRow \cup {NoRow}, expired' \in BOOLEAN, cache' \in State \cup {NoState},
         streak' \in 0..MaxQuestions + 1,
         \A p \in Profiles : m.new[p] # NoRow => reqs[r].new[p] # NoRow,
         \A p \in Profiles : profiles[p] = NoRow /\ ps[p] # NoRow =>
             m.new[p] = NoRow /\ \A x \in Requests \ {r} : reqs[x].new[p] = NoRow,
         \A p \in Profiles : ps[p] = NoRow => profiles[p] = NoRow
  PROVE  SessionInv'
<1>1. /\ profiles' = ps /\ stored' \subseteq Profiles \X Fields \X Values
      /\ stored \subseteq stored' /\ BackedRows'
  BY Stores DEF SessionInv
<1>2. Grows
  BY <1>1 DEF Grows
<1>3. QED BY <1>1, <1>2, HandlerStep

\* The rows a handler sees are those of the table and its own.
LEMMA VisibleRows ==
  ASSUME SessionInv, NEW r \in Requests
  PROVE  /\ [p \in Profiles |-> Visible(reqs[r], p)] \in [Profiles -> ProfileRow \cup {NoRow, Deleted}]
         /\ \A p \in Profiles : profiles[p] = NoRow /\ Visible(reqs[r], p) # NoRow =>
                reqs[r].new[p] # NoRow /\ \A x \in Requests \ {r} : reqs[x].new[p] = NoRow
         /\ \A p \in Profiles : Visible(reqs[r], p) = NoRow => profiles[p] = NoRow
<1> DEFINE q == reqs[r]
<1>1. \A p \in Profiles : q.new[p] \in ProfileRow \cup {NoRow} /\ profiles[p] \in ProfileRow \cup {NoRow, Deleted}
  BY DEF SessionInv, TypeOK, Request
<1>2. \A p \in Profiles : Visible(q, p) = IF q.new[p] # NoRow THEN q.new[p] ELSE profiles[p]
  BY DEF Visible
<1>3. \A p \in Profiles : q.new[p] # NoRow => \A x \in Requests \ {r} : reqs[x].new[p] = NoRow
  BY DEF SessionInv, NewUnused
<1> HIDE DEF q
<1>4. [p \in Profiles |-> Visible(q, p)] \in [Profiles -> ProfileRow \cup {NoRow, Deleted}]
  BY <1>1, <1>2
<1>5. \A p \in Profiles : Visible(q, p) = NoRow => profiles[p] = NoRow
  BY <1>2
<1>6. \A p \in Profiles : profiles[p] = NoRow /\ Visible(q, p) # NoRow => q.new[p] # NoRow
  BY <1>2
<1>7. QED BY <1>3, <1>4, <1>5, <1>6 DEF q

\* A member's facts after the commit of a turn: each is what the row held, or a fact
\* the turn knew of; and each fact of the turn's state is then in the history.
LEMMA TurnFacts ==
  ASSUME SessionInv, NEW r \in Requests, TurnCommit(r)
  PROVE  LET q == reqs[r]
             p == q.state.member
             current == Visible(q, p)
             F == Flushed(Persisted(q.state.facts, q.loaded.facts), q.loaded.facts, current.facts)
             ps == [x \in Profiles |-> IF x = p THEN [current EXCEPT !.facts = F] ELSE Visible(q, x)]
         IN  /\ p \in Profiles /\ current \in ProfileRow /\ F \in Facts
             /\ \A f \in Fields : F[f] = current.facts[f] \/ F[f] = q.state.facts[f]
             /\ \A f \in Scalars : current.facts[f] # Null => F[f] # Null
             /\ \A f \in Fields : q.state.facts[f] # Null => F[f] = q.state.facts[f] \/ q.loaded.facts[f] = q.state.facts[f]
             /\ ps \in [Profiles -> ProfileRow \cup {NoRow, Deleted}]
             /\ ps[p].facts = F /\ \A x \in Profiles \ {p} : ps[x] = Visible(q, x)
             /\ Store(ps)
<1> DEFINE q == reqs[r]
           p == q.state.member
           current == Visible(q, p)
           F == Flushed(Persisted(q.state.facts, q.loaded.facts), q.loaded.facts, current.facts)
           changed == [current EXCEPT !.facts = F]
           ps == [x \in Profiles |-> IF x = p THEN changed ELSE Visible(q, x)]
<1>1. q.op = "turn" /\ q.pc = "commit" /\ current \notin {NoRow, Deleted} /\ Store(ps)
  BY DEF TurnCommit, At
<1>2. q \in Request /\ Sound(q)
  BY DEF SessionInv, TypeOK, Handlers
<1>3. q.state \in State /\ p # Self /\ q.loaded \in ProfileRow
  BY <1>1, <1>2 DEF Sound
<1>4. p \in Profiles /\ q.state.facts \in Facts /\ q.loaded.facts \in Facts
  BY <1>3 DEF State, Members, ProfileRow
<1>5. \A x \in Profiles : Visible(q, x) \in ProfileRow \cup {NoRow, Deleted}
  BY VisibleRows
<1>6. current \in ProfileRow /\ current.facts \in Facts
  BY <1>1, <1>4, <1>5 DEF ProfileRow
<1>7. /\ F \in Facts
      /\ \A f \in Fields : F[f] = current.facts[f] \/ F[f] = q.state.facts[f]
      /\ \A f \in Scalars : current.facts[f] # Null => F[f] # Null
      /\ \A f \in Fields : q.state.facts[f] # Null => F[f] = q.state.facts[f] \/ q.loaded.facts[f] = q.state.facts[f]
  BY <1>4, <1>6, FlushedFacts
<1> HIDE DEF F, current
<1>8. changed \in ProfileRow /\ changed.facts = F
  BY <1>6, <1>7 DEF ProfileRow
<1> HIDE DEF changed, q
<1>9. ps \in [Profiles -> ProfileRow \cup {NoRow, Deleted}]
  BY <1>4, <1>5, <1>8
<1>10. ps[p].facts = F /\ \A x \in Profiles \ {p} : ps[x] = Visible(q, x)
  BY <1>4, <1>8
<1>11. QED BY <1>1, <1>4, <1>6, <1>7, <1>9, <1>10 DEF F, current, changed, q

LEMMA FlushedType ==
  ASSUME NEW new \in Facts, NEW loaded \in Facts, NEW current \in Facts
  PROVE  Flushed(new, loaded, current) \in Facts
<1> DEFINE custom == \E c \in Customs : new[c] # loaded[c]
<1>1. Flushed(new, loaded, current) =
        [f \in Fields |-> IF f \in Scalars THEN IF new[f] # loaded[f] THEN new[f] ELSE current[f]
                          ELSE IF custom THEN new[f] ELSE current[f]]
  BY DEF Flushed
<1>2. \A f \in Fields : new[f] \in Values \cup {Null} /\ current[f] \in Values \cup {Null}
  BY DEF Facts
<1> HIDE DEF custom
<1>3. QED BY <1>1, <1>2 DEF Facts

\* What Redis shows stays part of a history that only grows.
LEMMA CacheKept ==
  ASSUME SessionInv, cache' = cache, stored \subseteq stored'
  PROVE  CacheNeverAhead'
  BY DEF SessionInv, CacheNeverAhead

\* The session's row with another active profile.
LEMMA RowUpdate ==
  ASSUME NEW srow \in SessionRow, NEW p \in Profiles \cup {Null}, NEW moved \in BOOLEAN
  PROVE  /\ [srow EXCEPT !.active = IF moved THEN p ELSE @] \in SessionRow
         /\ [srow EXCEPT !.active = IF moved THEN p ELSE @] # NoRow
  BY SessionAssumption DEF SessionRow

LEMMA WritersInv ==
  ASSUME SessionInv, NEW r \in Requests,
         \/ OpenCreate(r) \/ Fill(r) \/ TurnIndexCommit(r) \/ TurnCommit(r) \/ TurnWriteCache(r)
         \/ PatchCommit(r)
  PROVE  SessionInv'
<1>1. PICK q \in Request : q = reqs[r] /\ Sound(q) /\ TypeOK
  BY DEF SessionInv, TypeOK, Handlers
<1>2. \A p \in Profiles : NoNew[p] = NoRow
  BY DEF NoNew
<1>3. Idle \in Request /\ Idle.new = NoNew /\ Sound(Idle)'
  BY IdleType DEF Sound
<1>4. CASE OpenCreate(r)
  <2>1. PICK p \in Profiles :
          /\ Unused(p)
          /\ Store([profiles EXCEPT ![p] = [relation |-> "self", facts |-> NoFacts]])
          /\ row' = [active |-> p, primary |-> p]
          /\ Goto(r, [q EXCEPT !.pc = "fill", !.state = Fresh(p)])
    BY <1>1, <1>4 DEF OpenCreate
  <2> DEFINE prow == [relation |-> "self", facts |-> NoFacts]
             ps == [profiles EXCEPT ![p] = prow]
             fresh == Fresh(p)
             m == [q EXCEPT !.pc = "fill", !.state = fresh]
  <2>2. prow \in ProfileRow
    BY DEF ProfileRow, NoFacts, Facts
  <2>3. ps \in [Profiles -> ProfileRow \cup {NoRow, Deleted}]
    BY <1>1, <2>2 DEF TypeOK
  <2>4. fresh \in State /\ fresh.member = p /\ fresh.facts = NoFacts
    BY FreshType DEF Members
  <2>5. UNCHANGED <<expired, cache, streak>> /\ Store(ps) /\ Goto(r, m) /\ q.op = "open"
    BY <1>1, <1>4, <2>1 DEF OpenCreate, At
  <2>6. row' \in SessionRow /\ row' # NoRow
    BY <2>1, SessionAssumption DEF SessionRow
  <2>7. profiles[p] = NoRow /\ \A x \in Requests : reqs[x].new[p] = NoRow
    BY <2>1 DEF Unused
  <2>8. \A x \in Profiles \ {p} : ps[x] = profiles[x]
    BY <1>1 DEF TypeOK
  <2>9. ps[p] # NoRow
    BY <1>1, <2>2, SessionAssumption DEF TypeOK
  <2> HIDE DEF prow, ps, fresh
  <2>10. m \in Request /\ m.op = "open" /\ m.pc = "fill" /\ m.state = fresh /\ m.new = q.new
    BY <1>1, <2>4, <2>5, ZenonT(90) DEF Request
  <2> HIDE DEF m
  <2>11. Sound(m)'
    BY <2>4, <2>10 DEF Sound, Told, NoFacts
  <2>12. stored \subseteq stored'
    BY <2>5 DEF Store
  <2>13. RowFirst' /\ CacheNeverAhead'
    BY <2>5, <2>6, <2>12, CacheKept DEF RowFirst
  <2>14. \A x \in Profiles : profiles[x] = NoRow /\ ps[x] # NoRow =>
            m.new[x] = NoRow /\ \A y \in Requests \ {r} : reqs[y].new[x] = NoRow
    BY <1>1, <2>7, <2>8, <2>10
  <2>15. \A x \in Profiles : ps[x] = NoRow => profiles[x] = NoRow
    BY <2>8, <2>9
  <2>16. QED
    BY <1>1, <2>3, <2>5, <2>6, <2>10, <2>11, <2>13, <2>14, <2>15, StoreStep DEF TypeOK
<1>5. CASE Fill(r)
  <2>1. /\ q.pc = "fill" /\ cache' = q.state /\ UNCHANGED <<profiles, row, expired, stored>>
        /\ streak' \in 0..MaxQuestions + 1
    BY <1>1, <1>5, SessionAssumption DEF Fill, TypeOK
  <2>2. Grows
    BY <2>1 DEF Grows
  <2>3. q.state \in State /\ (q.state.member # Self => Told(q.state.member, q.state.facts))
    BY <1>1, <2>1 DEF Sound
  <2>4. CacheNeverAhead' /\ RowFirst' /\ BackedRows'
    BY <2>1, <2>3 DEF CacheNeverAhead, RowFirst, BackedRows, SessionInv, Exists, Told
  <2>5. ASSUME NEW m \in Request, Goto(r, m), Sound(m), \A p \in Profiles : m.new[p] # NoRow => q.new[p] # NoRow
        PROVE  SessionInv'
    <3>1. Sound(m)'
      BY <2>2, <2>5, SoundKept
    <3>2. QED BY <1>1, <2>1, <2>2, <2>3, <2>4, <2>5, <3>1, HandlerStep DEF TypeOK
  <2>6. CASE q.op = "turn"
    <3> DEFINE m == [q EXCEPT !.pc = "row"]
    <3>1. Goto(r, m)
      BY <1>1, <1>5, <2>6 DEF Fill
    <3>2. m \in Request /\ m.op = "turn" /\ m.pc = "row" /\ m.state = q.state /\ m.new = q.new
      BY <1>1, <2>6 DEF Request
    <3> HIDE DEF m
    <3>3. Sound(m)
      BY <2>3, <3>2 DEF Sound
    <3>4. QED BY <2>5, <3>1, <3>2, <3>3
  <2>7. CASE q.op # "turn"
    <3>1. Goto(r, Idle)
      BY <1>1, <1>5, <2>7 DEF Fill, Done
    <3>2. Sound(Idle)
      BY IdleType DEF Sound
    <3>3. QED BY <1>2, <1>3, <2>5, <3>1, <3>2
  <2>8. QED BY <2>6, <2>7
<1>6. CASE TurnIndexCommit(r)
  <2> DEFINE ps == [p \in Profiles |-> Visible(q, p)]
             moved == q.active # q.row.active
             m == [q EXCEPT !.new = NoNew, !.row.active = q.active]
  <2>1. /\ q.op = "turn" /\ q.pc = "persist" /\ Store(ps) /\ Goto(r, m) /\ UNCHANGED <<expired, cache, streak>>
        /\ row' = [row EXCEPT !.active = IF moved THEN q.active ELSE @]
    BY <1>1, <1>6 DEF TurnIndexCommit, At
  <2>2. /\ ps \in [Profiles -> ProfileRow \cup {NoRow, Deleted}]
        /\ \A p \in Profiles : profiles[p] = NoRow /\ ps[p] # NoRow => \A x \in Requests \ {r} : reqs[x].new[p] = NoRow
        /\ \A p \in Profiles : ps[p] = NoRow => profiles[p] = NoRow
    BY <1>1, VisibleRows
  <2>3. q.state \in State /\ q.row \in SessionRow /\ row # NoRow /\ row \in SessionRow /\ Explained(q)
    BY <1>1, <2>1 DEF Sound, TypeOK
  <2>4. q.active \in Profiles \cup {Null}
    BY <1>1 DEF Request
  <2>5. row' \in SessionRow /\ row' # NoRow
    BY <2>1, <2>3, <2>4, RowUpdate
  <2> HIDE DEF ps
  <2>6. [q.row EXCEPT !.active = q.active] \in SessionRow
    BY <2>3, <2>4 DEF SessionRow
  <2>7. /\ m \in Request /\ m.op = "turn" /\ m.pc = "persist" /\ m.new = NoNew /\ m.state = q.state
        /\ m.heard = q.heard /\ m.row = [q.row EXCEPT !.active = q.active]
    <3>1. NoNew \in [Profiles -> ProfileRow \cup {NoRow}]
      BY DEF NoNew
    <3>2. QED BY <1>1, <2>1, <2>3, <2>6, <3>1 DEF Request
  <2> HIDE DEF m
  <2>8. stored \subseteq stored'
    BY <2>1 DEF Store
  <2>9. Explained(m)'
    BY <2>3, <2>7, <2>8 DEF Explained
  <2>10. Sound(m)'
    BY <2>3, <2>5, <2>6, <2>7, <2>9 DEF Sound
  <2>11. RowFirst' /\ CacheNeverAhead'
    BY <2>1, <2>5, <2>8, CacheKept DEF RowFirst
  <2>12. QED
    BY <1>1, <1>2, <2>1, <2>2, <2>5, <2>7, <2>10, <2>11, StoreStep DEF TypeOK
<1>7. CASE TurnCommit(r)
  <2> DEFINE p == q.state.member
             current == Visible(q, p)
             F == Flushed(Persisted(q.state.facts, q.loaded.facts), q.loaded.facts, current.facts)
             ps == [x \in Profiles |-> IF x = p THEN [current EXCEPT !.facts = F] ELSE Visible(q, x)]
             moved == q.active # q.row.active
             m == [q EXCEPT !.pc = "cache", !.new = NoNew]
  <2>1. /\ p \in Profiles /\ current \in ProfileRow /\ F \in Facts
        /\ \A f \in Fields : F[f] = current.facts[f] \/ F[f] = q.state.facts[f]
        /\ \A f \in Fields : q.state.facts[f] # Null => F[f] = q.state.facts[f] \/ q.loaded.facts[f] = q.state.facts[f]
        /\ ps \in [Profiles -> ProfileRow \cup {NoRow, Deleted}]
        /\ ps[p].facts = F /\ \A x \in Profiles \ {p} : ps[x] = Visible(q, x)
        /\ Store(ps)
    BY <1>1, <1>7, TurnFacts
  <2>2. current \notin {NoRow, Deleted}
    BY <2>1, SessionAssumption
  <2>3. ps[p] \notin {NoRow, Deleted}
    <3>1. [current EXCEPT !.facts = F] \in ProfileRow
      BY <2>1 DEF ProfileRow
    <3>2. ps[p] = [current EXCEPT !.facts = F]
      BY <2>1
    <3>3. QED BY <3>1, <3>2, SessionAssumption
  <2>4. /\ q.op = "turn" /\ q.pc = "commit" /\ Goto(r, m) /\ expired' = FALSE /\ cache' = cache
        /\ streak' = IF q.reply = "result" THEN 0 ELSE IF streak > MaxQuestions THEN streak ELSE streak + 1
        /\ row' = [row EXCEPT !.active = IF moved THEN q.active ELSE @]
    BY <1>1, <1>7 DEF TurnCommit, At
  <2>5. /\ \A x \in Profiles : profiles[x] = NoRow /\ Visible(q, x) # NoRow => \A y \in Requests \ {r} : reqs[y].new[x] = NoRow
        /\ \A x \in Profiles : Visible(q, x) = NoRow => profiles[x] = NoRow
    BY <1>1, VisibleRows
  <2>6. /\ \A x \in Profiles : profiles[x] = NoRow /\ ps[x] # NoRow => \A y \in Requests \ {r} : reqs[y].new[x] = NoRow
        /\ \A x \in Profiles : ps[x] = NoRow => profiles[x] = NoRow
    <3>1. ASSUME NEW x \in Profiles, profiles[x] = NoRow, ps[x] # NoRow
          PROVE  \A y \in Requests \ {r} : reqs[y].new[x] = NoRow
      <4>1. Visible(q, x) # NoRow
        BY <2>1, <2>2, <3>1
      <4>2. QED BY <2>5, <3>1, <4>1
    <3>2. ASSUME NEW x \in Profiles, ps[x] = NoRow PROVE profiles[x] = NoRow
      BY <2>1, <2>3, <2>5, <3>2
    <3>3. QED BY <3>1, <3>2
  <2>7. /\ q.state \in State /\ p # Self /\ q.row \in SessionRow /\ row \in SessionRow
        /\ row # NoRow /\ Explained(q) /\ LoadedBacked(q)
    BY <1>1, <2>4 DEF Sound, TypeOK
  <2>8. q.active \in Profiles \cup {Null}
    BY <1>1 DEF Request
  <2>9. row' \in SessionRow /\ row' # NoRow
    BY <2>4, <2>7, <2>8, RowUpdate
  <2>10. /\ profiles' = ps /\ stored' \subseteq Profiles \X Fields \X Values /\ stored \subseteq stored' /\ BackedRows'
    BY <1>1, <2>1, Stores
  <2>11. ASSUME NEW f \in Fields, q.state.facts[f] # Null PROVE <<p, f, q.state.facts[f]>> \in stored'
    <3>1. F[f] # Null => <<p, f, F[f]>> \in stored'
      <4> HIDE DEF ps, F
      <4>1. profiles'[p] \notin {NoRow, Deleted} /\ profiles'[p].facts = F
        BY <2>1, <2>3, <2>10
      <4>2. profiles'[p].facts[f] # Null => <<p, f, profiles'[p].facts[f]>> \in stored'
        BY <2>1, <2>10, <4>1 DEF BackedRows, Exists, Told
      <4>3. QED BY <4>1, <4>2
    <3> HIDE DEF F, current
    <3>2. CASE F[f] = q.state.facts[f]
      BY <2>11, <3>1, <3>2
    <3>3. CASE q.loaded.facts[f] = q.state.facts[f]
      <4>1. CASE <<p, f, q.loaded.facts[f]>> \in stored
        BY <2>10, <3>3, <4>1
      <4>2. CASE q.new[p] # NoRow /\ q.new[p].facts[f] = q.loaded.facts[f]
        <5>1. current = q.new[p]
          BY <4>2 DEF current, Visible
        <5>2. F[f] = q.state.facts[f]
          BY <2>1, <3>3, <4>2, <5>1
        <5>3. QED BY <3>2, <5>2
      <4>3. QED BY <2>7, <2>11, <3>3, <4>1, <4>2 DEF LoadedBacked
    <3>4. QED BY <2>1, <2>11, <3>2, <3>3
  <2> HIDE DEF F, current, ps
  <2>12. m \in Request /\ m.op = "turn" /\ m.pc = "cache" /\ m.new = NoNew /\ m.state = q.state
    <3>1. NoNew \in [Profiles -> ProfileRow \cup {NoRow}]
      BY DEF NoNew
    <3>2. QED BY <1>1, <2>4, <3>1 DEF Request
  <2> HIDE DEF m
  <2>13. Sound(m)'
    BY <2>7, <2>11, <2>12 DEF Sound, Told
  <2>14. RowFirst' /\ CacheNeverAhead'
    BY <2>4, <2>9, <2>10, CacheKept DEF RowFirst
  <2>15. streak' \in 0..MaxQuestions + 1
    BY <1>1, <2>4, SessionAssumption DEF TypeOK
  <2>16. \A x \in Profiles : m.new[x] = NoRow
    BY <1>2, <2>12
  <2>17. QED
    BY <1>1, <2>1, <2>4, <2>6, <2>9, <2>12, <2>13, <2>14, <2>15, <2>16, StoreStep DEF TypeOK
<1>8. CASE TurnWriteCache(r)
  <2>1. q.op = "turn" /\ q.pc = "cache" /\ cache' = q.state /\ Goto(r, Idle) /\ UNCHANGED tables
    BY <1>1, <1>8 DEF TurnWriteCache, At, Done
  <2>2. UNCHANGED <<profiles, row, expired, stored, streak>>
    BY <2>1 DEF tables
  <2>3. q.state \in State /\ (q.state.member # Self => Told(q.state.member, q.state.facts))
    BY <1>1, <2>1 DEF Sound
  <2>4. CacheNeverAhead' /\ RowFirst' /\ BackedRows' /\ Grows
    BY <2>1, <2>2, <2>3 DEF CacheNeverAhead, RowFirst, BackedRows, SessionInv, Exists, Told, Grows
  <2>5. QED BY <1>1, <1>2, <1>3, <2>1, <2>2, <2>3, <2>4, HandlerStep DEF TypeOK
<1>9. CASE PatchCommit(r)
  <2> DEFINE p == q.profile
             F == Flushed(q.facts, q.loaded.facts, profiles[p].facts)
             ps == [profiles EXCEPT ![p].facts = F]
  <2>1. /\ q.op = "patch" /\ q.pc = "commit" /\ Exists(p) /\ Store(ps) /\ Goto(r, Idle)
        /\ UNCHANGED <<row, expired, cache, streak>>
    BY <1>1, <1>9 DEF PatchCommit, At, Done
  <2>2. p \in Profiles /\ q.loaded \in ProfileRow
    BY <1>1, <2>1 DEF Sound
  <2>3. profiles[p] \in ProfileRow
    BY <1>1, <2>1, <2>2 DEF TypeOK, Exists
  <2>4. F \in Facts
    BY <1>1, <2>2, <2>3, FlushedType DEF ProfileRow, Request
  <2> HIDE DEF F
  <2>5. [profiles[p] EXCEPT !.facts = F] \in ProfileRow
    BY <2>3, <2>4 DEF ProfileRow
  <2>6. ps = [profiles EXCEPT ![p] = [profiles[p] EXCEPT !.facts = F]]
    BY <1>1, <2>2 DEF TypeOK
  <2>7. ps \in [Profiles -> ProfileRow \cup {NoRow, Deleted}]
    BY <1>1, <2>2, <2>5, <2>6 DEF TypeOK
  <2>8. \A x \in Profiles : ps[x] = NoRow <=> profiles[x] = NoRow
    BY <1>1, <2>2, <2>3, <2>5, <2>6, SessionAssumption DEF TypeOK
  <2> HIDE DEF ps
  <2>9. stored \subseteq stored' /\ profiles' = ps
    BY <2>1 DEF Store
  <2>10. RowFirst' /\ CacheNeverAhead' /\ Sound(Idle)'
    <3>1. RowFirst'
      BY <2>1, <2>8, <2>9 DEF RowFirst, SessionInv
    <3>2. Sound(Idle)'
      BY IdleType DEF Sound
    <3>3. QED BY <2>1, <2>9, <3>1, <3>2, CacheKept
  <2>11. QED BY <1>1, <1>2, <1>3, <2>1, <2>7, <2>8, <2>10, StoreStep DEF TypeOK
<1>10. QED BY <1>4, <1>5, <1>6, <1>7, <1>8, <1>9

-----------------------------------------------------------------------------
(* The other steps: members come and go, time passes, Redis loses the key. *)

\* A step that leaves the handlers alone.
LEMMA OtherStep ==
  ASSUME SessionInv, reqs' = reqs, Grows, RowFirst', BackedRows', CacheNeverAhead',
         profiles' \in [Profiles -> ProfileRow \cup {NoRow, Deleted}],
         row' \in SessionRow \cup {NoRow}, expired' \in BOOLEAN, cache' \in State \cup {NoState},
         stored' \subseteq Profiles \X Fields \X Values, streak' = streak,
         \A p \in Profiles : profiles[p] = NoRow /\ profiles'[p] # NoRow => Unused(p)
  PROVE  SessionInv'
<1>1. TypeOK'
  BY DEF SessionInv, TypeOK
<1>2. ASSUME NEW x \in Requests PROVE Sound(reqs[x])'
  <2>1. Sound(reqs[x])
    BY DEF SessionInv, Handlers
  <2>2. QED BY <2>1 DEF Sound, Told, Explained, LoadedBacked, Grows
<1>3. NewUnused'
  BY DEF SessionInv, NewUnused, Unused
<1>4. QED BY <1>1, <1>2, <1>3 DEF SessionInv, Handlers

LEMMA OthersInv ==
  ASSUME SessionInv, (\E p \in Profiles : AddMember(p) \/ DeleteMember(p)) \/ Expire \/ LoseKey \/ UNCHANGED vars
  PROVE  SessionInv'
<1>1. TypeOK
  BY DEF SessionInv
<1>2. ASSUME NEW p \in Profiles, AddMember(p) PROVE SessionInv'
  <2>1. PICK rel \in Relations, F \in Facts : Store([profiles EXCEPT ![p] = [relation |-> rel, facts |-> F]])
    BY <1>2 DEF AddMember
  <2> DEFINE prow == [relation |-> rel, facts |-> F]
             ps == [profiles EXCEPT ![p] = prow]
  <2>2. prow \in ProfileRow
    BY DEF ProfileRow
  <2>3. ps \in [Profiles -> ProfileRow \cup {NoRow, Deleted}] /\ \A x \in Profiles \ {p} : ps[x] = profiles[x]
    BY <1>1, <2>2 DEF TypeOK
  <2>4. Store(ps) /\ row # NoRow /\ Unused(p) /\ UNCHANGED <<row, expired, cache, streak, reqs>>
    BY <1>2, <2>1 DEF AddMember
  <2> HIDE DEF ps
  <2>5. /\ profiles' = ps /\ stored' \subseteq Profiles \X Fields \X Values
        /\ stored \subseteq stored' /\ BackedRows'
    BY <1>1, <2>3, <2>4, Stores
  <2>6. Grows /\ RowFirst' /\ CacheNeverAhead'
    BY <2>4, <2>5, CacheKept DEF Grows, RowFirst
  <2>7. QED BY <1>1, <2>3, <2>4, <2>5, <2>6, OtherStep DEF TypeOK
<1>3. ASSUME NEW p \in Profiles, DeleteMember(p) PROVE SessionInv'
  <2> DEFINE ps == [profiles EXCEPT ![p] = Deleted]
  <2>1. /\ Store(ps) /\ Exists(p) /\ UNCHANGED <<expired, cache, streak, reqs>>
        /\ row' = [active |-> IF row.active = p THEN Null ELSE row.active,
                   primary |-> IF row.primary = p THEN Null ELSE row.primary]
    BY <1>3 DEF DeleteMember
  <2>2. ps \in [Profiles -> ProfileRow \cup {NoRow, Deleted}] /\ \A x \in Profiles : ps[x] = NoRow => profiles[x] = NoRow
    BY <1>1, SessionAssumption DEF TypeOK
  <2>3. \A x \in Profiles : profiles[x] = NoRow => ps[x] = NoRow
    BY <1>1, <2>1 DEF TypeOK, Exists
  <2> HIDE DEF ps
  <2>4. /\ profiles' = ps /\ stored' \subseteq Profiles \X Fields \X Values
        /\ stored \subseteq stored' /\ BackedRows'
    BY <1>1, <2>1, <2>2, Stores
  <2>5. row \in SessionRow
    BY <1>1, <2>1 DEF SessionInv, RowFirst, Exists, TypeOK
  <2>6. row' \in SessionRow /\ row' # NoRow
    BY <2>1, <2>5, SessionAssumption DEF SessionRow
  <2>7. Grows /\ RowFirst' /\ CacheNeverAhead'
    BY <2>1, <2>4, <2>6, CacheKept DEF Grows, RowFirst
  <2>8. QED BY <1>1, <2>1, <2>2, <2>3, <2>4, <2>6, <2>7, OtherStep DEF TypeOK
<1>4. CASE Expire \/ LoseKey \/ UNCHANGED vars
  <2>1. /\ UNCHANGED <<profiles, row, stored, streak, reqs>> /\ expired' \in BOOLEAN
        /\ cache' = cache \/ cache' = NoState
    BY <1>1, <1>4 DEF Expire, LoseKey, vars, tables, TypeOK
  <2>2. Grows /\ RowFirst' /\ BackedRows' /\ CacheNeverAhead'
    BY <2>1 DEF SessionInv, Grows, RowFirst, BackedRows, CacheNeverAhead, Exists, Told
  <2>3. QED BY <1>1, <2>1, <2>2, OtherStep DEF TypeOK
<1>5. QED BY <1>2, <1>3, <1>4

LEMMA SessionInvInit == Init => SessionInv
<1> SUFFICES ASSUME Init PROVE SessionInv
  OBVIOUS
<1>1. TypeOK
  <2>1. 0 \in 0..MaxQuestions + 1
    BY SessionAssumption
  <2>2. reqs \in [Requests -> Request]
    BY IdleType DEF Init
  <2>3. QED BY <2>1, <2>2 DEF Init, TypeOK
<1>2. RowFirst /\ BackedRows /\ CacheNeverAhead
  BY SessionAssumption DEF Init, RowFirst, BackedRows, CacheNeverAhead, Exists
<1>3. NewUnused
  BY IdleType DEF Init, NewUnused, NoNew
<1>4. Handlers
  BY IdleType DEF Init, Handlers, Sound
<1>5. QED BY <1>1, <1>2, <1>3, <1>4 DEF SessionInv

LEMMA SessionInvNext == SessionInv /\ [Next]_vars => SessionInv'
<1> SUFFICES ASSUME SessionInv, [Next]_vars PROVE SessionInv'
  OBVIOUS
<1>1. ASSUME NEW r \in Requests, Handler(r) PROVE SessionInv'
  BY <1>1, ReadersInv, ListenInv, WritersInv DEF Handler
<1>2. QED BY <1>1, OthersInv DEF Next

\* The inductive invariant holds in every reachable state.
THEOREM SessionInvariant == Spec => []SessionInv
  BY SessionInvInit, SessionInvNext, PTL DEF Spec

\* Every variable of the conversation keeps its type.
THEOREM SessionTypeCorrect == Spec => []TypeOK
<1>1. SessionInv => TypeOK
  BY DEF SessionInv
<1>2. QED BY <1>1, SessionInvariant, PTL

\* Redis never shows a fact that was not committed to that member's profile,
\* whatever fails, overlaps or is lost (session_service.py:588-589).
THEOREM CacheIsNeverAhead == Spec => []CacheNeverAhead
<1>1. SessionInv => CacheNeverAhead
  BY DEF SessionInv
<1>2. QED BY <1>1, SessionInvariant, PTL

\* No chat turn empties a stored column (session_service.py:237-242).
THEOREM TurnsNeverEraseScalars == Spec => ScalarsNeverErased
<1>1. ASSUME SessionInv, NEW r \in Requests, NEW x \in Profiles, NEW f \in Scalars,
             TurnCommit(r), Exists(x), profiles[x].facts[f] # Null
      PROVE  profiles'[x].facts[f] # Null
  <2>1. PICK q \in Request : q = reqs[r]
    BY <1>1 DEF SessionInv, TypeOK
  <2> DEFINE p == q.state.member
             current == Visible(q, p)
             F == Flushed(Persisted(q.state.facts, q.loaded.facts), q.loaded.facts, current.facts)
             ps == [y \in Profiles |-> IF y = p THEN [current EXCEPT !.facts = F] ELSE Visible(q, y)]
  <2>2. /\ \A g \in Scalars : current.facts[g] # Null => F[g] # Null
        /\ ps[p].facts = F /\ \A y \in Profiles \ {p} : ps[y] = Visible(q, y)
        /\ Store(ps)
    BY <1>1, <2>1, TurnFacts
  <2>3. q.new[x] = NoRow
    BY <1>1, <2>1 DEF SessionInv, NewUnused, Exists
  <2>4. Visible(q, x) = profiles[x]
    BY <2>3 DEF Visible
  <2>5. profiles' = ps
    BY <2>2 DEF Store
  <2> HIDE DEF ps, F
  <2>6. CASE x = p
    BY <1>1, <2>2, <2>4, <2>5, <2>6
  <2>7. CASE x # p
    BY <1>1, <2>2, <2>4, <2>5, <2>7
  <2>8. QED BY <2>6, <2>7
<1>2. SessionInv => [\A r \in Requests, p \in Profiles, f \in Scalars :
          TurnCommit(r) /\ Exists(p) /\ profiles[p].facts[f] # Null => profiles'[p].facts[f] # Null]_vars
  BY <1>1
<1>3. QED BY <1>2, SessionInvariant, PTL DEF ScalarsNeverErased

\* What a turn adds to a profile it heard, or it added the profile with it: no fact
\* moves from one member to another (session_service.py:361-363).
THEOREM TurnsInventNothing == Spec => NothingInvented
<1>1. ASSUME SessionInv, NEW r \in Requests, TurnCommit(r), NEW x \in Profiles, NEW f \in Fields, NEW v \in Values,
             <<x, f, v>> \in stored' \ stored
      PROVE  \/ x = reqs[r].state.member /\ <<f, v>> \in reqs[r].heard
             \/ reqs[r].new[x] # NoRow /\ reqs[r].new[x].facts[f] = v
  <2>1. PICK q \in Request : q = reqs[r] /\ Sound(q)
    BY <1>1 DEF SessionInv, TypeOK, Handlers
  <2> DEFINE p == q.state.member
             current == Visible(q, p)
             F == Flushed(Persisted(q.state.facts, q.loaded.facts), q.loaded.facts, current.facts)
             ps == [y \in Profiles |-> IF y = p THEN [current EXCEPT !.facts = F] ELSE Visible(q, y)]
  <2>2. /\ \A g \in Fields : F[g] = current.facts[g] \/ F[g] = q.state.facts[g]
        /\ ps[p].facts = F /\ \A y \in Profiles \ {p} : ps[y] = Visible(q, y)
        /\ Store(ps)
    BY <1>1, <2>1, TurnFacts
  <2> HIDE DEF ps, F
  <2>3. ps[x] \notin {NoRow, Deleted} /\ ps[x].facts[f] = v
    BY <1>1, <2>2 DEF Store, FactsOf
  <2>4. v # Null
    BY SessionAssumption
  <2>5. q.op = "turn" /\ q.pc = "commit" /\ current \notin {NoRow, Deleted}
    BY <1>1, <2>1 DEF TurnCommit, At
  <2>6. p # Self /\ Explained(q)
    BY <2>1, <2>5 DEF Sound
  <2>7. CASE Visible(q, x) \notin {NoRow, Deleted} /\ Visible(q, x).facts[f] = v
    <3>1. CASE q.new[x] # NoRow
      BY <2>1, <2>7, <3>1 DEF Visible
    <3>2. CASE q.new[x] = NoRow
      <4>1. Exists(x) /\ profiles[x].facts[f] = v
        BY <2>7, <3>2 DEF Visible, Exists
      <4>2. <<x, f, v>> \in stored
        BY <1>1, <2>4, <4>1 DEF SessionInv, BackedRows, Told
      <4>3. QED BY <1>1, <4>2
    <3>3. QED BY <3>1, <3>2
  <2>8. CASE x = p /\ q.state.facts[f] = v
    BY <1>1, <2>1, <2>4, <2>6, <2>8 DEF Explained
  <2>9. QED BY <2>2, <2>3, <2>5, <2>7, <2>8
<1>2. SessionInv => [\A r \in Requests : TurnCommit(r) =>
          \A p \in Profiles, f \in Fields, v \in Values : <<p, f, v>> \in stored' \ stored =>
            \/ p = reqs[r].state.member /\ <<f, v>> \in reqs[r].heard
            \/ reqs[r].new[p] # NoRow /\ reqs[r].new[p].facts[f] = v]_vars
  BY <1>1
<1>3. QED BY <1>2, SessionInvariant, PTL DEF NothingInvented
=============================================================================
