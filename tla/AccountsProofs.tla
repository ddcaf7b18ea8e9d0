--------------------------- MODULE AccountsProofs ---------------------------
(***************************************************************************)
(* Proofs about the modules Accounts and UserServices: for every number of *)
(* phones, users, challenges, schemes, keys and overlapping handlers, and  *)
(* all limits and times; and that the run's restriction of them            *)
(* (MCUserServices) is covered by what is proved.                          *)
(***************************************************************************)
EXTENDS MCUserServices, FiniteSetTheorems, TLAPS

\* What a handler may rely on: rows are never removed, and a code is only compared while
\* attempts are left.
HandlerSound(l) ==
    LET q == logins[l] IN
    /\ q.op = "send" => q.phone \in Phones
    /\ q.op = "verify" => /\ q.challenge \in Challenges /\ challenges[q.challenge] # NoRow
                          /\ q.phone \in Phones
                          /\ q.pc \in {"wrong", "lookup", "insert", "update", "profile", "commit"} =>
                                q.attempts < MaxAttempts
    /\ q.op \in {"patch", "delete"} \/ q.pc \in {"update", "profile", "commit"} =>
          q.user \in Users /\ users[q.user] # NoRow
    /\ q.op # "delete" /\ q.pc \in {"profile", "commit"} => q.guest \in Guests
    /\ q.op = "patch" => q.guest \in Guests

ProfilesThere == \A u \in Users : users[u] # NoRow => profiles[users[u].profile] # NoRow

AccountsInv ==
    /\ TypeOK
    /\ ProfilesThere
    /\ AttemptsBounded
    /\ AccountsSound
    /\ \A l \in Logins : HandlerSound(l)

\* A row of users is final but for its deletion, and rows stay.
RowsStay ==
    /\ \A c \in Challenges : challenges[c] # NoRow => challenges'[c] # NoRow
    /\ \A u \in Users : users[u] # NoRow =>
          /\ users'[u] # NoRow /\ users'[u].profile = users[u].profile
          /\ users[u].deleted => users'[u].deleted

\* A text is sent only after the interval.
Spaced == \A l \in Logins : logins[l].pc = "idle" /\ logins'[l].pc = "store" =>
              \A c \in SentTo(logins'[l].phone) : challenges[c].created + RetryAfter <= now

Kept == AccountsInv' /\ RowsStay /\ Spaced

LEMMA IdleType == Idle \in Login /\ Idle.op = "none" /\ Idle.pc = "idle"
<1>1. LastTime \in Nat
  BY AccountsAssumption
<1>2. QED BY <1>1 DEF Idle, Login, Time

\* Facts about the rows and handlers there are.
LEMMA Facts ==
    ASSUME AccountsInv
    PROVE  /\ \A l \in Logins : logins[l] \in Login /\ HandlerSound(l)
           /\ \A c \in Challenges : challenges[c] # NoRow => challenges[c] \in ChallengeRow
           /\ \A u \in Users : users[u] # NoRow =>
                 /\ users[u] \in UserRow /\ users[u].profile \in Profiles
                 /\ profiles[users[u].profile] \in ProfileRow
           /\ MaxAttempts \in Nat \ {0} /\ RetryAfter \in Nat /\ LastTime \in Nat /\ now \in Nat
BY AccountsAssumption DEF AccountsInv, TypeOK, ProfilesThere, UserRow, Time

\* One handler goes on as q; the tables keep their parts of the invariant.
LEMMA HandlerMoves ==
    ASSUME AccountsInv, NEW l \in Logins, NEW q \in Login, Goto(l, q), TypeOK',
           ProfilesThere', AttemptsBounded', AccountsSound', RowsStay,
           q.op = "send" => q.phone \in Phones,
           q.op = "verify" => /\ q.challenge \in Challenges /\ challenges[q.challenge] # NoRow
                              /\ q.phone \in Phones
                              /\ q.pc \in {"wrong", "lookup", "insert", "update", "profile", "commit"} =>
                                    q.attempts < MaxAttempts,
           q.op \in {"patch", "delete"} \/ q.pc \in {"update", "profile", "commit"} =>
                q.user \in Users /\ users[q.user] # NoRow,
           q.op # "delete" /\ q.pc \in {"profile", "commit"} => q.guest \in Guests,
           q.op = "patch" => q.guest \in Guests,
           logins[l].pc = "idle" /\ q.pc = "store" =>
                \A c \in SentTo(q.phone) : challenges[c].created + RetryAfter <= now
    PROVE  Kept
<1>1. \A x \in Logins : logins'[x] = IF x = l THEN q ELSE logins[x]
  BY DEF Goto, AccountsInv, TypeOK
<1>2. ASSUME NEW x \in Logins PROVE HandlerSound(x)'
  <2>1. CASE x = l
    BY <1>1, <2>1 DEF HandlerSound, RowsStay
  <2>2. CASE x # l
    <3>1. HandlerSound(x) /\ logins'[x] = logins[x]
      BY <1>1, <2>2 DEF AccountsInv
    <3>2. QED BY <3>1 DEF HandlerSound, RowsStay
  <2>3. QED BY <2>1, <2>2
<1>3. Spaced
  <2>1. ASSUME NEW x \in Logins, logins[x].pc = "idle", logins'[x].pc = "store",
               NEW c \in SentTo(logins'[x].phone)
        PROVE  challenges[c].created + RetryAfter <= now
    <3>1. x = l
      BY <1>1, <2>1
    <3>2. QED BY <1>1, <2>1, <3>1
  <2>2. QED BY <2>1 DEF Spaced
<1>4. QED BY <1>2, <1>3 DEF Kept, AccountsInv

\* The same when no table changes.
LEMMA HandlerReads ==
    ASSUME AccountsInv, NEW l \in Logins, NEW q \in Login, Goto(l, q), UNCHANGED <<now, tables>>,
           q.op = "send" => q.phone \in Phones,
           q.op = "verify" => /\ q.challenge \in Challenges /\ challenges[q.challenge] # NoRow
                              /\ q.phone \in Phones
                              /\ q.pc \in {"wrong", "lookup", "insert", "update", "profile", "commit"} =>
                                    q.attempts < MaxAttempts,
           q.op \in {"patch", "delete"} \/ q.pc \in {"update", "profile", "commit"} =>
                q.user \in Users /\ users[q.user] # NoRow,
           q.op # "delete" /\ q.pc \in {"profile", "commit"} => q.guest \in Guests,
           q.op = "patch" => q.guest \in Guests,
           logins[l].pc = "idle" /\ q.pc = "store" =>
                \A c \in SentTo(q.phone) : challenges[c].created + RetryAfter <= now
    PROVE  Kept
<1>1. UNCHANGED <<now, challenges, users, profiles>>
  BY DEF tables
<1>2. TypeOK' /\ RowsStay
  BY <1>1 DEF AccountsInv, TypeOK, RowsStay, Goto
<1>3. ProfilesThere' /\ AttemptsBounded' /\ AccountsSound'
  BY <1>1 DEF AccountsInv, ProfilesThere, AttemptsBounded, AccountsSound, Active
<1>4. QED BY <1>2, <1>3, HandlerMoves

LEMMA Ends ==
    ASSUME AccountsInv, NEW l \in Logins, Done(l), UNCHANGED <<now, tables>>
    PROVE  Kept
BY IdleType, HandlerReads DEF Done

\* Writing one challenge.
LEMMA ChallengeWrite ==
    ASSUME AccountsInv, NEW c \in Challenges, NEW row \in ChallengeRow,
           row.attempts <= MaxAttempts, row.status = "verified" => row.attempts > 0,
           challenges' = [challenges EXCEPT ![c] = row]
    PROVE  /\ challenges' \in [Challenges -> ChallengeRow \cup {NoRow}] /\ AttemptsBounded'
           /\ \A x \in Challenges : challenges[x] # NoRow => challenges'[x] # NoRow
BY NoRowAssumption DEF AccountsInv, TypeOK, AttemptsBounded

\* A handler ends with a written challenge and other tables unchanged.
LEMMA ChallengeEnds ==
    ASSUME AccountsInv, NEW l \in Logins, Done(l), UNCHANGED <<now, users, profiles>>,
           challenges' \in [Challenges -> ChallengeRow \cup {NoRow}], AttemptsBounded',
           \A x \in Challenges : challenges[x] # NoRow => challenges'[x] # NoRow
    PROVE  Kept
<1>1. TypeOK' /\ RowsStay
  BY IdleType DEF AccountsInv, TypeOK, RowsStay, Done, Goto
<1>2. ProfilesThere' /\ AccountsSound'
  BY DEF AccountsInv, ProfilesThere, AccountsSound, Active
<1>3. QED BY <1>1, <1>2, IdleType, HandlerMoves DEF Done

LEMMA SendStep ==
    ASSUME AccountsInv, NEW l \in Logins,
           (\E p \in Phones : SendRead(l, p)) \/ (\E c \in Challenges : SendStore(l, c))
    PROVE  Kept
<1>1. CASE \E p \in Phones : SendRead(l, p)
  <2>1. PICK p \in Phones : SendRead(l, p)
    BY <1>1
  <2> DEFINE q == [Idle EXCEPT !.op = "send", !.pc = "store", !.phone = p, !.at = now]
  <2>2. q \in Login /\ q.op = "send" /\ q.pc = "store" /\ q.phone = p
    BY IdleType DEF Login, AccountsInv, TypeOK
  <2>3. \A c \in SentTo(p) : challenges[c].created + RetryAfter <= now
    <3>1. CASE SentTo(p) = {}
      BY <3>1
    <3>2. CASE SentTo(p) # {}
      <4>1. PICK d \in Recent(SentTo(p)) : challenges[d].created + RetryAfter <= now
        BY <2>1, <3>2 DEF SendRead
      <4>2. ASSUME NEW c \in SentTo(p) PROVE challenges[c].created + RetryAfter <= now
        <5>1. challenges[d].created >= challenges[c].created
          BY <4>1, <4>2 DEF Recent
        <5>2. challenges[c] \in ChallengeRow /\ challenges[d] \in ChallengeRow
          BY <4>1, <4>2, Facts DEF Recent, SentTo
        <5>3. challenges[c].created \in Nat /\ challenges[d].created \in Nat
          BY <5>2, Facts DEF ChallengeRow, Time
        <5>4. QED BY <4>1, <5>1, <5>3, Facts
      <4>3. QED BY <4>2
    <3>3. QED BY <3>1, <3>2
  <2>4. Goto(l, q) /\ UNCHANGED <<now, tables>>
    BY <2>1 DEF SendRead
  <2> HIDE DEF q
  <2>5. QED BY <2>2, <2>3, <2>4, HandlerReads
<1>2. CASE \E c \in Challenges : SendStore(l, c)
  <2>1. PICK c \in Challenges : SendStore(l, c)
    BY <1>2
  <2> DEFINE row == [phone |-> logins[l].phone, status |-> "sent", attempts |-> 0, created |-> logins[l].at]
  <2>2. logins[l].phone \in Phones /\ logins[l].at \in Time
    BY <2>1, Facts DEF SendStore, At, HandlerSound, Login
  <2>3. row \in ChallengeRow /\ row.attempts = 0 /\ row.status = "sent"
    BY <2>2 DEF ChallengeRow, Statuses
  <2>4. challenges' = [challenges EXCEPT ![c] = row] /\ Done(l) /\ UNCHANGED <<now, users, profiles>>
    BY <2>1 DEF SendStore
  <2> HIDE DEF row
  <2>5. row.attempts <= MaxAttempts /\ (row.status = "verified" => row.attempts > 0)
    BY <2>3, Facts
  <2>6. QED BY <2>3, <2>4, <2>5, ChallengeWrite, ChallengeEnds
<1>3. QED BY <1>1, <1>2

LEMMA VerifyReadStep ==
    ASSUME AccountsInv, NEW l \in Logins, NEW c \in Challenges, NEW right \in BOOLEAN,
           NEW g \in Guests \cup {Null}, VerifyRead(l, c, right, g)
    PROVE  Kept
<1> DEFINE row == challenges[c]
           pc == Verdict(row, right)
           q == [Idle EXCEPT !.op = "verify", !.pc = pc, !.challenge = c, !.status = row.status,
                             !.attempts = row.attempts, !.phone = row.phone, !.guest = g]
<1>1. row \in ChallengeRow /\ row # NoRow /\ row.attempts \in Nat /\ row.phone \in Phones /\ row.status \in Statuses
  BY Facts DEF VerifyRead, ChallengeRow
<1>2. pc \in {"expire", "fail", "lookup", "wrong"} /\ (pc \in {"lookup", "wrong"} => row.attempts < MaxAttempts)
  BY <1>1, Facts DEF Verdict
<1>3. Goto(l, q) /\ UNCHANGED <<now, tables>>
  BY DEF VerifyRead
<1> HIDE DEF pc
<1>4. /\ q \in Login /\ q.op = "verify" /\ q.pc = pc /\ q.challenge = c /\ q.phone \in Phones
      /\ q.attempts = row.attempts
  BY <1>1, <1>2, IdleType DEF Login
<1> HIDE DEF q
<1>5. QED BY <1>1, <1>2, <1>3, <1>4, HandlerReads

LEMMA VerifyRefuseStep ==
    ASSUME AccountsInv, NEW l \in Logins, VerifyRefuse(l)
    PROVE  Kept
<1> DEFINE q == logins[l]
           c == q.challenge
           old == challenges[c]
           row == IF q.pc = "expire"
                  THEN IF q.status = "expired" THEN old ELSE [old EXCEPT !.status = "expired"]
                  ELSE IF q.pc = "fail" THEN [old EXCEPT !.status = "failed"]
                  ELSE [old EXCEPT !.attempts = q.attempts + 1]
<1>1. /\ q \in Login /\ q.op = "verify" /\ q.pc \in {"expire", "fail", "wrong"} /\ c \in Challenges
      /\ old \in ChallengeRow /\ (q.pc = "wrong" => q.attempts < MaxAttempts) /\ q.attempts \in Nat
  BY Facts DEF VerifyRefuse, HandlerSound, Login
<1>2. old.attempts \in Nat /\ old.attempts <= MaxAttempts /\ (old.status = "verified" => old.attempts > 0)
  <2>1. old # NoRow
    BY <1>1, NoRowAssumption
  <2>2. QED BY <1>1, <2>1 DEF AccountsInv, AttemptsBounded, ChallengeRow
<1>3. row \in ChallengeRow /\ row.attempts <= MaxAttempts /\ (row.status = "verified" => row.attempts > 0)
  <2>1. CASE q.pc = "expire"
    BY <1>1, <1>2, <2>1 DEF ChallengeRow, Statuses
  <2>2. CASE q.pc = "fail"
    BY <1>1, <1>2, <2>2 DEF ChallengeRow, Statuses
  <2>3. CASE q.pc = "wrong"
    <3>1. row = [old EXCEPT !.attempts = q.attempts + 1]
      BY <2>3
    <3>2. q.attempts + 1 \in Nat /\ q.attempts + 1 <= MaxAttempts /\ q.attempts + 1 > 0
      BY <1>1, <2>3, Facts
    <3>3. QED BY <1>1, <3>1, <3>2 DEF ChallengeRow
  <2>4. QED BY <1>1, <2>1, <2>2, <2>3
<1>4. challenges' = [challenges EXCEPT ![c] = row]
  <2>1. CASE q.pc = "expire"
    BY <2>1 DEF VerifyRefuse
  <2>2. CASE q.pc = "fail"
    BY <2>2 DEF VerifyRefuse
  <2>3. CASE q.pc = "wrong"
    BY <2>3 DEF VerifyRefuse
  <2>4. QED BY <1>1, <2>1, <2>2, <2>3
<1>5. Done(l) /\ UNCHANGED <<now, users, profiles>>
  BY DEF VerifyRefuse
<1> HIDE DEF row
<1>6. QED BY <1>1, <1>3, <1>4, <1>5, ChallengeWrite, ChallengeEnds

\* What a verification writes of its challenge.
LEMMA VerifiedWrite ==
    ASSUME AccountsInv, NEW l \in Logins, logins[l].op = "verify", logins[l].pc \in {"insert", "update", "commit"},
           challenges' = VerifiedRow(logins[l])
    PROVE  /\ challenges' \in [Challenges -> ChallengeRow \cup {NoRow}] /\ AttemptsBounded'
           /\ \A x \in Challenges : challenges[x] # NoRow => challenges'[x] # NoRow
<1> DEFINE q == logins[l]
           old == challenges[q.challenge]
           row == [old EXCEPT !.status = "verified", !.attempts = q.attempts + 1]
<1>1. /\ q \in Login /\ q.challenge \in Challenges /\ old \in ChallengeRow
      /\ q.attempts < MaxAttempts /\ q.attempts \in Nat
  BY Facts DEF HandlerSound, Login
<1>2. q.attempts + 1 \in Nat /\ q.attempts + 1 <= MaxAttempts /\ q.attempts + 1 > 0
  BY <1>1, Facts
<1>3. row \in ChallengeRow /\ row.attempts = q.attempts + 1
  BY <1>1, <1>2 DEF ChallengeRow, Statuses
<1>4. challenges' = [challenges EXCEPT ![q.challenge] = row]
  BY <1>1 DEF VerifiedRow, ChallengeRow, AccountsInv, TypeOK
<1> HIDE DEF row
<1>5. QED BY <1>1, <1>2, <1>3, <1>4, ChallengeWrite

LEMMA VerifyLookupStep ==
    ASSUME AccountsInv, NEW l \in Logins, VerifyLookup(l) \/ VerifyConflict(l)
    PROVE  Kept
<1> DEFINE q == logins[l]
<1>1. q \in Login /\ HandlerSound(l)
  BY Facts
<1>2. CASE VerifyConflict(l)
  BY <1>2, Ends DEF VerifyConflict
<1>3. CASE VerifyLookup(l)
  <2>1. q.op = "verify" /\ q.pc = "lookup" /\ UNCHANGED <<now, tables>>
    BY <1>3 DEF VerifyLookup, At
  <2>2. CASE Goto(l, [q EXCEPT !.pc = "insert"])
    <3> DEFINE w == [q EXCEPT !.pc = "insert"]
    <3>1. /\ w \in Login /\ w.op = "verify" /\ w.pc = "insert" /\ w.challenge = q.challenge
          /\ w.phone = q.phone /\ w.attempts = q.attempts
      BY <1>1, <2>1 DEF Login
    <3>2. Goto(l, w)
      BY <2>2
    <3> HIDE DEF w
    <3>3. QED BY <1>1, <2>1, <3>1, <3>2, HandlerReads DEF HandlerSound
  <2>3. CASE \E u \in HoldersOf(q.phone) : Goto(l, [q EXCEPT !.pc = "update", !.user = u])
    <3>1. PICK u \in HoldersOf(q.phone) : Goto(l, [q EXCEPT !.pc = "update", !.user = u])
      BY <2>3
    <3> DEFINE w == [q EXCEPT !.pc = "update", !.user = u]
    <3>2. u \in Users /\ users[u] # NoRow
      BY DEF HoldersOf, Active
    <3>3. /\ w \in Login /\ w.op = "verify" /\ w.pc = "update" /\ w.challenge = q.challenge
          /\ w.phone = q.phone /\ w.attempts = q.attempts /\ w.user = u
      BY <1>1, <2>1, <3>2 DEF Login
    <3>4. Goto(l, w)
      BY <3>1
    <3> HIDE DEF w
    <3>5. QED BY <1>1, <2>1, <3>2, <3>3, <3>4, HandlerReads DEF HandlerSound
  <2>4. QED BY <1>3, <2>2, <2>3 DEF VerifyLookup
<1>4. QED BY <1>2, <1>3

\* uq_users_org_phone is checked by the insert itself.
LEMMA VerifyInsertStep ==
    ASSUME AccountsInv, NEW l \in Logins, NEW u \in Users, NEW p \in Profiles, VerifyInsert(l, u, p)
    PROVE  Kept
<1> DEFINE q == logins[l]
           user == [phone |-> q.phone, profile |-> p, deleted |-> FALSE]
           profile == [opener |-> q.guest, migrated |-> {}]
<1>1. /\ q \in Login /\ q.op = "verify" /\ q.pc = "insert" /\ q.phone \in Phones
      /\ HoldersOf(q.phone) = {} /\ users[u] = NoRow /\ profiles[p] = NoRow
  BY Facts DEF VerifyInsert, At, NumberFree, HandlerSound
<1>2. user \in UserRow /\ profile \in ProfileRow /\ user # NoRow /\ profile # NoRow
  <2>1. user \in UserRow
    BY <1>1 DEF UserRow
  <2>2. profile \in ProfileRow
    BY <1>1 DEF ProfileRow, Login
  <2> HIDE DEF user, profile
  <2>3. QED BY <2>1, <2>2, NoRowAssumption
<1>3. /\ users' = [users EXCEPT ![u] = user] /\ profiles' = [profiles EXCEPT ![p] = profile]
      /\ challenges' = VerifiedRow(q) /\ Done(l) /\ now' = now
  BY DEF VerifyInsert
<1>4. /\ challenges' \in [Challenges -> ChallengeRow \cup {NoRow}] /\ AttemptsBounded'
      /\ \A x \in Challenges : challenges[x] # NoRow => challenges'[x] # NoRow
  BY <1>1, <1>3, VerifiedWrite
<1>5. user.phone = q.phone /\ user.profile = p /\ ~user.deleted
  OBVIOUS
<1> HIDE DEF user, profile
<1>6. /\ \A x \in Users : users'[x] = IF x = u THEN user ELSE users[x]
      /\ \A x \in Profiles : profiles'[x] = IF x = p THEN profile ELSE profiles[x]
  BY <1>3 DEF AccountsInv, TypeOK
<1>7. TypeOK'
  BY <1>2, <1>3, <1>4, IdleType DEF AccountsInv, TypeOK, Done, Goto
<1>8. RowsStay
  BY <1>1, <1>4, <1>6 DEF RowsStay
<1>9. \A x \in Users : users[x] # NoRow => users[x].profile \in Profiles /\ users[x].profile # p
  BY <1>1, Facts DEF AccountsInv, ProfilesThere
<1>10. ProfilesThere'
  BY <1>2, <1>5, <1>6, <1>9 DEF AccountsInv, ProfilesThere
<1>11. AccountsSound'
  <2>1. ASSUME NEW x \in Users, NEW y \in Users, Active(x)', Active(y)', users'[x].phone = users'[y].phone
        PROVE  x = y
    <3>1. CASE x # u /\ y # u
      BY <1>6, <2>1, <3>1 DEF AccountsInv, AccountsSound, Active
    <3>2. ASSUME NEW z \in Users, z # u, Active(z)' PROVE users'[z].phone # q.phone
      BY <1>1, <1>6, <3>2 DEF HoldersOf, Active
    <3>3. CASE x = u \/ y = u
      BY <1>5, <1>6, <2>1, <3>2, <3>3
    <3>4. QED BY <3>1, <3>3
  <2>2. ASSUME NEW x \in Profiles, profiles'[x] # NoRow
        PROVE  \E v \in Users : users'[v] # NoRow /\ users'[v].profile = x
    <3>1. CASE x = p
      BY <1>2, <1>5, <1>6, <3>1
    <3>2. CASE x # p
      <4>1. PICK v \in Users : users[v] # NoRow /\ users[v].profile = x
        BY <1>6, <2>2, <3>2 DEF AccountsInv, AccountsSound
      <4>2. v # u
        BY <1>1, <4>1
      <4>3. QED BY <1>6, <4>1, <4>2
    <3>3. QED BY <3>1, <3>2
  <2>3. ASSUME NEW x \in Users, NEW y \in Users, users'[x] # NoRow, users'[y] # NoRow,
               users'[x].profile = users'[y].profile
        PROVE  x = y
    <3>1. CASE x # u /\ y # u
      BY <1>6, <2>3, <3>1 DEF AccountsInv, AccountsSound
    <3>2. CASE x = u \/ y = u
      BY <1>5, <1>6, <1>9, <2>3, <3>2
    <3>3. QED BY <3>1, <3>2
  <2>4. QED BY <2>1, <2>2, <2>3 DEF AccountsSound
<1>12. QED BY <1>3, <1>4, <1>7, <1>8, <1>10, <1>11, IdleType, HandlerMoves DEF Done

\* A guest id is added to a profile that is there.
LEMMA GuestWrite ==
    ASSUME AccountsInv, NEW l \in Logins, logins[l].op # "delete", logins[l].pc = "commit",
           UNCHANGED <<now, users>>, profiles' = WithGuest(logins[l]), Done(l),
           challenges' \in [Challenges -> ChallengeRow \cup {NoRow}], AttemptsBounded',
           \A x \in Challenges : challenges[x] # NoRow => challenges'[x] # NoRow
    PROVE  Kept
<1> DEFINE q == logins[l]
           p == users[q.user].profile
           row == [profiles[p] EXCEPT !.migrated = q.attrs \cup {q.guest}]
<1>1. q \in Login /\ q.user \in Users /\ users[q.user] # NoRow /\ q.guest \in Guests /\ q.attrs \subseteq Guests
  BY Facts DEF HandlerSound, Login
<1>2. p \in Profiles /\ profiles[p] \in ProfileRow
  BY <1>1, Facts
<1>3. row \in ProfileRow
  BY <1>1, <1>2 DEF ProfileRow
<1>4. profiles' = profiles \/ profiles' = [profiles EXCEPT ![p] = row]
  BY <1>2 DEF WithGuest
<1> HIDE DEF row
<1>5. /\ profiles' \in [Profiles -> ProfileRow \cup {NoRow}]
      /\ \A x \in Profiles : profiles'[x] # NoRow <=> profiles[x] # NoRow
  <2>1. profiles \in [Profiles -> ProfileRow \cup {NoRow}] /\ row # NoRow /\ profiles[p] # NoRow
    BY <1>2, <1>3, NoRowAssumption DEF AccountsInv, TypeOK
  <2>2. QED BY <1>2, <1>3, <1>4, <2>1, ZenonT(60)
<1>6. TypeOK' /\ RowsStay
  BY <1>5, IdleType DEF AccountsInv, TypeOK, RowsStay, Done, Goto
<1>7. ProfilesThere' /\ AccountsSound'
  BY <1>5, Facts DEF AccountsInv, ProfilesThere, AccountsSound, Active
<1>8. QED BY <1>6, <1>7, IdleType, HandlerMoves DEF Done

LEMMA VerifyUpdateStep ==
    ASSUME AccountsInv, NEW l \in Logins, VerifyUpdate(l) \/ VerifyCommit(l) \/ ReadAttributes(l)
    PROVE  Kept
<1> DEFINE q == logins[l]
<1>1. q \in Login /\ HandlerSound(l)
  BY Facts
<1>2. [users EXCEPT ![q.user] = LoginColumns(users[q.user])] = users
  BY DEF LoginColumns, AccountsInv, TypeOK
<1>3. CASE VerifyUpdate(l)
  <2>1. q.op = "verify" /\ q.pc = "update" /\ UNCHANGED <<now, profiles>>
    BY <1>3 DEF VerifyUpdate, At
  <2>2. CASE q.guest = Null
    <3>1. challenges' = VerifiedRow(q) /\ Done(l) /\ users' = users
      BY <1>2, <1>3, <2>2 DEF VerifyUpdate
    <3>2. QED BY <2>1, <3>1, VerifiedWrite, ChallengeEnds
  <2>3. CASE q.guest # Null
    <3> DEFINE w == [q EXCEPT !.pc = "profile", !.held = TRUE]
    <3>1. Goto(l, w) /\ UNCHANGED <<now, tables>>
      BY <1>3, <2>1, <2>3 DEF VerifyUpdate, tables
    <3>2. /\ w \in Login /\ w.op = "verify" /\ w.pc = "profile" /\ w.challenge = q.challenge
          /\ w.phone = q.phone /\ w.attempts = q.attempts /\ w.user = q.user /\ w.guest = q.guest
      BY <1>1, <2>1 DEF Login
    <3>3. q.guest \in Guests
      BY <1>1, <2>3 DEF Login
    <3> HIDE DEF w
    <3>4. QED BY <1>1, <2>1, <3>1, <3>2, <3>3, HandlerReads DEF HandlerSound
  <2>4. QED BY <2>2, <2>3
<1>4. CASE VerifyCommit(l)
  <2>1. /\ q.op = "verify" /\ q.pc = "commit" /\ profiles' = WithGuest(q) /\ challenges' = VerifiedRow(q)
        /\ Done(l) /\ UNCHANGED <<now, users>>
    BY <1>2, <1>4 DEF VerifyCommit, At
  <2>2. QED BY <2>1, VerifiedWrite, GuestWrite
<1>5. CASE ReadAttributes(l)
  <2> DEFINE read == profiles[users[q.user].profile].migrated
             w == [q EXCEPT !.pc = "commit", !.attrs = read]
  <2>1. q.pc = "profile" /\ Goto(l, w) /\ UNCHANGED <<now, tables>>
    BY <1>5 DEF ReadAttributes
  <2>2. q.user \in Users /\ users[q.user] # NoRow
    BY <1>1, <2>1 DEF HandlerSound
  <2>3. read \subseteq Guests
    BY <2>2, Facts DEF ProfileRow
  <2>4. /\ w \in Login /\ w.op = q.op /\ w.pc = "commit" /\ w.challenge = q.challenge
        /\ w.phone = q.phone /\ w.attempts = q.attempts /\ w.user = q.user /\ w.guest = q.guest
    BY <1>1, <2>3 DEF Login
  <2> HIDE DEF w, read
  <2>5. QED BY <1>1, <2>1, <2>2, <2>4, HandlerReads DEF HandlerSound
<1>6. QED BY <1>3, <1>4, <1>5

LEMMA MeStep ==
    ASSUME AccountsInv, NEW l \in Logins,
           \/ \E u \in Users, g \in Guests : PatchStart(l, u, g)
           \/ \E u \in Users : DeleteStart(l, u)
           \/ PatchSettings(l) \/ PatchCommit(l) \/ DeleteCommit(l) \/ Rollback(l)
    PROVE  Kept
<1> DEFINE q == logins[l]
<1>1. q \in Login /\ HandlerSound(l)
  BY Facts
<1>2. CASE \E u \in Users, g \in Guests : PatchStart(l, u, g)
  <2>1. PICK u \in Users, g \in Guests : PatchStart(l, u, g)
    BY <1>2
  <2> DEFINE w == [Idle EXCEPT !.op = "patch", !.pc = "update", !.user = u, !.guest = g]
  <2>2. w \in Login /\ w.op = "patch" /\ w.pc = "update" /\ w.user = u /\ w.guest = g
    BY IdleType DEF Login
  <2>3. Goto(l, w) /\ UNCHANGED <<now, tables>> /\ users[u] # NoRow
    BY <2>1 DEF PatchStart, Active
  <2> HIDE DEF w
  <2>4. QED BY <2>2, <2>3, HandlerReads
<1>3. CASE \E u \in Users : DeleteStart(l, u)
  <2>1. PICK u \in Users : DeleteStart(l, u)
    BY <1>3
  <2> DEFINE w == [Idle EXCEPT !.op = "delete", !.pc = "commit", !.user = u]
  <2>2. w \in Login /\ w.op = "delete" /\ w.pc = "commit" /\ w.user = u
    BY IdleType DEF Login
  <2>3. Goto(l, w) /\ UNCHANGED <<now, tables>> /\ users[u] # NoRow
    BY <2>1 DEF DeleteStart, Active
  <2> HIDE DEF w
  <2>4. QED BY <2>2, <2>3, HandlerReads
<1>4. CASE PatchSettings(l)
  <2>1. q.op = "patch" /\ q.pc = "update" /\ UNCHANGED <<now, tables>>
    BY <1>4 DEF PatchSettings, At
  <2>2. PICK dirty \in BOOLEAN : Goto(l, [q EXCEPT !.pc = "profile", !.held = dirty])
    BY <1>4 DEF PatchSettings
  <2> DEFINE w == [q EXCEPT !.pc = "profile", !.held = dirty]
  <2>3. w \in Login /\ w.op = "patch" /\ w.pc = "profile" /\ w.user = q.user /\ w.guest = q.guest
    BY <1>1, <2>1 DEF Login
  <2>4. Goto(l, w)
    BY <2>2
  <2> HIDE DEF w
  <2>5. QED BY <1>1, <2>1, <2>3, <2>4, HandlerReads DEF HandlerSound
<1>5. CASE PatchCommit(l)
  <2>1. /\ q.op = "patch" /\ q.pc = "commit" /\ profiles' = WithGuest(q) /\ Done(l)
        /\ UNCHANGED <<now, challenges, users>>
    BY <1>5 DEF PatchCommit, At
  <2>2. challenges' \in [Challenges -> ChallengeRow \cup {NoRow}] /\ AttemptsBounded'
    BY <2>1 DEF AccountsInv, TypeOK, AttemptsBounded
  <2>3. QED BY <2>1, <2>2, GuestWrite
<1>6. CASE DeleteCommit(l)
  <2> DEFINE u == q.user
             row == [users[u] EXCEPT !.deleted = TRUE]
  <2>1. q.op = "delete" /\ q.pc = "commit" /\ Done(l) /\ UNCHANGED <<now, challenges, profiles>>
    BY <1>6 DEF DeleteCommit, At
  <2>2. u \in Users /\ users[u] \in UserRow
    BY <1>1, <2>1, Facts DEF HandlerSound
  <2>3. row \in UserRow /\ row # NoRow /\ row.deleted /\ row.profile = users[u].profile
    BY <2>2, NoRowAssumption DEF UserRow
  <2>4. users' = [users EXCEPT ![u] = row]
    BY <1>6 DEF DeleteCommit
  <2> HIDE DEF row
  <2>5. /\ users' \in [Users -> UserRow \cup {NoRow}] /\ users[u] # NoRow
        /\ \A x \in Users : users'[x] = IF x = u THEN row ELSE users[x]
    BY <2>2, <2>3, <2>4, NoRowAssumption DEF AccountsInv, TypeOK
  <2> HIDE DEF u
  <2>6. TypeOK' /\ RowsStay
    BY <2>1, <2>3, <2>5, IdleType DEF AccountsInv, TypeOK, RowsStay, Done, Goto
  <2>7. ProfilesThere' /\ AttemptsBounded'
    BY <2>1, <2>3, <2>5 DEF AccountsInv, ProfilesThere, AttemptsBounded
  <2>8. AccountsSound'
    <3>1. \A x \in Users : Active(x)' => x # u /\ Active(x) /\ users'[x] = users[x]
      BY <2>3, <2>5 DEF Active
    <3>2. \A x \in Users : /\ users'[x] # NoRow <=> users[x] # NoRow
                           /\ users[x] # NoRow => users'[x].profile = users[x].profile
      BY <2>3, <2>5
    <3>3. QED BY <2>1, <3>1, <3>2 DEF AccountsInv, AccountsSound
  <2>9. QED BY <2>1, <2>6, <2>7, <2>8, IdleType, HandlerMoves DEF Done
<1>7. CASE Rollback(l)
  BY <1>7, Ends DEF Rollback
<1>8. QED BY <1>2, <1>3, <1>4, <1>5, <1>6, <1>7

LEMMA AccountsStep ==
    ASSUME AccountsInv, [AccountsNext]_accountVars
    PROVE  Kept
<1>1. CASE Tick \/ UNCHANGED accountVars
  <2>1. UNCHANGED <<challenges, users, profiles, logins>> /\ now' \in Time
    <3>1. now \in Time /\ LastTime \in Nat
      BY Facts DEF AccountsInv, TypeOK
    <3>2. UNCHANGED <<challenges, users, profiles, logins>>
      BY <1>1 DEF Tick, accountVars, tables
    <3>3. now' = now \/ (now < LastTime /\ now' = now + 1)
      BY <1>1 DEF Tick, accountVars
    <3>4. QED BY <3>1, <3>2, <3>3 DEF Time
  <2>2. TypeOK' /\ RowsStay /\ Spaced
    BY <2>1 DEF AccountsInv, TypeOK, RowsStay, Spaced
  <2>3. ProfilesThere' /\ AttemptsBounded' /\ AccountsSound'
    BY <2>1 DEF AccountsInv, ProfilesThere, AttemptsBounded, AccountsSound, Active
  <2>4. \A l \in Logins : HandlerSound(l)'
    BY <2>1 DEF AccountsInv, HandlerSound
  <2>5. QED BY <2>2, <2>3, <2>4 DEF Kept, AccountsInv
<1>2. CASE \E l \in Logins : Starts(l) \/ Continues(l) \/ Rollback(l)
  <2>1. PICK l \in Logins : Starts(l) \/ Continues(l) \/ Rollback(l)
    BY <1>2
  <2>2. CASE (\E p \in Phones : SendRead(l, p)) \/ (\E c \in Challenges : SendStore(l, c))
    BY <2>2, SendStep
  <2>3. CASE \E c \in Challenges, right \in BOOLEAN, g \in Guests \cup {Null} : VerifyRead(l, c, right, g)
    BY <2>3, VerifyReadStep
  <2>4. CASE VerifyRefuse(l)
    BY <2>4, VerifyRefuseStep
  <2>5. CASE VerifyLookup(l) \/ VerifyConflict(l)
    BY <2>5, VerifyLookupStep
  <2>6. CASE \E u \in Users, p \in Profiles : VerifyInsert(l, u, p)
    BY <2>6, VerifyInsertStep
  <2>7. CASE VerifyUpdate(l) \/ VerifyCommit(l) \/ ReadAttributes(l)
    BY <2>7, VerifyUpdateStep
  <2>8. CASE \/ \E u \in Users, g \in Guests : PatchStart(l, u, g)
             \/ \E u \in Users : DeleteStart(l, u)
             \/ PatchSettings(l) \/ PatchCommit(l) \/ DeleteCommit(l) \/ Rollback(l)
    BY <2>8, MeStep
  <2>9. QED BY <2>1, <2>2, <2>3, <2>4, <2>5, <2>6, <2>7, <2>8 DEF Starts, Continues
<1>3. QED BY <1>1, <1>2 DEF AccountsNext

LEMMA AccountsStart == Init => AccountsInv
<1> SUFFICES ASSUME Init PROVE AccountsInv
  OBVIOUS
<1>1. 0 \in Time
  BY AccountsAssumption DEF Time
<1>2. TypeOK
  BY <1>1, IdleType DEF Init, TypeOK
<1>3. ProfilesThere /\ AttemptsBounded /\ AccountsSound
  BY DEF Init, ProfilesThere, AttemptsBounded, AccountsSound, Active
<1>4. \A l \in Logins : HandlerSound(l)
  BY IdleType DEF Init, HandlerSound
<1>5. QED BY <1>2, <1>3, <1>4 DEF AccountsInv

\* Challenges, users, profiles and handlers keep their types, rows are never removed, and
\* what a handler has read stays usable (services/phase4.py:86-172, 383-387).
THEOREM AccountsInvariant == AccountsSpec => []AccountsInv
<1>1. Init => AccountsInv
  BY AccountsStart
<1>2. AccountsInv /\ [AccountsNext]_accountVars => AccountsInv'
  BY AccountsStep DEF Kept
<1>3. QED BY <1>1, <1>2, PTL DEF AccountsSpec

\* No challenge counts more than the attempts allowed, and a verified one has counted its
\* own (services/phase4.py:125-135).
THEOREM AttemptsNeverExceeded == AccountsSpec => []AttemptsBounded
<1>1. AccountsInv => AttemptsBounded
  BY DEF AccountsInv
<1>2. QED BY <1>1, AccountsInvariant, PTL

\* One live account per number and one profile per account, however logins of a new
\* number overlap (services/phase4.py:137-151).
THEOREM OneAccountPerNumber == AccountsSpec => []AccountsSound
<1>1. AccountsInv => AccountsSound
  BY DEF AccountsInv
<1>2. QED BY <1>1, AccountsInvariant, PTL

\* No code is texted within the resend interval of a stored challenge
\* (services/phase4.py:89-96).
THEOREM TextsKeepTheInterval == AccountsSpec => TextsSpaced
<1>1. AccountsInv /\ [AccountsNext]_accountVars =>
        [\A l \in Logins : logins[l].pc = "idle" /\ logins'[l].pc = "store" =>
            \A c \in SentTo(logins'[l].phone) : challenges[c].created + RetryAfter <= now]_accountVars
  BY AccountsStep DEF Kept, Spaced
<1>2. QED BY <1>1, AccountsInvariant, PTL DEF AccountsSpec, TextsSpaced

\* A deleted account stays deleted, also when a login that found it alive commits after
\* the deletion (services/phase4.py:152-158, 383-387).
THEOREM DeletedForGood == AccountsSpec => DeletionFinal
<1>1. AccountsInv /\ [AccountsNext]_accountVars =>
        [\A u \in Users : users[u] # NoRow =>
            /\ users'[u] # NoRow /\ users'[u].profile = users[u].profile
            /\ users[u].deleted => users'[u].deleted]_accountVars
  BY AccountsStep DEF Kept, RowsStay
<1>2. QED BY <1>1, AccountsInvariant, PTL DEF AccountsSpec, DeletionFinal
-----------------------------------------------------------------------------
(* Locks of Accounts: who waits for whom, and how far a handler has to go. *)

NeedsChallenge(l) == logins[l].op = "verify" /\ logins[l].pc \in {"expire", "fail", "wrong", "lookup"}
NeedsUser(l) == At(l, "verify", "update") \/ At(l, "patch", "update") \/ At(l, "delete", "commit")

\* The next step of x writes a row that y has locked.
WaitsFor(x, y) ==
    /\ x # y
    /\ \/ NeedsChallenge(x) /\ LocksChallenge(y, logins[x].challenge)
       \/ NeedsUser(x) /\ LocksUser(y, logins[x].user)

\* No handlers wait for each other in a circle: among any of them one waits for none of them.
NoCircularWait ==
    \A S \in SUBSET Logins : S # {} => \E x \in S : \A y \in S : ~WaitsFor(x, y)

\* A row has one lock, and who has locked a user needs no lock any more.
LocksSound ==
    /\ \A l \in Logins : logins[l].held => logins[l].op # "delete" /\ logins[l].pc \in {"profile", "commit"}
    /\ \A l \in Logins : logins[l].op = "delete" => logins[l].pc = "commit" /\ ~logins[l].held
    /\ \A x, y \in Logins, c \in Challenges : LocksChallenge(x, c) /\ LocksChallenge(y, c) => x = y
    /\ \A x, y \in Logins, u \in Users : LocksUser(x, u) /\ LocksUser(y, u) => x = y

\* Steps a handler takes at most until its request is answered.
StepsLeft(pc) ==
    CASE pc = "idle" -> 0
      [] pc \in {"store", "expire", "fail", "wrong", "insert", "commit"} -> 1
      [] pc = "profile" -> 2
      [] pc = "update" -> 3
      [] pc = "lookup" -> 4

\* A request once begun comes nearer to its answer with each step of its handler.
Advance == \A l \in Logins : logins[l].pc # "idle" /\ logins'[l] # logins[l] =>
               StepsLeft(logins'[l].pc) < StepsLeft(logins[l].pc)
HandlersAdvance == [][Advance]_accountVars

LEMMA StepsLeftValues ==
    /\ StepsLeft("idle") = 0
    /\ \A pc \in {"store", "expire", "fail", "wrong", "insert", "commit"} : StepsLeft(pc) = 1
    /\ StepsLeft("profile") = 2 /\ StepsLeft("update") = 3 /\ StepsLeft("lookup") = 4
BY DEF StepsLeft

\* One handler goes on as w, and locks only what nobody else has locked.
LEMMA LockMoves ==
    ASSUME AccountsInv, LocksSound, NEW l \in Logins, NEW w \in Login, Goto(l, w),
           w.held => w.op # "delete" /\ w.pc \in {"profile", "commit"},
           w.op = "delete" => w.pc = "commit" /\ ~w.held,
           w.op = "verify" /\ w.pc \in {"insert", "update", "profile", "commit"} =>
                LocksChallenge(l, w.challenge) \/ FreeChallenge(l, w.challenge),
           w.held => LocksUser(l, w.user) \/ FreeUser(l, w.user),
           logins[l].pc # "idle" => StepsLeft(w.pc) < StepsLeft(logins[l].pc)
    PROVE  LocksSound' /\ Advance
<1>1. \A x \in Logins : logins'[x] = IF x = l THEN w ELSE logins[x]
  BY DEF Goto, AccountsInv, TypeOK
<1>2. ASSUME NEW x \in Logins, NEW y \in Logins, NEW c \in Challenges,
             LocksChallenge(x, c)', LocksChallenge(y, c)', x # y
      PROVE  FALSE
  <2>1. ASSUME NEW z \in Logins, z # l, LocksChallenge(z, c)', LocksChallenge(l, c)' PROVE FALSE
    <3>1. LocksChallenge(z, c) /\ c = w.challenge
      BY <1>1, <2>1 DEF LocksChallenge
    <3>2. LocksChallenge(l, c) \/ FreeChallenge(l, c)
      BY <1>1, <2>1, <3>1 DEF LocksChallenge
    <3>3. QED BY <2>1, <3>1, <3>2 DEF LocksSound, FreeChallenge
  <2>2. CASE x # l /\ y # l
    BY <1>1, <1>2, <2>2 DEF LocksSound, LocksChallenge
  <2>3. QED BY <1>2, <2>1, <2>2
<1>3. ASSUME NEW x \in Logins, NEW y \in Logins, NEW u \in Users,
             LocksUser(x, u)', LocksUser(y, u)', x # y
      PROVE  FALSE
  <2>1. ASSUME NEW z \in Logins, z # l, LocksUser(z, u)', LocksUser(l, u)' PROVE FALSE
    <3>1. LocksUser(z, u) /\ u = w.user /\ w.held
      BY <1>1, <2>1 DEF LocksUser
    <3>2. LocksUser(l, u) \/ FreeUser(l, u)
      BY <3>1
    <3>3. QED BY <2>1, <3>1, <3>2 DEF LocksSound, FreeUser
  <2>2. CASE x # l /\ y # l
    BY <1>1, <1>3, <2>2 DEF LocksSound, LocksUser
  <2>3. QED BY <1>3, <2>1, <2>2
<1>4. LocksSound'
  BY <1>1, <1>2, <1>3 DEF LocksSound
<1>5. QED BY <1>1, <1>4 DEF Advance

\* A handler that ends has no lock.
LEMMA LockEnds ==
    ASSUME AccountsInv, LocksSound, NEW l \in Logins, Done(l), logins[l].pc # "idle"
    PROVE  LocksSound' /\ Advance
<1>1. Idle.held = FALSE /\ Idle.op = "none" /\ Idle.pc = "idle" /\ Goto(l, Idle)
  BY DEF Idle, Done
<1>2. logins[l].pc \in {"store", "expire", "fail", "wrong", "lookup", "insert", "update", "profile", "commit"}
  BY DEF AccountsInv, TypeOK, Login
<1>3. StepsLeft(Idle.pc) < StepsLeft(logins[l].pc)
  BY <1>1, <1>2, StepsLeftValues
<1>4. QED BY <1>1, <1>3, IdleType, LockMoves

\* A request begins without a lock.
LEMMA LockStarts ==
    ASSUME AccountsInv, LocksSound, NEW l \in Logins, Starts(l)
    PROVE  LocksSound' /\ Advance
<1> DEFINE q == logins[l]
<1>1. PICK w \in Login : /\ Goto(l, w) /\ ~w.held /\ q.pc = "idle"
                         /\ w.op = "delete" => w.pc = "commit"
                         /\ w.op = "verify" => w.pc \in {"expire", "fail", "wrong", "lookup"}
  <2>1. CASE \E p \in Phones : SendRead(l, p)
    <3>1. PICK p \in Phones : SendRead(l, p)
      BY <2>1
    <3> DEFINE w == [Idle EXCEPT !.op = "send", !.pc = "store", !.phone = p, !.at = now]
    <3>2. w \in Login /\ ~w.held /\ w.op = "send"
      BY IdleType DEF Login, Idle, AccountsInv, TypeOK
    <3>3. Goto(l, w) /\ q.pc = "idle"
      BY <3>1 DEF SendRead
    <3> HIDE DEF w
    <3>4. QED BY <3>2, <3>3
  <2>2. CASE \E c \in Challenges, right \in BOOLEAN, g \in Guests \cup {Null} : VerifyRead(l, c, right, g)
    <3>1. PICK c \in Challenges, right \in BOOLEAN, g \in Guests \cup {Null} : VerifyRead(l, c, right, g)
      BY <2>2
    <3> DEFINE v == Verdict(challenges[c], right)
               w == [Idle EXCEPT !.op = "verify", !.pc = v, !.challenge = c,
                                 !.status = challenges[c].status, !.attempts = challenges[c].attempts,
                                 !.phone = challenges[c].phone, !.guest = g]
    <3>2. Goto(l, w) /\ q.pc = "idle" /\ challenges[c] \in ChallengeRow
      BY <3>1, Facts DEF VerifyRead
    <3>3. v \in {"expire", "fail", "wrong", "lookup"}
      BY DEF Verdict
    <3> HIDE DEF v
    <3>4. w \in Login /\ ~w.held /\ w.op = "verify" /\ w.pc = v
      BY <3>2, <3>3, IdleType DEF Login, Idle, ChallengeRow
    <3> HIDE DEF w
    <3>5. QED BY <3>2, <3>3, <3>4
  <2>3. CASE \E u \in Users, g \in Guests : PatchStart(l, u, g)
    <3>1. PICK u \in Users, g \in Guests : PatchStart(l, u, g)
      BY <2>3
    <3> DEFINE w == [Idle EXCEPT !.op = "patch", !.pc = "update", !.user = u, !.guest = g]
    <3>2. w \in Login /\ ~w.held /\ w.op = "patch"
      BY IdleType DEF Login, Idle
    <3>3. Goto(l, w) /\ q.pc = "idle"
      BY <3>1 DEF PatchStart
    <3> HIDE DEF w
    <3>4. QED BY <3>2, <3>3
  <2>4. CASE \E u \in Users : DeleteStart(l, u)
    <3>1. PICK u \in Users : DeleteStart(l, u)
      BY <2>4
    <3> DEFINE w == [Idle EXCEPT !.op = "delete", !.pc = "commit", !.user = u]
    <3>2. w \in Login /\ ~w.held /\ w.op = "delete" /\ w.pc = "commit"
      BY IdleType DEF Login, Idle
    <3>3. Goto(l, w) /\ q.pc = "idle"
      BY <3>1 DEF DeleteStart
    <3> HIDE DEF w
    <3>4. QED BY <3>2, <3>3
  <2>5. QED BY <2>1, <2>2, <2>3, <2>4 DEF Starts
<1>2. QED BY <1>1, LockMoves

\* A handler takes a lock only when the row is free, and keeps it until it ends.
LEMMA LockContinues ==
    ASSUME AccountsInv, LocksSound, NEW l \in Logins, Continues(l) \/ Rollback(l)
    PROVE  LocksSound' /\ Advance
<1> DEFINE q == logins[l]
<1>1. q \in Login /\ HandlerSound(l)
  BY Facts
<1>2. CASE Done(l) /\ q.pc # "idle"
  BY <1>2, LockEnds
<1>3. CASE VerifyLookup(l)
  <2>1. q.op = "verify" /\ q.pc = "lookup" /\ FreeChallenge(l, q.challenge) /\ ~q.held
    BY <1>1, <1>3 DEF VerifyLookup, At, LocksSound
  <2>2. PICK w \in Login : /\ Goto(l, w) /\ w.op = "verify" /\ w.pc \in {"insert", "update"}
                           /\ w.challenge = q.challenge /\ ~w.held
    <3>1. CASE Goto(l, [q EXCEPT !.pc = "insert"])
      <4> DEFINE w == [q EXCEPT !.pc = "insert"]
      <4>1. w \in Login /\ w.op = "verify" /\ w.pc = "insert" /\ w.challenge = q.challenge /\ ~w.held
        BY <1>1, <2>1 DEF Login
      <4>2. Goto(l, w)
        BY <3>1
      <4> HIDE DEF w
      <4>3. QED BY <4>1, <4>2
    <3>2. CASE \E u \in HoldersOf(q.phone) : Goto(l, [q EXCEPT !.pc = "update", !.user = u])
      <4>1. PICK u \in Users : Goto(l, [q EXCEPT !.pc = "update", !.user = u])
        BY <3>2 DEF HoldersOf
      <4> DEFINE w == [q EXCEPT !.pc = "update", !.user = u]
      <4>2. w \in Login /\ w.op = "verify" /\ w.pc = "update" /\ w.challenge = q.challenge /\ ~w.held
        BY <1>1, <2>1 DEF Login
      <4>3. Goto(l, w)
        BY <4>1
      <4> HIDE DEF w
      <4>4. QED BY <4>2, <4>3
    <3>3. QED BY <1>3, <3>1, <3>2 DEF VerifyLookup
  <2>3. StepsLeft(w.pc) < StepsLeft(q.pc)
    BY <2>1, <2>2, StepsLeftValues
  <2>4. QED BY <2>1, <2>2, <2>3, LockMoves
<1>4. CASE VerifyUpdate(l) /\ ~Done(l)
  <2> DEFINE w == [q EXCEPT !.pc = "profile", !.held = TRUE]
  <2>1. q.op = "verify" /\ q.pc = "update" /\ FreeUser(l, q.user) /\ Goto(l, w)
    BY <1>4 DEF VerifyUpdate, At
  <2>2. /\ w \in Login /\ w.op = "verify" /\ w.pc = "profile" /\ w.challenge = q.challenge
        /\ w.user = q.user
    BY <1>1, <2>1 DEF Login
  <2> HIDE DEF w
  <2>3. StepsLeft(w.pc) < StepsLeft(q.pc)
    BY <2>1, <2>2, StepsLeftValues
  <2>4. LocksChallenge(l, w.challenge)
    BY <2>1, <2>2 DEF LocksChallenge
  <2>5. QED BY <2>1, <2>2, <2>3, <2>4, LockMoves
<1>5. CASE ReadAttributes(l)
  <2> DEFINE read == profiles[users[q.user].profile].migrated
             w == [q EXCEPT !.pc = "commit", !.attrs = read]
  <2>1. q.pc = "profile" /\ Goto(l, w)
    BY <1>5 DEF ReadAttributes
  <2>2. read \subseteq Guests
    <3>1. q.user \in Users /\ users[q.user] # NoRow
      BY <1>1, <2>1 DEF HandlerSound
    <3>2. QED BY <3>1, Facts DEF ProfileRow
  <2>3. /\ w \in Login /\ w.op = q.op /\ w.pc = "commit" /\ w.challenge = q.challenge
        /\ w.user = q.user /\ w.held = q.held
    BY <1>1, <2>2 DEF Login
  <2> HIDE DEF w, read
  <2>4. StepsLeft(w.pc) < StepsLeft(q.pc)
    BY <2>1, <2>3, StepsLeftValues
  <2>5. q.op # "delete" /\ (q.op = "verify" => LocksChallenge(l, q.challenge)) /\ (q.held => LocksUser(l, q.user))
    BY <2>1 DEF LocksChallenge, LocksUser, LocksSound
  <2>6. QED BY <2>1, <2>3, <2>4, <2>5, LockMoves
<1>6. CASE PatchSettings(l)
  <2>1. q.op = "patch" /\ q.pc = "update"
    BY <1>6 DEF PatchSettings, At
  <2>2. PICK dirty \in BOOLEAN : /\ dirty => FreeUser(l, q.user)
                                 /\ Goto(l, [q EXCEPT !.pc = "profile", !.held = dirty])
    BY <1>6 DEF PatchSettings
  <2> DEFINE w == [q EXCEPT !.pc = "profile", !.held = dirty]
  <2>3. w \in Login /\ w.op = "patch" /\ w.pc = "profile" /\ w.user = q.user /\ w.held = dirty
    BY <1>1, <2>1 DEF Login
  <2>4. Goto(l, w)
    BY <2>2
  <2> HIDE DEF w
  <2>5. StepsLeft(w.pc) < StepsLeft(q.pc)
    BY <2>1, <2>3, StepsLeftValues
  <2>6. QED BY <2>2, <2>3, <2>4, <2>5, LockMoves
<1>7. \/ Done(l) /\ q.pc # "idle"
      \/ VerifyLookup(l) \/ ReadAttributes(l) \/ PatchSettings(l)
      \/ VerifyUpdate(l) /\ ~Done(l)
  <2>1. CASE Rollback(l)
    BY <2>1 DEF Rollback
  <2>2. CASE (\E c \in Challenges : SendStore(l, c)) \/ VerifyRefuse(l)
    BY <2>2 DEF SendStore, VerifyRefuse, At
  <2>3. CASE (\E u \in Users, p \in Profiles : VerifyInsert(l, u, p)) \/ VerifyConflict(l)
    BY <2>3 DEF VerifyInsert, VerifyConflict, At
  <2>4. CASE VerifyCommit(l) \/ PatchCommit(l) \/ DeleteCommit(l)
    BY <2>4 DEF VerifyCommit, PatchCommit, DeleteCommit, At
  <2>5. CASE VerifyUpdate(l)
    BY <2>5 DEF VerifyUpdate, At
  <2>6. QED BY <2>1, <2>2, <2>3, <2>4, <2>5 DEF Continues
<1>8. QED BY <1>2, <1>3, <1>4, <1>5, <1>6, <1>7

LEMMA LockStep ==
    ASSUME AccountsInv, LocksSound, [AccountsNext]_accountVars
    PROVE  LocksSound' /\ Advance
<1>1. CASE UNCHANGED logins
  BY <1>1 DEF LocksSound, LocksChallenge, LocksUser, Advance
<1>2. CASE \E l \in Logins : Starts(l) \/ Continues(l) \/ Rollback(l)
  BY <1>2, LockStarts, LockContinues
<1>3. QED BY <1>1, <1>2 DEF AccountsNext, Tick, accountVars

\* A challenge and a user have at most one lock each, whoever verifies, patches or
\* deletes at the same time (services/phase4.py:115-172, 383-387).
THEOREM RowsLockedOnce == AccountsSpec => []LocksSound
<1>1. Init => LocksSound
  <2>1. Idle.held = FALSE /\ Idle.op = "none"
    BY DEF Idle
  <2>2. QED BY <2>1 DEF Init, LocksSound, LocksChallenge, LocksUser
<1>2. AccountsInv /\ LocksSound /\ [AccountsNext]_accountVars => LocksSound'
  BY LockStep
<1>3. QED BY <1>1, <1>2, AccountsInvariant, PTL DEF AccountsSpec

\* Logins of one code, logins of one account and its deletion never wait for each other in
\* a circle, however many they are: who waits for a challenge has no lock, and who has a
\* user's waits for nobody (services/phase4.py:115-172, 383-387; api/routes/phase4.py:67-81).
THEOREM NoDeadlockOfLogins == AccountsSpec => []NoCircularWait
<1>1. LocksSound => NoCircularWait
  <2> SUFFICES ASSUME LocksSound, NEW S \in SUBSET Logins, S # {},
                      \A x \in S : \E y \in S : WaitsFor(x, y)
               PROVE  FALSE
    BY DEF NoCircularWait
  <2>1. ASSUME NEW x \in S, NEW u, LocksUser(x, u) PROVE FALSE
    <3>1. PICK y \in S : WaitsFor(x, y)
      OBVIOUS
    <3>2. logins[x].op # "delete" /\ logins[x].pc \in {"profile", "commit"}
      BY <2>1 DEF LocksSound, LocksUser
    <3>3. QED BY <3>1, <3>2 DEF WaitsFor, NeedsChallenge, NeedsUser, At
  <2>2. ASSUME NEW x \in S, NEW c, LocksChallenge(x, c) PROVE FALSE
    <3>1. PICK y \in S : WaitsFor(x, y)
      OBVIOUS
    <3>2. ~NeedsChallenge(x)
      BY <2>2 DEF LocksChallenge, NeedsChallenge
    <3>3. LocksUser(y, logins[x].user)
      BY <3>1, <3>2 DEF WaitsFor
    <3>4. QED BY <2>1, <3>3
  <2>3. QED BY <2>1, <2>2 DEF WaitsFor
<1>2. QED BY <1>1, RowsLockedOnce, PTL

\* No handler of a login goes in circles: with each step of its own it has fewer left, four
\* at most (services/phase4.py:86-172).
THEOREM LoginsAdvance == AccountsSpec => HandlersAdvance
<1>1. AccountsInv /\ LocksSound /\ [AccountsNext]_accountVars => [Advance]_accountVars
  BY LockStep
<1>2. QED BY <1>1, AccountsInvariant, RowsLockedOnce, PTL DEF AccountsSpec, HandlersAdvance

-----------------------------------------------------------------------------
(* What a citizen with an account does: module UserServices.                 *)

\* What a handler may rely on: an application stays open, and a key that a batch has put
\* into the table, not yet committed, is stored by nobody else.
CallSound(r) ==
    LET q == calls[r] IN
    /\ q.op # "none" => q.user \in Users
    /\ q.op \in {"save", "unsave"} => q.scheme \in Schemes
    /\ q.op = "checklist" => q.key \in Keys
    /\ q.op = "status" => q.new \in Progress /\ (q.old # NoRow => application[q.user] # NoRow)
    /\ \A k \in q.flushed : events[k] = NoRow /\ FreeKey(r, k)

\* A change took effect at most once, and exactly if the request that made it stored its key.
ChangedOnce ==
    \A k \in Keys : /\ effects[k] <= 1
                    /\ effects[k] = 1 <=> events[k] = "patch"

ServicesInv ==
    /\ ServicesTypeOK
    /\ ChangedOnce
    /\ OpenedOnce
    /\ HistoryTellsStatus
    /\ \A r \in Calls : CallSound(r)

\* The step of RemindersOnlyOnSaving.
Reminded ==
    \A u \in Users, s \in Schemes :
        jobs'[u][s] # jobs[u][s] <=> saved[u][s] = 0 /\ saved'[u][s] # 0

ServicesKept == ServicesInv' /\ Reminded

\* The types of the tables.
TableTypes ==
    /\ saved \in [Users -> [Schemes -> Nat]]
    /\ jobs \in [Users -> [JobKinds -> Nat]]
    /\ items \in [Users -> [Docs -> ItemStatuses \cup {NoRow}]]
    /\ events \in [Keys -> Event \cup {NoRow}]
    /\ effects \in [Keys -> Nat]
    /\ application \in [Users -> Progress \cup {NoRow}]
    /\ history \in [Users -> Seq(Change)]

LEMMA RestingType == Resting \in Call /\ Resting.op = "none" /\ Resting.flushed = {} /\ Resting.pc = "idle"
BY DEF Resting, Call

\* One handler goes on as q; the tables keep their parts of the invariant.
LEMMA CallMoves ==
    ASSUME ServicesInv, NEW r \in Calls, NEW q \in Call, GoOn(r, q), UNCHANGED accountVars,
           TableTypes', ChangedOnce', OpenedOnce', HistoryTellsStatus', Reminded,
           \A u \in Users : application[u] # NoRow => application'[u] # NoRow,
           \A x \in Calls \ {r} : \A k \in calls[x].flushed : events'[k] = events[k],
           q.op # "none" => q.user \in Users,
           q.op \in {"save", "unsave"} => q.scheme \in Schemes,
           q.op = "checklist" => q.key \in Keys,
           q.op = "status" => q.new \in Progress /\ (q.old # NoRow => application'[q.user] # NoRow),
           \A k \in q.flushed : events'[k] = NoRow /\ FreeKey(r, k)
    PROVE  ServicesKept
<1>1. \A x \in Calls : calls'[x] = IF x = r THEN q ELSE calls[x]
  BY DEF GoOn, ServicesInv, ServicesTypeOK
<1>2. ServicesTypeOK'
  <2>1. TypeOK'
    BY DEF ServicesInv, ServicesTypeOK, TypeOK, accountVars, tables
  <2>2. calls' \in [Calls -> Call]
    BY DEF GoOn, ServicesInv, ServicesTypeOK
  <2>3. QED BY <2>1, <2>2 DEF TableTypes, ServicesTypeOK
<1>3. ASSUME NEW x \in Calls PROVE CallSound(x)'
  <2>1. CASE x = r
    <3>1. calls'[r] = q
      BY <1>1
    <3>2. \A k \in q.flushed : FreeKey(r, k)'
      BY <1>1 DEF FreeKey
    <3>3. QED BY <2>1, <3>1, <3>2 DEF CallSound
  <2>2. CASE x # r
    <3>1. calls'[x] = calls[x] /\ CallSound(x)
      BY <1>1, <2>2 DEF ServicesInv
    <3>2. ASSUME NEW k \in calls[x].flushed PROVE events'[k] = NoRow /\ FreeKey(x, k)'
      <4>1. events'[k] = NoRow /\ FreeKey(x, k)
        BY <2>2, <3>1 DEF CallSound
      <4>2. k \notin q.flushed
        BY <2>2 DEF FreeKey
      <4>3. QED BY <1>1, <4>1, <4>2 DEF FreeKey
    <3>3. calls[x].op = "status" /\ calls[x].old # NoRow => application'[calls[x].user] # NoRow
      BY <3>1 DEF CallSound
    <3>4. QED BY <3>1, <3>2, <3>3 DEF CallSound
  <2>3. QED BY <2>1, <2>2
<1>4. QED BY <1>2, <1>3 DEF ServicesKept, ServicesInv

\* The same when no table changes.
LEMMA CallReads ==
    ASSUME ServicesInv, NEW r \in Calls, NEW q \in Call, GoOn(r, q), UNCHANGED <<accountVars, serviceTables>>,
           q.op # "none" => q.user \in Users,
           q.op \in {"save", "unsave"} => q.scheme \in Schemes,
           q.op = "checklist" => q.key \in Keys,
           q.op = "status" => q.new \in Progress /\ (q.old # NoRow => application[q.user] # NoRow),
           \A k \in q.flushed : events[k] = NoRow /\ FreeKey(r, k)
    PROVE  ServicesKept
<1>1. UNCHANGED <<saved, jobs, items, events, effects, application, history>> /\ UNCHANGED accountVars
  BY DEF serviceTables
<1>2. TableTypes' /\ ChangedOnce' /\ OpenedOnce' /\ HistoryTellsStatus'
  BY <1>1 DEF ServicesInv, ServicesTypeOK, TableTypes, ChangedOnce, OpenedOnce, HistoryTellsStatus
<1>3. Reminded
  BY <1>1 DEF Reminded
<1>4. QED BY <1>1, <1>2, <1>3, CallMoves

\* A handler that ends without a commit.
LEMMA CallEnds ==
    ASSUME ServicesInv, NEW r \in Calls, Answered(r), UNCHANGED <<accountVars, serviceTables>>
    PROVE  ServicesKept
BY RestingType, CallReads DEF Answered

\* A handler that ends with its commit.
LEMMA CallCommits ==
    ASSUME ServicesInv, NEW r \in Calls, Answered(r), UNCHANGED accountVars,
           TableTypes', ChangedOnce', OpenedOnce', HistoryTellsStatus', Reminded,
           \A u \in Users : application[u] # NoRow => application'[u] # NoRow,
           \A x \in Calls \ {r} : \A k \in calls[x].flushed : events'[k] = events[k]
    PROVE  ServicesKept
BY RestingType, CallMoves DEF Answered
\* Reading a request: the handlers begin.
LEMMA CallingStep ==
    ASSUME ServicesInv, NEW r \in Calls, Calling(r), UNCHANGED accountVars
    PROVE  ServicesKept
<1>1. CASE \E u \in Users, s \in Schemes : SaveRead(r, u, s)
  <2>1. PICK u \in Users, s \in Schemes : SaveRead(r, u, s)
    BY <1>1
  <2> DEFINE q == [Resting EXCEPT !.op = "save", !.pc = "commit", !.user = u, !.scheme = s]
  <2>2. q \in Call /\ q.op = "save" /\ q.user = u /\ q.scheme = s /\ q.flushed = {}
    BY RestingType DEF Call, Resting
  <2>3. GoOn(r, q) /\ UNCHANGED serviceTables
    BY <2>1 DEF SaveRead
  <2> HIDE DEF q
  <2>4. QED BY <2>2, <2>3, CallReads
<1>2. CASE \E u \in Users, s \in Schemes : UnsaveRead(r, u, s)
  <2>1. PICK u \in Users, s \in Schemes : UnsaveRead(r, u, s)
    BY <1>2
  <2> DEFINE q == [Resting EXCEPT !.op = "unsave", !.pc = "commit", !.user = u, !.scheme = s,
                                  !.row = saved[u][s]]
  <2>2. saved[u][s] \in Nat
    BY DEF ServicesInv, ServicesTypeOK
  <2>3. q \in Call /\ q.op = "unsave" /\ q.user = u /\ q.scheme = s /\ q.flushed = {}
    BY <2>2, RestingType DEF Call, Resting
  <2>4. GoOn(r, q) /\ UNCHANGED serviceTables
    BY <2>1 DEF UnsaveRead
  <2> HIDE DEF q
  <2>5. QED BY <2>3, <2>4, CallReads
<1>3. CASE \E u \in Users, k \in Keys : ChecklistRead(r, u, k)
  <2>1. PICK u \in Users, k \in Keys : ChecklistRead(r, u, k)
    BY <1>3
  <2> DEFINE q == [Resting EXCEPT !.op = "checklist", !.pc = "item", !.user = u, !.key = k]
  <2>2. q \in Call /\ q.op = "checklist" /\ q.user = u /\ q.key = k /\ q.flushed = {}
    BY RestingType DEF Call, Resting
  <2>3. GoOn(r, q) /\ UNCHANGED serviceTables
    BY <2>1 DEF ChecklistRead
  <2> HIDE DEF q
  <2>4. QED BY <2>2, <2>3, CallReads
<1>4. CASE \E u \in Users, batch \in Batches : SyncStart(r, u, batch)
  <2>1. PICK u \in Users, batch \in Batches : SyncStart(r, u, batch)
    BY <1>4
  <2> DEFINE q == [Resting EXCEPT !.op = "sync", !.pc = "batch", !.user = u, !.todo = batch]
  <2>2. batch \in Seq(Keys)
    <3>1. CASE \E j \in Keys : batch = <<j>>
      BY <3>1
    <3>2. CASE \E j, k \in Keys : batch = <<j, k>>
      <4>1. PICK j \in Keys, k \in Keys : batch = <<j, k>>
        BY <3>2
      <4>2. <<j, k>> \in Seq(Keys)
        OBVIOUS
      <4>3. QED BY <4>1, <4>2
    <3>3. QED BY <3>1, <3>2 DEF Batches
  <2>3. q \in Call /\ q.op = "sync" /\ q.user = u /\ q.flushed = {}
    BY <2>2, RestingType DEF Call, Resting
  <2>4. GoOn(r, q) /\ UNCHANGED serviceTables
    BY <2>1 DEF SyncStart
  <2> HIDE DEF q
  <2>5. QED BY <2>3, <2>4, CallReads
<1>5. CASE \E u \in Users, new \in Progress, source \in {"user", "operator"} : StatusRead(r, u, new, source)
  <2>1. PICK u \in Users, new \in Progress, source \in {"user", "operator"} : StatusRead(r, u, new, source)
    BY <1>5
  <2> DEFINE q == [Resting EXCEPT !.op = "status", !.pc = "commit", !.user = u, !.old = application[u],
                                  !.new = new, !.source = source]
  <2>2. application[u] \in Progress \cup {NoRow}
    BY DEF ServicesInv, ServicesTypeOK
  <2>3. q \in Call /\ q.op = "status" /\ q.user = u /\ q.new = new /\ q.old = application[u] /\ q.flushed = {}
    BY <2>2, RestingType DEF Call, Resting
  <2>4. GoOn(r, q) /\ UNCHANGED serviceTables
    BY <2>1 DEF StatusRead
  <2> HIDE DEF q
  <2>5. QED BY <2>3, <2>4, CallReads
<1>6. QED BY <1>1, <1>2, <1>3, <1>4, <1>5 DEF Calling

\* Saved schemes: only the columns saved and jobs change.
LEMMA SavedStep ==
    ASSUME ServicesInv, NEW r \in Calls, SaveCommit(r) \/ SaveConflict(r) \/ UnsaveCommit(r),
           UNCHANGED accountVars
    PROVE  ServicesKept
<1> DEFINE u == calls[r].user
           s == calls[r].scheme
<1>1. CASE SaveConflict(r)
  BY <1>1, CallEnds DEF SaveConflict
<1>2. ASSUME UNCHANGED <<items, events, effects, application, history>>, Answered(r),
             calls[r].op \in {"save", "unsave"},
             saved' \in [Users -> [Schemes -> Nat]], jobs' \in [Users -> [JobKinds -> Nat]], Reminded
      PROVE  ServicesKept
  <2>1. TableTypes'
    BY <1>2 DEF ServicesInv, ServicesTypeOK, TableTypes
  <2>2. ChangedOnce' /\ OpenedOnce' /\ HistoryTellsStatus'
    BY <1>2 DEF ServicesInv, ChangedOnce, OpenedOnce, HistoryTellsStatus
  <2>3. QED BY <1>2, <2>1, <2>2, CallCommits
<1>3. CASE SaveCommit(r)
  <2>1. u \in Users /\ s \in Schemes /\ s \in JobKinds
    BY <1>3 DEF SaveCommit, Doing, ServicesInv, CallSound, JobKinds
  <2>2. saved \in [Users -> [Schemes -> Nat]] /\ jobs \in [Users -> [JobKinds -> Nat]]
    BY DEF ServicesInv, ServicesTypeOK
  <2>3. jobs[u][s] \in Nat /\ jobs' = [jobs EXCEPT ![u] = [jobs[u] EXCEPT ![s] = jobs[u][s] + 1]]
    BY <1>3, <2>1, <2>2 DEF SaveCommit
  <2>4. jobs'[u][s] = jobs[u][s] + 1 /\ jobs' \in [Users -> [JobKinds -> Nat]]
    BY <2>1, <2>2, <2>3
  <2>5. saved' = [saved EXCEPT ![u] = [saved[u] EXCEPT ![s] = jobs[u][s] + 1]] /\ saved[u][s] = 0
    BY <1>3, <2>4 DEF SaveCommit, Unsaved
  <2>6. saved' \in [Users -> [Schemes -> Nat]] /\ saved'[u][s] # 0
    BY <2>1, <2>2, <2>3, <2>5
  <2>7. ASSUME NEW v \in Users, NEW t \in Schemes
        PROVE  jobs'[v][t] # jobs[v][t] <=> saved[v][t] = 0 /\ saved'[v][t] # 0
    <3>1. t \in JobKinds /\ JobKinds = Schemes \cup {StatusJob}
      BY DEF JobKinds
    <3>2. CASE v = u /\ t = s
      BY <2>3, <2>4, <2>5, <2>6, <3>2
    <3>3. CASE ~(v = u /\ t = s)
      <4>1. jobs'[v][t] = jobs[v][t] /\ saved'[v][t] = saved[v][t]
        BY <2>1, <2>2, <2>3, <2>5, <3>1, <3>3
      <4>2. QED BY <4>1
    <3>4. QED BY <3>2, <3>3
  <2>8. Reminded
    BY <2>7 DEF Reminded
  <2>9. QED BY <1>2, <1>3, <2>4, <2>6, <2>8 DEF SaveCommit, Doing
<1>4. CASE UnsaveCommit(r)
  <2>1. u \in Users /\ s \in Schemes /\ UNCHANGED jobs
    BY <1>4 DEF UnsaveCommit, Doing, ServicesInv, CallSound
  <2>2. saved \in [Users -> [Schemes -> Nat]] /\ jobs \in [Users -> [JobKinds -> Nat]]
    BY DEF ServicesInv, ServicesTypeOK
  <2>3. PICK n \in {0, saved[u][s]} : saved' = [saved EXCEPT ![u] = [saved[u] EXCEPT ![s] = n]]
    BY <1>4 DEF UnsaveCommit
  <2>4. saved' \in [Users -> [Schemes -> Nat]]
    BY <2>1, <2>2, <2>3
  <2>5. \A v \in Users, t \in Schemes : saved'[v][t] = saved[v][t] \/ saved'[v][t] = 0
    BY <2>1, <2>2, <2>3
  <2>6. Reminded
    BY <2>1, <2>5 DEF Reminded
  <2>7. QED BY <1>2, <1>4, <2>1, <2>2, <2>4, <2>6 DEF UnsaveCommit, Doing
<1>5. QED BY <1>1, <1>3, <1>4

\* The checklist: its change and its key in one commit.
LEMMA ChecklistStep ==
    ASSUME ServicesInv, NEW r \in Calls, ChecklistItem(r) \/ ChecklistCommit(r) \/ ChecklistConflict(r),
           UNCHANGED accountVars
    PROVE  ServicesKept
<1> DEFINE q == calls[r]
           k == q.key
<1>1. q \in Call /\ CallSound(r)
  BY DEF ServicesInv, ServicesTypeOK
<1>2. q.op = "checklist" /\ q.user \in Users /\ k \in Keys /\ ChangeOf[k].doc \in Docs
      /\ ChangeOf[k].status \in ItemStatuses
  BY <1>1, ServicesAssumption DEF ChecklistItem, ChecklistCommit, ChecklistConflict, Doing, CallSound
<1>3. CASE ChecklistConflict(r)
  BY <1>3, CallEnds DEF ChecklistConflict
<1>4. CASE ChecklistItem(r)
  <2> DEFINE w == [q EXCEPT !.pc = "commit", !.item = items[q.user][ChangeOf[k].doc]]
  <2>1. items[q.user][ChangeOf[k].doc] \in ItemStatuses \cup {NoRow}
    BY <1>2 DEF ServicesInv, ServicesTypeOK
  <2>2. w \in Call /\ w.op = q.op /\ w.user = q.user /\ w.key = q.key /\ w.flushed = q.flushed
    BY <1>1, <2>1 DEF Call
  <2>3. GoOn(r, w) /\ UNCHANGED serviceTables
    BY <1>4 DEF ChecklistItem
  <2> HIDE DEF w
  <2>4. \A j \in w.flushed : events[j] = NoRow /\ FreeKey(r, j)
    BY <1>1, <2>2 DEF CallSound
  <2>5. QED BY <1>2, <2>2, <2>3, <2>4, CallReads
<1>5. CASE ChecklistCommit(r)
  <2>1. /\ events[k] = NoRow /\ FreeKey(r, k)
        /\ events' = [events EXCEPT ![k] = "patch"] /\ effects' = [effects EXCEPT ![k] = @ + 1]
        /\ UNCHANGED <<saved, jobs, application, history>> /\ Answered(r)
    BY <1>5 DEF ChecklistCommit, ChecklistAccepted
  <2>2. items' \in [Users -> [Docs -> ItemStatuses \cup {NoRow}]]
    <3>1. items \in [Users -> [Docs -> ItemStatuses \cup {NoRow}]]
      BY DEF ServicesInv, ServicesTypeOK
    <3>2. PICK new \in ItemStatuses \cup {NoRow} :
              items' = [items EXCEPT ![q.user] = [items[q.user] EXCEPT ![ChangeOf[k].doc] = new]]
      BY <1>2, <1>5, <3>1 DEF ChecklistCommit
    <3>3. QED BY <1>2, <3>1, <3>2
  <2>3. events \in [Keys -> Event \cup {NoRow}] /\ effects \in [Keys -> Nat] /\ "patch" \in Event
    BY DEF ServicesInv, ServicesTypeOK, Event
  <2>4. TableTypes'
    BY <1>2, <2>1, <2>2, <2>3 DEF ServicesInv, ServicesTypeOK, TableTypes
  <2>5. ChangedOnce'
    <3>1. events[k] # "patch"
      BY <2>1, <2>3, ServiceRowsAssumption
    <3>2. effects[k] = 0
      <4>1. effects[k] \in Nat /\ effects[k] <= 1 /\ effects[k] # 1
        BY <1>2, <2>3, <3>1 DEF ServicesInv, ChangedOnce
      <4>2. QED BY <4>1
    <3>3. ASSUME NEW j \in Keys PROVE effects'[j] <= 1 /\ (effects'[j] = 1 <=> events'[j] = "patch")
      <4>1. CASE j = k
        BY <2>1, <2>3, <3>2, <4>1
      <4>2. CASE j # k
        BY <2>1, <2>3, <4>2 DEF ServicesInv, ChangedOnce
      <4>3. QED BY <4>1, <4>2
    <3>4. QED BY <3>3 DEF ChangedOnce
  <2>6. OpenedOnce' /\ HistoryTellsStatus' /\ Reminded
    BY <2>1 DEF ServicesInv, OpenedOnce, HistoryTellsStatus, Reminded
  <2>7. \A x \in Calls \ {r} : \A j \in calls[x].flushed : events'[j] = events[j]
    BY <2>1, <2>3 DEF FreeKey
  <2>8. QED BY <2>1, <2>4, <2>5, <2>6, <2>7, CallCommits
<1>6. QED BY <1>3, <1>4, <1>5
\* The offline queue: keys go into the table one by one, and are stored with one commit.
LEMMA SyncStep ==
    ASSUME ServicesInv, NEW r \in Calls,
           SyncNext(r) \/ SyncCommit(r) \/ SyncConflict(r) \/ DeadlockAbort(r) \/ Abandon(r),
           UNCHANGED accountVars
    PROVE  ServicesKept
<1> DEFINE q == calls[r]
<1>1. q \in Call /\ CallSound(r) /\ q.flushed \subseteq Keys /\ q.key \in Keys \cup {Null} /\ q.todo \in Seq(Keys)
  BY DEF ServicesInv, ServicesTypeOK, Call
<1>2. CASE SyncConflict(r) \/ DeadlockAbort(r) \/ Abandon(r)
  BY <1>2, CallEnds DEF SyncConflict, DeadlockAbort, Abandon
<1>3. ASSUME Insertable(r)
      PROVE  /\ FlushedKeys(q) \subseteq Keys
             /\ \A k \in FlushedKeys(q) : events[k] = NoRow /\ FreeKey(r, k)
  BY <1>1, <1>3 DEF Insertable, FlushedKeys, CallSound
<1>4. CASE SyncNext(r)
  <2> DEFINE k == Head(q.todo)
             F == FlushedKeys(q)
             j == IF events[k] # NoRow \/ k \in F THEN Null ELSE k
             T == Tail(q.todo)
             w == [q EXCEPT !.todo = T, !.flushed = F, !.key = j]
  <2>1. q.op = "sync" /\ q.todo # <<>> /\ Insertable(r)
    BY <1>4 DEF SyncNext, Doing
  <2>2. k \in Keys /\ T \in Seq(Keys)
    BY <1>1, <2>1
  <2>3. j \in Keys \cup {Null}
    BY <2>2
  <2>4. GoOn(r, w) /\ UNCHANGED serviceTables
    BY <1>4 DEF SyncNext, Remaining
  <2> HIDE DEF k, j, T
  <2>5. F \in SUBSET Keys
    BY <1>3, <2>1
  <2>6. w \in Call /\ w.op = "sync" /\ w.user = q.user /\ w.flushed = F
    <3> HIDE DEF F
    <3>1. QED BY <1>1, <2>1, <2>2, <2>3, <2>5 DEF Call
  <2>7. q.user \in Users
    BY <1>1, <2>1 DEF CallSound
  <2> HIDE DEF w
  <2>8. \A x \in w.flushed : events[x] = NoRow /\ FreeKey(r, x)
    BY <1>3, <2>1, <2>6
  <2>9. QED BY <2>4, <2>6, <2>7, <2>8, CallReads
<1>5. CASE SyncCommit(r)
  <2>1. /\ Insertable(r) /\ Answered(r)
        /\ events' = [k \in Keys |-> IF k \in FlushedKeys(q) THEN "sync" ELSE events[k]]
        /\ UNCHANGED <<saved, jobs, items, effects, application, history>>
    BY <1>5 DEF SyncCommit
  <2>2. events \in [Keys -> Event \cup {NoRow}] /\ "sync" \in Event
    BY DEF ServicesInv, ServicesTypeOK, Event
  <2>3. TableTypes'
    BY <2>1, <2>2 DEF ServicesInv, ServicesTypeOK, TableTypes
  <2>4. ChangedOnce'
    <3>1. ASSUME NEW k \in Keys PROVE effects'[k] <= 1 /\ (effects'[k] = 1 <=> events'[k] = "patch")
      <4>1. effects[k] <= 1 /\ (effects[k] = 1 <=> events[k] = "patch")
        BY DEF ServicesInv, ChangedOnce
      <4>2. CASE k \in FlushedKeys(q)
        <5>1. events[k] = NoRow /\ NoRow # "patch"
          BY <1>3, <2>1, <4>2, ServiceRowsAssumption DEF Event
        <5>2. QED BY <2>1, <4>1, <4>2, <5>1
      <4>3. CASE k \notin FlushedKeys(q)
        BY <2>1, <4>1, <4>3
      <4>4. QED BY <4>2, <4>3
    <3>2. QED BY <3>1 DEF ChangedOnce
  <2>5. OpenedOnce' /\ HistoryTellsStatus' /\ Reminded
    BY <2>1 DEF ServicesInv, OpenedOnce, HistoryTellsStatus, Reminded
  <2>6. ASSUME NEW x \in Calls \ {r}, NEW k \in calls[x].flushed PROVE events'[k] = events[k]
    <3>1. k \notin FlushedKeys(q)
      BY <1>3, <2>1, <2>6 DEF FreeKey
    <3>2. k \in Keys
      BY <2>6 DEF ServicesInv, ServicesTypeOK, Call
    <3>3. QED BY <2>1, <3>1, <3>2
  <2>7. QED BY <2>1, <2>3, <2>4, <2>5, <2>6, CallCommits
<1>6. QED BY <1>2, <1>4, <1>5

\* One more entry in a history: one more opening if it is one.
LEMMA OneMore ==
    ASSUME NEW h \in Seq(Change), NEW e \in Change
    PROVE  Cardinality({i \in 1..Len(Append(h, e)) : Append(h, e)[i].old = NoRow})
             = Cardinality({i \in 1..Len(h) : h[i].old = NoRow}) + IF e.old = NoRow THEN 1 ELSE 0
<1> DEFINE A == {i \in 1..Len(h) : h[i].old = NoRow}
           n == Len(h) + 1
           B == {i \in 1..n : Append(h, e)[i].old = NoRow}
<1>1. Len(h) \in Nat /\ Len(Append(h, e)) = n /\ n \notin A
  OBVIOUS
<1>2. \A i \in 1..n : Append(h, e)[i] = IF i = n THEN e ELSE h[i]
  OBVIOUS
<1>3. B = IF e.old = NoRow THEN A \cup {n} ELSE A
  BY <1>1, <1>2
<1>4. IsFiniteSet(A)
  <2>1. IsFiniteSet(1..Len(h))
    BY <1>1, FS_Interval
  <2>2. QED BY <2>1, FS_Subset
<1>5. Cardinality(A) \in Nat /\ Cardinality(A \cup {n}) = Cardinality(A) + 1
  BY <1>1, <1>4, FS_AddElement, FS_CardinalityType
<1>6. Cardinality(B) = Cardinality(A) + IF e.old = NoRow THEN 1 ELSE 0
  <2> HIDE DEF A, B, n
  <2>1. CASE e.old = NoRow
    BY <1>3, <1>5, <2>1
  <2>2. CASE e.old # NoRow
    BY <1>3, <1>5, <2>2
  <2>3. QED BY <2>1, <2>2
<1>7. QED BY <1>1, <1>6

\* A change of status: the column, its event and the job in one commit.
LEMMA StatusStep ==
    ASSUME ServicesInv, NEW r \in Calls, StatusCommit(r) \/ StatusConflict(r), UNCHANGED accountVars
    PROVE  ServicesKept
<1>1. CASE StatusConflict(r)
  BY <1>1, CallEnds DEF StatusConflict
<1>2. CASE StatusCommit(r)
  <2> DEFINE q == calls[r]
             u == q.user
             e == [old |-> q.old, new |-> q.new, source |-> q.source]
             s == NewStatus(q, application[u])
             h == history[u]
  <2>1. /\ u \in Users /\ q.new \in Progress /\ q.old \in Progress \cup {NoRow}
        /\ q.source \in {"user", "operator"}
        /\ q.old = NoRow <=> application[u] = NoRow
    BY <1>2 DEF StatusCommit, Doing, OpenOrKnown, ServicesInv, ServicesTypeOK, CallSound, Call
  <2>2. application \in [Users -> Progress \cup {NoRow}] /\ history \in [Users -> Seq(Change)]
        /\ jobs \in [Users -> [JobKinds -> Nat]]
    BY DEF ServicesInv, ServicesTypeOK
  <2>3. NoRow \notin Progress
    BY ServiceRowsAssumption
  <2>4. s \in Progress
    BY <2>1, <2>2, <2>3 DEF NewStatus
  <2>5. e \in Change /\ h \in Seq(Change)
    BY <2>1, <2>2 DEF Change
  <2>6. /\ application' = [application EXCEPT ![u] = s]
        /\ history' = [history EXCEPT ![u] = Append(h, e)]
        /\ UNCHANGED <<saved, items, events, effects>> /\ Answered(r)
    BY <1>2 DEF StatusCommit
  <2>7. jobs' \in [Users -> [JobKinds -> Nat]] /\ \A v \in Users, t \in Schemes : jobs'[v][t] = jobs[v][t]
    <3>1. StatusJob \in JobKinds /\ StatusJob \notin Schemes /\ Schemes \subseteq JobKinds
      BY ServiceRowsAssumption DEF JobKinds
    <3>2. CASE UNCHANGED jobs
      BY <2>2, <3>2
    <3>3. CASE jobs' = [jobs EXCEPT ![u][StatusJob] = @ + 1]
      BY <2>1, <2>2, <3>1, <3>3
    <3>4. QED BY <1>2, <3>2, <3>3 DEF StatusCommit
  <2> HIDE DEF s, e
  <2>8. /\ \A v \in Users : application'[v] = IF v = u THEN s ELSE application[v]
        /\ \A v \in Users : history'[v] = IF v = u THEN Append(h, e) ELSE history[v]
    BY <2>2, <2>6
  <2>9. TableTypes'
    <3>1. Append(h, e) \in Seq(Change)
      BY <2>5
    <3>2. history' \in [Users -> Seq(Change)] /\ application' \in [Users -> Progress \cup {NoRow}]
      BY <2>1, <2>2, <2>4, <2>6, <3>1
    <3>3. QED BY <2>6, <2>7, <3>2 DEF ServicesInv, ServicesTypeOK, TableTypes
  <2>10. ChangedOnce' /\ Reminded
    BY <2>6, <2>7 DEF ServicesInv, ChangedOnce, Reminded
  <2>11. ASSUME NEW v \in Users
         PROVE  Cardinality({i \in 1..Len(history'[v]) : history'[v][i].old = NoRow})
                   = IF application'[v] = NoRow THEN 0 ELSE 1
    <3>1. Cardinality({i \in 1..Len(history[v]) : history[v][i].old = NoRow})
                   = IF application[v] = NoRow THEN 0 ELSE 1
      BY DEF ServicesInv, OpenedOnce
    <3>2. CASE v = u
      <4>1. e.old = q.old
        BY DEF e
      <4>2. history'[v] = Append(h, e) /\ application'[v] # NoRow
        BY <2>3, <2>4, <2>8, <3>2
      <4>3. Cardinality({i \in 1..Len(Append(h, e)) : Append(h, e)[i].old = NoRow}) = 1
        <5> HIDE DEF q, u, h
        <5>1. QED BY <2>1, <2>5, <3>1, <3>2, <4>1, OneMore DEF h
      <4>4. QED BY <4>2, <4>3
    <3>3. CASE v # u
      BY <2>8, <3>1, <3>3
    <3>4. QED BY <3>2, <3>3
  <2>12. OpenedOnce'
    BY <2>11 DEF OpenedOnce
  <2>13. HistoryTellsStatus'
    <3>1. SUFFICES ASSUME NEW v \in Users, NEW i \in DOMAIN history'[v],
                          history'[v][i].old # history'[v][i].new,
                          \A j \in (i + 1)..Len(history'[v]) : history'[v][j].old = history'[v][j].new
                   PROVE  application'[v] = history'[v][i].new
      BY DEF HistoryTellsStatus
    <3>2. CASE v # u
      BY <2>8, <3>1, <3>2 DEF ServicesInv, HistoryTellsStatus
    <3>3. CASE v = u
      <4>1. /\ Len(h) \in Nat /\ history'[v] = Append(h, e) /\ application'[v] = s
            /\ DOMAIN Append(h, e) = 1..(Len(h) + 1) /\ Len(Append(h, e)) = Len(h) + 1
            /\ DOMAIN h = 1..Len(h)
        <5>1. history'[v] = Append(h, e) /\ application'[v] = s
          BY <2>8, <3>3
        <5> HIDE DEF h
        <5>2. QED BY <2>5, <5>1
      <4>2. \A j \in 1..(Len(h) + 1) : Append(h, e)[j] = IF j = Len(h) + 1 THEN e ELSE h[j]
        BY <2>5
      <4>3. CASE i = Len(h) + 1
        <5>1. e.old # e.new /\ history'[v][i] = e
          BY <3>1, <4>1, <4>2, <4>3
        <5>2. s = e.new
          BY <5>1 DEF s, e, NewStatus
        <5>3. QED BY <4>1, <5>1, <5>2
      <4>4. CASE i # Len(h) + 1
        <5>1. i \in 1..Len(h) /\ history'[v][i] = h[i]
          BY <4>1, <4>2, <4>4
        <5>2. Len(h) + 1 \in (i + 1)..Len(history'[v])
          BY <4>1, <5>1
        <5>3. e.old = e.new
          <6>1. Len(h) + 1 \in 1..(Len(h) + 1)
            BY <4>1
          <6>2. history'[v][Len(h) + 1] = e
            BY <4>1, <4>2, <6>1
          <6>3. QED BY <3>1, <5>2, <6>2
        <5>4. s = application[u]
          BY <5>3 DEF s, e, NewStatus
        <5>5. \A j \in (i + 1)..Len(h) : h[j].old = h[j].new
          <6>1. ASSUME NEW j \in (i + 1)..Len(h) PROVE h[j].old = h[j].new
            <7>1. j \in (i + 1)..(Len(h) + 1) /\ j \in 1..(Len(h) + 1) /\ j # Len(h) + 1
              BY <4>1, <5>1
            <7>2. QED BY <3>1, <4>1, <4>2, <7>1
          <6>2. QED BY <6>1
        <5>6. application[u] = h[i].new
          BY <2>1, <3>1, <4>1, <5>1, <5>5 DEF ServicesInv, HistoryTellsStatus
        <5>7. QED BY <4>1, <5>1, <5>4, <5>6
      <4>5. QED BY <4>3, <4>4
    <3>4. QED BY <3>2, <3>3
  <2>14. \A v \in Users : application[v] # NoRow => application'[v] # NoRow
    BY <2>3, <2>4, <2>8
  <2>15. QED BY <2>6, <2>9, <2>10, <2>12, <2>13, <2>14, CallCommits
<1>3. QED BY <1>1, <1>2
\* What a step of a service does not touch: the accounts.
LEMMA AccountsUntouched ==
    ASSUME ServicesInv, AccountsNext \/ UNCHANGED accountVars, UNCHANGED serviceVars,
           ServicesTypeOK'
    PROVE  ServicesKept
<1>1. UNCHANGED <<saved, jobs, items, events, effects, application, history, calls>>
  BY DEF serviceVars, serviceTables
<1>2. ChangedOnce' /\ OpenedOnce' /\ HistoryTellsStatus' /\ Reminded
  BY <1>1 DEF ServicesInv, ChangedOnce, OpenedOnce, HistoryTellsStatus, Reminded
<1>3. \A r \in Calls : CallSound(r)'
  BY <1>1 DEF ServicesInv, CallSound, FreeKey
<1>4. QED BY <1>2, <1>3 DEF ServicesKept, ServicesInv

LEMMA ServicesStep ==
    ASSUME AccountsInv, ServicesInv, [Next]_vars
    PROVE  ServicesKept
<1>1. CASE UNCHANGED accountVars /\ UNCHANGED serviceVars
  <2>1. TypeOK'
    BY <1>1 DEF ServicesInv, ServicesTypeOK, TypeOK, accountVars, tables
  <2>2. UNCHANGED <<saved, jobs, items, events, effects, application, history, calls>>
    BY <1>1 DEF serviceVars, serviceTables
  <2>3. ServicesTypeOK'
    BY <2>1, <2>2 DEF ServicesInv, ServicesTypeOK
  <2>4. QED BY <1>1, <2>3, AccountsUntouched
<1>2. CASE AccountsNext /\ UNCHANGED serviceVars
  <2>1. TypeOK'
    BY <1>2, AccountsStep DEF Kept, AccountsInv
  <2>2. UNCHANGED <<saved, jobs, items, events, effects, application, history, calls>>
    BY <1>2 DEF serviceVars, serviceTables
  <2>3. ServicesTypeOK'
    BY <2>1, <2>2 DEF ServicesInv, ServicesTypeOK
  <2>4. QED BY <1>2, <2>3, AccountsUntouched
<1>3. CASE \E r \in Calls : (Calling(r) \/ Serving(r) \/ Abandon(r)) /\ UNCHANGED accountVars
  <2>1. PICK r \in Calls : (Calling(r) \/ Serving(r) \/ Abandon(r)) /\ UNCHANGED accountVars
    BY <1>3
  <2>2. CASE Calling(r)
    BY <2>1, <2>2, CallingStep
  <2>3. CASE SaveCommit(r) \/ SaveConflict(r) \/ UnsaveCommit(r)
    BY <2>1, <2>3, SavedStep
  <2>4. CASE ChecklistItem(r) \/ ChecklistCommit(r) \/ ChecklistConflict(r)
    BY <2>1, <2>4, ChecklistStep
  <2>5. CASE SyncNext(r) \/ SyncCommit(r) \/ SyncConflict(r) \/ DeadlockAbort(r) \/ Abandon(r)
    BY <2>1, <2>5, SyncStep
  <2>6. CASE StatusCommit(r) \/ StatusConflict(r)
    BY <2>1, <2>6, StatusStep
  <2>7. QED BY <2>1, <2>2, <2>3, <2>4, <2>5, <2>6 DEF Serving
<1>4. QED BY <1>1, <1>2, <1>3 DEF Next, vars

LEMMA ServicesStart == TypeOK /\ NoServicesYet => ServicesInv
<1> SUFFICES ASSUME TypeOK, NoServicesYet PROVE ServicesInv
  OBVIOUS
<1>1. ServicesTypeOK
  BY RestingType DEF NoServicesYet, ServicesTypeOK
<1>2. ChangedOnce
  BY ServiceRowsAssumption DEF NoServicesYet, ChangedOnce, Event
<1>3. OpenedOnce
  <2>1. ASSUME NEW u \in Users
        PROVE  Cardinality({i \in 1..Len(history[u]) : history[u][i].old = NoRow}) = 0
    <3>1. history[u] = <<>>
      BY DEF NoServicesYet
    <3>2. {i \in 1..Len(history[u]) : history[u][i].old = NoRow} = {}
      BY <3>1
    <3>3. QED BY <3>2, FS_EmptySet
  <2>2. QED BY <2>1 DEF NoServicesYet, OpenedOnce
<1>4. HistoryTellsStatus
  BY DEF NoServicesYet, HistoryTellsStatus
<1>5. \A r \in Calls : CallSound(r)
  BY RestingType DEF NoServicesYet, CallSound
<1>6. QED BY <1>1, <1>2, <1>3, <1>4, <1>5 DEF ServicesInv

\* Beside the services the accounts behave as they do alone, so all of the above holds of
\* them there too.
THEOREM ServicesKeepAccounts == Spec => AccountsSpec
<1>1. ServicesInit => Init
  BY DEF ServicesInit
<1>2. [Next]_vars => [AccountsNext]_accountVars
  BY DEF Next, vars
<1>3. QED BY <1>1, <1>2, PTL DEF Spec, AccountsSpec

\* Tables and handlers keep their types; the key of an offline action that a batch has put
\* into the table is stored by no other until that batch ends (services/phase4.py:175-358).
THEOREM ServicesInvariant == Spec => []ServicesInv
<1>1. ServicesInit => ServicesInv
  BY AccountsStart, ServicesStart DEF ServicesInit, AccountsInv
<1>2. AccountsInv /\ ServicesInv /\ [Next]_vars => ServicesInv'
  BY ServicesStep DEF ServicesKept
<1>3. Spec => []AccountsInv
  BY ServicesKeepAccounts, AccountsInvariant, PTL
<1>4. QED BY <1>1, <1>2, <1>3, PTL DEF Spec

\* Tables and handlers keep their types (services/phase4.py:175-358).
THEOREM ServicesTypes == Spec => []ServicesTypeOK
<1>1. ServicesInv => ServicesTypeOK
  BY DEF ServicesInv
<1>2. QED BY <1>1, ServicesInvariant, PTL

\* A checklist change takes effect once, however often its request is repeated
\* (services/phase4.py:216-247).
THEOREM ChangesTakeEffectOnce == Spec => []ChangedOnce
<1>1. ServicesInv => ChangedOnce
  BY DEF ServicesInv
<1>2. QED BY <1>1, ServicesInvariant, PTL

\* One event opens an application, whoever came first (services/phase4.py:278-302).
THEOREM ApplicationsOpenOnce == Spec => []OpenedOnce
<1>1. ServicesInv => OpenedOnce
  BY DEF ServicesInv
<1>2. QED BY <1>1, ServicesInvariant, PTL

\* The status of an application is the one its last recorded change led to
\* (services/phase4.py:288-296, dashboard/beneficiaries.py:266-276).
THEOREM HistoryIsTrue == Spec => []HistoryTellsStatus
<1>1. ServicesInv => HistoryTellsStatus
  BY DEF ServicesInv
<1>2. QED BY <1>1, ServicesInvariant, PTL

\* A reminder is scheduled exactly when a scheme becomes saved (services/phase4.py:175-213).
THEOREM RemindersFollowSaving == Spec => RemindersOnlyOnSaving
<1>1. AccountsInv /\ ServicesInv /\ [Next]_vars =>
        [\A u \in Users, s \in Schemes :
            jobs'[u][s] # jobs[u][s] <=> saved[u][s] = 0 /\ saved'[u][s] # 0]_vars
  BY ServicesStep DEF ServicesKept, Reminded
<1>2. Spec => []AccountsInv
  BY ServicesKeepAccounts, AccountsInvariant, PTL
<1>3. QED BY <1>1, <1>2, ServicesInvariant, PTL DEF Spec, RemindersOnlyOnSaving

\* The keys that are stored.
Recorded == {k \in Keys : events[k] # NoRow}

\* Every step of the services is one of the store of changes, or none of them.
LEMMA StoreStep ==
    ASSUME ServicesInv, [Next]_vars
    PROVE  [Store!Next]_<<Recorded, effects, items>>
<1>1. CASE UNCHANGED <<events, effects, items>>
  BY <1>1 DEF Recorded
<1>2. CASE \E r \in Calls : ChecklistCommit(r)
  <2>1. PICK r \in Calls : ChecklistCommit(r)
    BY <1>2
  <2> DEFINE q == calls[r]
             k == q.key
             change == ChangeOf[k]
  <2>2. k \in Keys /\ q.user \in Users /\ events[k] = NoRow
    BY <2>1 DEF ChecklistCommit, ChecklistAccepted, Doing, ServicesInv, CallSound
  <2>3. Recorded' = Recorded \cup {k}
    <3>1. events' = [events EXCEPT ![k] = "patch"] /\ events \in [Keys -> Event \cup {NoRow}]
      BY <2>1 DEF ChecklistCommit, ServicesInv, ServicesTypeOK
    <3>2. NoRow # "patch"
      BY ServiceRowsAssumption DEF Event
    <3>3. \A j \in Keys : events'[j] # NoRow <=> j = k \/ events[j] # NoRow
      BY <2>2, <3>1, <3>2
    <3>4. QED BY <2>2, <3>3 DEF Recorded
  <2>4. effects' = [effects EXCEPT ![k] = 1]
    <3>1. effects' = [effects EXCEPT ![k] = effects[k] + 1] /\ effects \in [Keys -> Nat]
      BY <2>1 DEF ChecklistCommit, ServicesInv, ServicesTypeOK
    <3>2. effects[k] <= 1 /\ effects[k] # 1
      BY <2>2, ServiceRowsAssumption DEF ServicesInv, ChangedOnce, Event
    <3>3. effects[k] = 0
      BY <2>2, <3>1, <3>2
    <3>4. QED BY <3>1, <3>3
  <2>5. \/ items' = [items EXCEPT ![q.user][change.doc] = change.status]
        \/ items' = items
    <3>1. items' = [items EXCEPT ![q.user][change.doc] =
                       IF q.item = change.status THEN items[q.user][change.doc] ELSE change.status]
      BY <2>1 DEF ChecklistCommit
    <3>2. CASE q.item = change.status
      <4>1. items \in [Users -> [Docs -> ItemStatuses \cup {NoRow}]]
        BY DEF ServicesInv, ServicesTypeOK
      <4>2. items' = [items EXCEPT ![q.user] = [items[q.user] EXCEPT ![change.doc] = items[q.user][change.doc]]]
        BY <3>1, <3>2
      <4>3. QED BY <4>1, <4>2
    <3>3. QED BY <3>1, <3>2
  <2>6. k \notin Recorded
    BY <2>2 DEF Recorded
  <2>7. PICK j \in Keys, u \in Users : j = k /\ u = q.user
    BY <2>2
  <2>8. Store!Make(j, u)
    BY <2>3, <2>4, <2>5, <2>6, <2>7 DEF Store!Make, Recorded
  <2>9. QED BY <2>8 DEF Store!Next, Recorded
<1>3. CASE \E r \in Calls : SyncCommit(r)
  <2>1. PICK r \in Calls : SyncCommit(r)
    BY <1>3
  <2> DEFINE F == FlushedKeys(calls[r])
  <2>2. CallSound(r) /\ calls[r].flushed \subseteq Keys /\ calls[r].key \in Keys \cup {Null}
    BY DEF ServicesInv, ServicesTypeOK, Call
  <2>3. F \subseteq Keys /\ \A k \in F : events[k] = NoRow
    BY <2>1, <2>2 DEF SyncCommit, Insertable, FlushedKeys, CallSound
  <2>4. /\ events' = [k \in Keys |-> IF k \in F THEN "sync" ELSE events[k]]
        /\ UNCHANGED <<effects, items>>
    BY <2>1 DEF SyncCommit
  <2>5. NoRow # "sync"
    BY ServiceRowsAssumption DEF Event
  <2> HIDE DEF F
  <2>6. Recorded' = Recorded \cup F /\ F \cap Recorded = {}
    BY <2>3, <2>4, <2>5 DEF Recorded
  <2>7. PICK K \in SUBSET Keys : K = F
    BY <2>3
  <2>8. Store!Keep(K)
    BY <2>4, <2>6, <2>7 DEF Store!Keep, Recorded
  <2>9. QED BY <2>8 DEF Store!Next, Recorded
<1>4. CASE AccountsNext /\ UNCHANGED serviceVars
  BY <1>1, <1>4 DEF serviceVars, serviceTables
<1>5. CASE UNCHANGED vars
  BY <1>1, <1>5 DEF vars, serviceVars, serviceTables
<1>6. ASSUME NEW r \in Calls, Calling(r) \/ Serving(r) \/ Abandon(r), ~ChecklistCommit(r), ~SyncCommit(r)
      PROVE  UNCHANGED <<events, effects, items>>
  <2>1. CASE Calling(r)
    BY <2>1 DEF Calling, SaveRead, UnsaveRead, ChecklistRead, SyncStart, StatusRead, serviceTables
  <2>2. CASE Abandon(r)
    BY <2>2 DEF Abandon, serviceTables
  <2>3. CASE Serving(r)
    BY <1>6, <2>3 DEF Serving, SaveCommit, SaveConflict, UnsaveCommit, ChecklistItem, ChecklistConflict,
                      SyncNext, SyncConflict, DeadlockAbort, StatusCommit, StatusConflict, serviceTables
  <2>4. QED BY <1>6, <2>1, <2>2, <2>3, Zenon
<1>7. QED BY <1>1, <1>2, <1>3, <1>4, <1>5, <1>6 DEF Next

LEMMA StoreStart == NoServicesYet => Store!Init
<1>1. NoServicesYet => {k \in Keys : events[k] # NoRow} = {}
  BY DEF NoServicesYet
<1>2. QED BY <1>1 DEF NoServicesYet, Store!Init

\* The service keeps its promise to an offline device: keys are spent once and for good,
\* and a change is made at most once, as its key is spent (services/phase4.py:216-247,
\* 345-358).
THEOREM ChangesStoredByKey == Spec => ImplementsChangeStore
<1>1. ServicesInit => Store!Init
  BY StoreStart DEF ServicesInit
<1>2. ServicesInv /\ [Next]_vars => [Store!Next]_<<{k \in Keys : events[k] # NoRow}, effects, items>>
  BY StoreStep DEF Recorded
<1>3. QED BY <1>1, <1>2, ServicesInvariant, PTL DEF Spec, ImplementsChangeStore, Store!Spec

-----------------------------------------------------------------------------
(* Locks of the services: which requests may wait in a circle, and how far   *)
(* each has to go.                                                           *)

\* Only batches put keys into the table before they commit.
OnlyBatchesFlush == \A r \in Calls : calls[r].flushed # {} => calls[r].op = "sync"

\* A request the database may roll back to break a circle is a batch that has put one key
\* into the table and waits for another: batches of one action and single changes are safe.
OnlyLongBatchesDeadlock ==
    \A r \in Calls : Deadlocked(r) =>
        /\ calls[r].op = "sync" /\ calls[r].flushed # {}
        /\ calls[r].key \in Keys \ calls[r].flushed

\* Steps a handler takes at most until its request is answered.
CallLeft(q) ==
    CASE q.pc = "idle" -> 0
      [] q.pc = "commit" -> 1
      [] q.pc = "item" -> 2
      [] q.pc = "batch" -> Len(q.todo) + 1

CallAdvance == \A r \in Calls : calls[r].pc # "idle" /\ calls'[r] # calls[r] =>
                   CallLeft(calls'[r]) < CallLeft(calls[r])

\* A request once begun comes nearer to its answer with each step of its handler.
CallsAdvance == [][CallAdvance]_vars

LEMMA CallLeftValues ==
    ASSUME NEW q \in Call
    PROVE  /\ q.pc = "idle" => CallLeft(q) = 0
           /\ q.pc = "commit" => CallLeft(q) = 1
           /\ q.pc = "item" => CallLeft(q) = 2
           /\ q.pc = "batch" => CallLeft(q) = Len(q.todo) + 1 /\ Len(q.todo) \in Nat
           /\ q.pc \in {"idle", "item", "batch", "commit"}
BY DEF CallLeft, Call

\* One handler goes on as w.
LEMMA CallGoesOn ==
    ASSUME ServicesInv, OnlyBatchesFlush, NEW r \in Calls, NEW w, GoOn(r, w),
           w.flushed # {} => w.op = "sync",
           calls[r].pc # "idle" => CallLeft(w) < CallLeft(calls[r])
    PROVE  OnlyBatchesFlush' /\ CallAdvance
<1>1. \A x \in Calls : calls'[x] = IF x = r THEN w ELSE calls[x]
  BY DEF GoOn, ServicesInv, ServicesTypeOK
<1>2. QED BY <1>1 DEF OnlyBatchesFlush, CallAdvance

LEMMA CallsStep ==
    ASSUME ServicesInv, OnlyBatchesFlush, [Next]_vars
    PROVE  OnlyBatchesFlush' /\ CallAdvance
<1>1. CASE UNCHANGED calls
  BY <1>1 DEF OnlyBatchesFlush, CallAdvance
<1>2. ASSUME NEW r \in Calls, Calling(r) \/ Serving(r) \/ Abandon(r)
      PROVE  OnlyBatchesFlush' /\ CallAdvance
  <2> DEFINE q == calls[r]
  <2>1. q \in Call
    BY DEF ServicesInv, ServicesTypeOK
  <2>2. CASE Answered(r) /\ q.pc # "idle"
    <3>1. CallLeft(Resting) < CallLeft(q)
      BY <2>1, <2>2, RestingType, CallLeftValues
    <3>2. QED BY <2>2, <3>1, RestingType, CallGoesOn DEF Answered
  <2>3. CASE Calling(r)
    <3>1. PICK w : GoOn(r, w) /\ w.flushed = {} /\ q.pc = "idle"
      <4>1. CASE \E u \in Users, s \in Schemes : SaveRead(r, u, s)
        BY <4>1 DEF SaveRead, Resting
      <4>2. CASE \E u \in Users, s \in Schemes : UnsaveRead(r, u, s)
        BY <4>2 DEF UnsaveRead, Resting
      <4>3. CASE \E u \in Users, k \in Keys : ChecklistRead(r, u, k)
        BY <4>3 DEF ChecklistRead, Resting
      <4>4. CASE \E u \in Users, batch \in Batches : SyncStart(r, u, batch)
        BY <4>4 DEF SyncStart, Resting
      <4>5. CASE \E u \in Users, new \in Progress, source \in {"user", "operator"} :
                    StatusRead(r, u, new, source)
        BY <4>5 DEF StatusRead, Resting
      <4>6. QED BY <2>3, <4>1, <4>2, <4>3, <4>4, <4>5 DEF Calling
    <3>2. QED BY <3>1, CallGoesOn
  <2>4. CASE ChecklistItem(r)
    <3> DEFINE w == [q EXCEPT !.pc = "commit", !.item = items[q.user][ChangeOf[q.key].doc]]
    <3>1. GoOn(r, w) /\ q.pc = "item"
      BY <2>4 DEF ChecklistItem, Doing
    <3>2. w.pc = "commit" /\ w.flushed = q.flushed /\ w.op = q.op
      BY <2>1 DEF Call
    <3> HIDE DEF w
    <3>3. CallLeft(w) = 1 /\ CallLeft(q) = 2
      BY <2>1, <3>1, <3>2, CallLeftValues DEF CallLeft
    <3>4. QED BY <3>1, <3>2, <3>3, CallGoesOn DEF OnlyBatchesFlush
  <2>5. CASE SyncNext(r)
    <3> DEFINE k == Head(q.todo)
               F == FlushedKeys(q)
               j == IF events[k] # NoRow \/ k \in F THEN Null ELSE k
               T == Tail(q.todo)
               w == [q EXCEPT !.todo = T, !.flushed = F, !.key = j]
    <3>1. GoOn(r, w) /\ q.pc = "batch" /\ q.op = "sync" /\ q.todo # <<>>
      BY <2>5 DEF SyncNext, Doing, Remaining
    <3>2. q.todo \in Seq(Keys)
      BY <2>1 DEF Call
    <3>3. Len(T) \in Nat /\ Len(T) + 1 < Len(q.todo) + 1 /\ Len(q.todo) \in Nat
      BY <3>1, <3>2
    <3> HIDE DEF k, F, j, T
    <3>4. w.pc = "batch" /\ w.todo = T /\ w.op = "sync"
      BY <2>1, <3>1 DEF Call
    <3> HIDE DEF w
    <3>5. CallLeft(w) = Len(T) + 1 /\ CallLeft(q) = Len(q.todo) + 1
      BY <2>1, <3>1, <3>4, CallLeftValues DEF CallLeft
    <3>6. QED BY <3>1, <3>3, <3>4, <3>5, CallGoesOn
  <2>6. \/ Answered(r) /\ q.pc # "idle"
        \/ Calling(r) \/ ChecklistItem(r) \/ SyncNext(r)
    <3>1. CASE Abandon(r)
      BY <3>1 DEF Abandon
    <3>2. CASE DeadlockAbort(r)
      <4>1. PICK y \in Calls : Waits(r, y)
        BY <3>2 DEF DeadlockAbort, Deadlocked
      <4>2. QED BY <3>2, <4>1 DEF DeadlockAbort, Waits
    <3>3. CASE SaveCommit(r) \/ SaveConflict(r) \/ UnsaveCommit(r) \/ ChecklistCommit(r) \/ ChecklistConflict(r)
      BY <3>3 DEF SaveCommit, SaveConflict, UnsaveCommit, ChecklistCommit, ChecklistConflict, Doing
    <3>4. CASE SyncCommit(r) \/ SyncConflict(r) \/ StatusCommit(r) \/ StatusConflict(r)
      BY <3>4 DEF SyncCommit, SyncConflict, StatusCommit, StatusConflict, Doing
    <3>5. QED BY <1>2, <3>1, <3>2, <3>3, <3>4 DEF Serving
  <2>7. QED BY <2>2, <2>3, <2>4, <2>5, <2>6
<1>3. QED BY <1>1, <1>2 DEF Next, vars, serviceVars

LEMMA BatchesFlush == Spec => []OnlyBatchesFlush
<1>1. ServicesInit => OnlyBatchesFlush
  BY RestingType DEF ServicesInit, NoServicesYet, OnlyBatchesFlush
<1>2. ServicesInv /\ OnlyBatchesFlush /\ [Next]_vars => OnlyBatchesFlush'
  BY CallsStep
<1>3. QED BY <1>1, <1>2, ServicesInvariant, PTL DEF Spec

\* Whatever overlaps, the only requests the database ever rolls back to break a circle of
\* locks are batches of several actions (services/phase4.py:345-358).
THEOREM DeadlocksAreOfBatches == Spec => []OnlyLongBatchesDeadlock
<1>1. ServicesInv /\ OnlyBatchesFlush => OnlyLongBatchesDeadlock
  <2> SUFFICES ASSUME ServicesInv, OnlyBatchesFlush, NEW r \in Calls, Deadlocked(r)
               PROVE  /\ calls[r].op = "sync" /\ calls[r].flushed # {}
                      /\ calls[r].key \in Keys \ calls[r].flushed
    BY DEF OnlyLongBatchesDeadlock
  <2>1. PICK x \in Calls, y \in Calls : Waits(r, x) /\ Waits(y, r)
    BY DEF Deadlocked
  <2>2. calls[r].flushed # {}
    BY <2>1 DEF Waits
  <2>3. calls[r].key \in calls[x].flushed /\ x # r
    BY <2>1 DEF Waits
  <2>4. calls[x].flushed \subseteq Keys
    BY DEF ServicesInv, ServicesTypeOK, Call
  <2>5. FreeKey(x, calls[r].key)
    BY <2>3 DEF ServicesInv, CallSound
  <2>6. calls[r].key \notin calls[r].flushed
    BY <2>3, <2>5 DEF FreeKey
  <2>7. QED BY <2>2, <2>3, <2>4, <2>6 DEF OnlyBatchesFlush
<1>2. QED BY <1>1, ServicesInvariant, BatchesFlush, PTL

\* No handler of the services goes in circles: with each step of its own it has fewer left,
\* in a batch as many as actions that remain (services/phase4.py:175-358).
THEOREM ServicesAdvance == Spec => CallsAdvance
<1>1. ServicesInv /\ OnlyBatchesFlush /\ [Next]_vars => [CallAdvance]_vars
  BY CallsStep
<1>2. QED BY <1>1, ServicesInvariant, BatchesFlush, PTL DEF Spec, CallsAdvance

\* A spent key stays spent, and its change is never made again: what every store of changes
\* promises (services/phase4.py:216-247, 345-358).
SpentForGood ==
    [][\A k \in Recorded : k \in Recorded' /\ effects'[k] = effects[k]]_<<Recorded, effects, items>>

THEOREM KeysStaySpent == Spec => SpentForGood
<1>1. [Store!Next]_<<Recorded, effects, items>> =>
        [\A k \in Recorded : k \in Recorded' /\ effects'[k] = effects[k]]_<<Recorded, effects, items>>
  <2> SUFFICES ASSUME Store!Next, NEW k \in Recorded PROVE k \in Recorded' /\ effects'[k] = effects[k]
    OBVIOUS
  <2>1. ASSUME NEW j \in Keys, NEW u \in Users, Store!Make(j, u) PROVE k \in Recorded' /\ effects'[k] = effects[k]
    BY <2>1 DEF Store!Make, Recorded
  <2>2. ASSUME NEW K \in SUBSET Keys, Store!Keep(K) PROVE k \in Recorded' /\ effects'[k] = effects[k]
    BY <2>2 DEF Store!Keep, Recorded
  <2>3. QED BY <2>1, <2>2 DEF Store!Next
<1>2. ServicesInv /\ [Next]_vars => [\A k \in Recorded : k \in Recorded' /\ effects'[k] = effects[k]]_<<Recorded, effects, items>>
  BY <1>1, StoreStep
<1>3. QED BY <1>2, ServicesInvariant, PTL DEF Spec, SpentForGood

-----------------------------------------------------------------------------
(* The run: what a behaviour that begins with an account adds.               *)

runVars == <<vars, focus, started>>

LEMMA RunSteps == [LoginNext \/ ServiceNext]_runVars => [Next]_vars
<1>1. LoginNext => Next
  <2> SUFFICES ASSUME LoginNext PROVE AccountsNext /\ UNCHANGED serviceVars
    BY DEF Next
  <2>1. QED BY DEF LoginNext, AccountsNext
<1>2. ServiceNext => Next
  <2>1. ASSUME NEW r \in Calls, Calling(r) \/ Serving(r) \/ Abandon(r), UNCHANGED accountVars PROVE Next
    BY <2>1 DEF Next
  <2>2. ASSUME DeleteStart(l1, u1) \/ DeleteCommit(l1), UNCHANGED serviceVars PROVE Next
    <3>1. Starts(l1) \/ Continues(l1)
      BY <2>2, StartAssumption DEF Starts, Continues
    <3>2. QED BY <2>2, <3>1, StartAssumption DEF Next, AccountsNext
  <2>3. QED BY <2>1, <2>2 DEF ServiceNext
<1>3. QED BY <1>1, <1>2 DEF runVars

\* An account opened before the behaviour begins is one the logins could have opened, as far
\* as the invariants tell.
LEMMA RunStarts == MCInit => AccountsInv /\ ServicesInv /\ LocksSound /\ OnlyBatchesFlush /\ Store!Init
<1> SUFFICES ASSUME MCInit PROVE AccountsInv /\ ServicesInv /\ LocksSound /\ OnlyBatchesFlush /\ Store!Init
  OBVIOUS
<1>1. AccountsInv
  <2>1. CASE Opened
    <3>1. 0 \in Time
      BY AccountsAssumption DEF Time
    <3>2. /\ users \in [Users -> UserRow \cup {NoRow}]
          /\ \A u \in Users : users[u] # NoRow => u = u1
          /\ users[u1] = [phone |-> ph1, profile |-> q1, deleted |-> FALSE]
          /\ users[u1] \in UserRow
      <4>1. [phone |-> ph1, profile |-> q1, deleted |-> FALSE] \in UserRow
        BY StartAssumption DEF UserRow
      <4>2. QED BY <2>1, <4>1, StartAssumption DEF Opened
    <3>3. /\ profiles \in [Profiles -> ProfileRow \cup {NoRow}]
          /\ \A p \in Profiles : profiles[p] # NoRow <=> p = q1
      <4>1. [opener |-> Null, migrated |-> {}] \in ProfileRow
        BY DEF ProfileRow
      <4>2. [opener |-> Null, migrated |-> {}] # NoRow
        BY <4>1, NoRowAssumption
      <4>3. QED BY <2>1, <4>1, <4>2, StartAssumption DEF Opened
    <3>4. TypeOK
      BY <2>1, <3>1, <3>2, <3>3, IdleType DEF Opened, TypeOK
    <3>5. users[u1] # NoRow
      BY <3>2, NoRowAssumption
    <3>6. ProfilesThere
      BY <3>2, <3>3, StartAssumption DEF ProfilesThere
    <3>7. AttemptsBounded
      BY <2>1 DEF Opened, AttemptsBounded
    <3>8. AccountsSound
      BY <3>2, <3>3, <3>5, StartAssumption DEF AccountsSound, Active
    <3>9. \A l \in Logins : HandlerSound(l)
      BY <2>1, IdleType DEF Opened, HandlerSound
    <3>10. QED BY <3>4, <3>6, <3>7, <3>8, <3>9 DEF AccountsInv
  <2>2. QED BY <2>1, AccountsStart DEF MCInit
<1>2. NoServicesYet
  BY DEF MCInit
<1>3. ServicesInv /\ Store!Init
  BY <1>1, <1>2, ServicesStart, StoreStart DEF AccountsInv
<1>4. LocksSound
  <2>1. logins = [l \in Logins |-> Idle]
    BY DEF MCInit, Opened, Init
  <2>2. Idle.held = FALSE /\ Idle.op = "none"
    BY DEF Idle
  <2>3. QED BY <2>1, <2>2 DEF LocksSound, LocksChallenge, LocksUser
<1>5. OnlyBatchesFlush
  BY <1>2, RestingType DEF NoServicesYet, OnlyBatchesFlush
<1>6. QED BY <1>1, <1>3, <1>4, <1>5

\* Every safety property of the run, for every value of the constants and whether the
\* behaviour logs in or begins with an account: the invariants hold where it starts, and its
\* steps are steps of the services and the accounts below them.
THEOREM CitizenKeepsItsPromises ==
    MCSpec => /\ [](ServicesTypeOK /\ AttemptsBounded /\ AccountsSound /\ OpenedOnce /\ HistoryTellsStatus)
              /\ TextsSpaced /\ DeletionFinal /\ RemindersOnlyOnSaving /\ ImplementsChangeStore
<1> DEFINE Inv == AccountsInv /\ ServicesInv
<1>1. MCInit => Inv /\ Store!Init
  BY RunStarts
<1>2. [LoginNext \/ ServiceNext]_runVars => [Next]_vars
  BY RunSteps
<1>3. [Next]_vars => [AccountsNext]_accountVars
  BY DEF Next, vars
<1>4. Inv /\ [Next]_vars => Inv'
  BY <1>3, AccountsStep, ServicesStep DEF Kept, ServicesKept
<1>5. Inv => ServicesTypeOK /\ AttemptsBounded /\ AccountsSound /\ OpenedOnce /\ HistoryTellsStatus
  BY DEF AccountsInv, ServicesInv
<1>6. Inv /\ [Next]_vars =>
        [\A l \in Logins : logins[l].pc = "idle" /\ logins'[l].pc = "store" =>
            \A c \in SentTo(logins'[l].phone) : challenges[c].created + RetryAfter <= now]_accountVars
  BY <1>3, AccountsStep DEF Kept, Spaced
<1>7. Inv /\ [Next]_vars =>
        [\A u \in Users : users[u] # NoRow =>
            /\ users'[u] # NoRow /\ users'[u].profile = users[u].profile
            /\ users[u].deleted => users'[u].deleted]_accountVars
  BY <1>3, AccountsStep DEF Kept, RowsStay
<1>8. Inv /\ [Next]_vars =>
        [\A u \in Users, s \in Schemes :
            jobs'[u][s] # jobs[u][s] <=> saved[u][s] = 0 /\ saved'[u][s] # 0]_vars
  BY ServicesStep DEF ServicesKept, Reminded
<1>9. Inv /\ [Next]_vars => [Store!Next]_<<{k \in Keys : events[k] # NoRow}, effects, items>>
  BY StoreStep DEF Recorded
<1> HIDE DEF Inv
<1>10. QED
  BY <1>1, <1>2, <1>4, <1>5, <1>6, <1>7, <1>8, <1>9, PTL
  DEF MCSpec, runVars, TextsSpaced, DeletionFinal, RemindersOnlyOnSaving, ImplementsChangeStore, Store!Spec
=============================================================================
