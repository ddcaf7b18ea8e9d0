------------------------------ MODULE Accounts ------------------------------
(***************************************************************************)
(* Phone login and the life of a user account: the handlers of             *)
(* /auth/send-otp, /auth/verify-otp, PATCH /me and DELETE /me              *)
(* (services/phase4.py, api/routes/phase4.py) over the tables              *)
(* otp_challenges, users and profiles of one organisation.                 *)
(*                                                                         *)
(* A handler is one step per awaited read; flush and commit are one step,  *)
(* except that a row a handler has flushed stays locked until it commits,  *)
(* and another handler's UPDATE of that row waits for it (PostgreSQL, READ *)
(* COMMITTED).  The session flushes by itself before a query (autoflush),  *)
(* so the verified challenge is locked before its user is looked up, and   *)
(* the user row before its profile is read.                                *)
(*                                                                         *)
(* Left out: the digits of a code and their hash (a typed code is right or *)
(* wrong), masking, cookies, language and display settings.                *)
(***************************************************************************)
EXTENDS Naturals, FiniteSets

CONSTANTS
    Phones,         \* users.phone_e164
    Users,          \* users.id
    Profiles,       \* profiles.id
    Challenges,     \* otp_challenges.id
    Guests,         \* guest_profile_id a device sends
    Logins,         \* handlers of this module running at the same time
    MaxAttempts,    \* otp_max_attempts
    RetryAfter,     \* otp_retry_after_seconds, in ticks of the clock
    Expiry,         \* otp_expiry_seconds, in ticks
    LastTime,       \* bound: the clock stops here
    Null,           \* no value
    NoRow           \* no row with this key

ASSUME AccountsAssumption ==
    /\ {MaxAttempts, RetryAfter, Expiry, LastTime} \subseteq Nat
    /\ MaxAttempts > 0
    /\ Null \notin Guests \cup Users \cup Profiles

VARIABLES
    now,            \* the server's clock
    challenges,     \* otp_challenges
    users,          \* users
    profiles,       \* profiles opened by a login, with custom_attributes
    logins          \* what each handler has read and where it is

tables == <<challenges, users, profiles>>
accountVars == <<now, tables, logins>>

Time == 0..LastTime
Statuses == {"sent", "verified", "expired", "failed"}

\* created is created_at; expires_at is created + Expiry.
ChallengeRow == [phone: Phones, status: Statuses, attempts: Nat, created: Time]

\* A deleted account keeps its row: deleted_at is set and the number becomes
\* "deleted:<id>".  phone stays the number it was opened with.
UserRow == [phone: Phones, profile: Profiles, deleted: BOOLEAN]

\* custom_attributes.migrated_guest_profile_ids; the guest_profile_id of the
\* login that opened the account is a key of its own.
ProfileRow == [opener: Guests \cup {Null}, migrated: SUBSET Guests]

ASSUME NoRowAssumption == NoRow \notin ChallengeRow \cup UserRow \cup ProfileRow

Login == [op: {"none", "send", "verify", "patch", "delete"},
          pc: {"idle", "store", "expire", "fail", "wrong", "lookup", "insert", "update",
               "profile", "commit"},
          phone: Phones \cup {Null}, at: Time,
          challenge: Challenges \cup {Null}, status: Statuses \cup {Null}, attempts: Nat,
          guest: Guests \cup {Null}, user: Users \cup {Null}, held: BOOLEAN, attrs: SUBSET Guests]

Idle == [op |-> "none", pc |-> "idle", phone |-> Null, at |-> 0, challenge |-> Null,
         status |-> Null, attempts |-> 0, guest |-> Null, user |-> Null, held |-> FALSE, attrs |-> {}]

TypeOK ==
    /\ now \in Time
    /\ challenges \in [Challenges -> ChallengeRow \cup {NoRow}]
    /\ users \in [Users -> UserRow \cup {NoRow}]
    /\ profiles \in [Profiles -> ProfileRow \cup {NoRow}]
    /\ logins \in [Logins -> Login]

Init ==
    /\ now = 0
    /\ challenges = [c \in Challenges |-> NoRow]
    /\ users = [u \in Users |-> NoRow]
    /\ profiles = [p \in Profiles |-> NoRow]
    /\ logins = [l \in Logins |-> Idle]

-----------------------------------------------------------------------------
(* Rows, locks and steps. *)

Active(u) == users[u] # NoRow /\ ~users[u].deleted

\* SELECT users WHERE phone_e164 = p: a deleted account has lost its number.
HoldersOf(p) == {u \in Users : Active(u) /\ users[u].phone = p}

SentTo(p) == {c \in Challenges : challenges[c] # NoRow /\ challenges[c].phone = p}

\* Faulty variant of Recent: ORDER BY created_at without DESC.
Oldest(C) == {c \in C : \A d \in C : challenges[c].created <= challenges[d].created}

\* ORDER BY created_at DESC LIMIT 1: any one of the newest.
Recent(C) == {c \in C : \A d \in C : challenges[c].created >= challenges[d].created}

\* Faulty variant of LocksChallenge: the row is locked when it is read, and two
\* verifications of it wait for each other.
LocksWhenRead(l, c) == logins[l].op = "verify" /\ logins[l].challenge = c

\* A handler that has flushed the verified challenge, and one that has flushed the
\* user row, until its commit.
LocksChallenge(l, c) == logins[l].op = "verify" /\ logins[l].challenge = c
                        /\ logins[l].pc \in {"insert", "update", "profile", "commit"}
LocksUser(l, u) == logins[l].held /\ logins[l].user = u

FreeChallenge(l, c) == \A x \in Logins \ {l} : ~LocksChallenge(x, c)
FreeUser(l, u) == \A x \in Logins \ {l} : ~LocksUser(x, u)

At(l, op, pc) == logins[l].op = op /\ logins[l].pc = pc
Goto(l, q) == logins' = [logins EXCEPT ![l] = q]
Done(l) == Goto(l, Idle)

\* An ApiError, a failed flush, a cancelled request or a crash: nothing a handler
\* has not committed stays, and its locks are gone.
Rollback(l) ==
    /\ logins[l].pc # "idle"
    /\ Done(l)
    /\ UNCHANGED <<now, tables>>

-----------------------------------------------------------------------------
(* send_otp: the code leaves before the challenge is stored. *)

\* Bound: the ids left cover the handlers about to store one.
IdsLeft == Cardinality({l \in Logins : logins[l].pc = "store"})
             < Cardinality({c \in Challenges : challenges[c] = NoRow})

SendRead(l, p) ==
    /\ logins[l].pc = "idle" /\ IdsLeft
    /\ \/ SentTo(p) = {}
       \/ \E c \in Recent(SentTo(p)) : challenges[c].created + RetryAfter <= now
    /\ Goto(l, [Idle EXCEPT !.op = "send", !.pc = "store", !.phone = p, !.at = now])
    /\ UNCHANGED <<now, tables>>

SendStore(l, c) ==
    /\ At(l, "send", "store")
    /\ challenges[c] = NoRow
    /\ challenges' = [challenges EXCEPT ![c] = [phone |-> logins[l].phone, status |-> "sent",
                                                attempts |-> 0, created |-> logins[l].at]]
    /\ Done(l)
    /\ UNCHANGED <<now, users, profiles>>

-----------------------------------------------------------------------------
(* verify_otp. *)

Expired(row) == row.created + Expiry <= now

\* Faulty variant of Verdict: one attempt too many passes.
LaxVerdict(row, right) ==
    IF row.status # "sent" \/ Expired(row) THEN "expire"
    ELSE IF row.attempts > MaxAttempts THEN "fail"
    ELSE IF right THEN "lookup" ELSE "wrong"

\* What the row read says about the typed code.
Verdict(row, right) ==
    IF row.status # "sent" \/ Expired(row) THEN "expire"
    ELSE IF row.attempts >= MaxAttempts THEN "fail"
    ELSE IF right THEN "lookup" ELSE "wrong"

VerifyRead(l, c, right, g) ==
    /\ logins[l].pc = "idle"
    /\ challenges[c] # NoRow
    /\ Goto(l, [Idle EXCEPT !.op = "verify", !.pc = Verdict(challenges[c], right), !.challenge = c,
                            !.status = challenges[c].status, !.attempts = challenges[c].attempts,
                            !.phone = challenges[c].phone, !.guest = g])
    /\ UNCHANGED <<now, tables>>

\* The commits of the three refusals.  The ORM writes a column that differs from
\* what it loaded, and the value it computed from what it loaded.
VerifyRefuse(l) ==
    LET q == logins[l] c == q.challenge IN
    /\ q.op = "verify" /\ q.pc \in {"expire", "fail", "wrong"}
    /\ FreeChallenge(l, c)
    /\ challenges' = [challenges EXCEPT ![c] =
            CASE q.pc = "expire" -> IF q.status = "expired" THEN @ ELSE [@ EXCEPT !.status = "expired"]
              [] q.pc = "fail"   -> [@ EXCEPT !.status = "failed"]
              [] q.pc = "wrong"  -> [@ EXCEPT !.attempts = q.attempts + 1]]
    /\ Done(l)
    /\ UNCHANGED <<now, users, profiles>>

\* SELECT users flushes the challenge first.
VerifyLookup(l) ==
    LET q == logins[l] IN
    /\ At(l, "verify", "lookup")
    /\ FreeChallenge(l, q.challenge)
    /\ \/ /\ HoldersOf(q.phone) = {}
          /\ Goto(l, [q EXCEPT !.pc = "insert"])
       \/ \E u \in HoldersOf(q.phone) : Goto(l, [q EXCEPT !.pc = "update", !.user = u])
    /\ UNCHANGED <<now, tables>>

VerifiedRow(q) == [challenges EXCEPT ![q.challenge].status = "verified",
                                     ![q.challenge].attempts = q.attempts + 1]

\* Faulty variant of NumberFree: uq_users_org_phone is missing.
NumberAlwaysFree(p) == TRUE

NumberFree(p) == HoldersOf(p) = {}

\* INSERT of profile and user.
VerifyInsert(l, u, p) ==
    LET q == logins[l] IN
    /\ At(l, "verify", "insert")
    /\ NumberFree(q.phone)
    /\ users[u] = NoRow /\ profiles[p] = NoRow
    /\ users' = [users EXCEPT ![u] = [phone |-> q.phone, profile |-> p, deleted |-> FALSE]]
    /\ profiles' = [profiles EXCEPT ![p] = [opener |-> q.guest, migrated |-> {}]]
    /\ challenges' = VerifiedRow(q)
    /\ Done(l)
    /\ UNCHANGED now

\* uq_users_org_phone: another login has committed the number since the lookup, and
\* nothing of this one stays.
VerifyConflict(l) ==
    /\ At(l, "verify", "insert")
    /\ ~NumberFree(logins[l].phone)
    /\ Done(l)
    /\ UNCHANGED <<now, tables>>

\* Faulty variant of LoginColumns: the row is written back as it was loaded.
WholeRow(row) == [row EXCEPT !.deleted = FALSE]

\* The login writes phone_verified_at and language_code, and no column that the
\* account's deletion writes.
LoginColumns(row) == row

VerifyUpdate(l) ==
    LET q == logins[l] IN
    /\ At(l, "verify", "update")
    /\ FreeUser(l, q.user)
    /\ \/ /\ q.guest = Null
          /\ challenges' = VerifiedRow(q)
          /\ Done(l)
          /\ users' = [users EXCEPT ![q.user] = LoginColumns(@)]
       \/ /\ q.guest # Null
          /\ Goto(l, [q EXCEPT !.pc = "profile", !.held = TRUE])
          /\ UNCHANGED <<challenges, users>>
    /\ UNCHANGED <<now, profiles>>

\* mark_guest_migration: custom_attributes is read whole and written whole.
ReadAttributes(l) ==
    LET q == logins[l] IN
    /\ q.pc = "profile"
    /\ Goto(l, [q EXCEPT !.pc = "commit", !.attrs = profiles[users[q.user].profile].migrated])
    /\ UNCHANGED <<now, tables>>

WithGuest(q) ==
    LET p == users[q.user].profile IN
    IF q.guest \in q.attrs THEN profiles
    ELSE [profiles EXCEPT ![p].migrated = q.attrs \cup {q.guest}]

VerifyCommit(l) ==
    LET q == logins[l] IN
    /\ At(l, "verify", "commit")
    /\ profiles' = WithGuest(q)
    /\ challenges' = VerifiedRow(q)
    /\ users' = [users EXCEPT ![q.user] = LoginColumns(@)]
    /\ Done(l)
    /\ UNCHANGED now

-----------------------------------------------------------------------------
(* PATCH /me and DELETE /me; require_user reads the account first. *)

PatchStart(l, u, g) ==
    /\ logins[l].pc = "idle"
    /\ Active(u)
    /\ Goto(l, [Idle EXCEPT !.op = "patch", !.pc = "update", !.user = u, !.guest = g])
    /\ UNCHANGED <<now, tables>>

\* Settings that differ from the stored ones lock the user row before the profile is
\* read; without any, the profile is read with no lock at all.
PatchSettings(l) ==
    LET q == logins[l] IN
    /\ At(l, "patch", "update")
    /\ \E dirty \in BOOLEAN :
        /\ dirty => FreeUser(l, q.user)
        /\ Goto(l, [q EXCEPT !.pc = "profile", !.held = dirty])
    /\ UNCHANGED <<now, tables>>

PatchCommit(l) ==
    /\ At(l, "patch", "commit")
    /\ profiles' = WithGuest(logins[l])
    /\ Done(l)
    /\ UNCHANGED <<now, challenges, users>>

DeleteStart(l, u) ==
    /\ logins[l].pc = "idle"
    /\ Active(u)
    /\ Goto(l, [Idle EXCEPT !.op = "delete", !.pc = "commit", !.user = u])
    /\ UNCHANGED <<now, tables>>

DeleteCommit(l) ==
    /\ At(l, "delete", "commit")
    /\ FreeUser(l, logins[l].user)
    /\ users' = [users EXCEPT ![logins[l].user].deleted = TRUE]
    /\ Done(l)
    /\ UNCHANGED <<now, challenges, profiles>>

-----------------------------------------------------------------------------

Tick ==
    /\ now < LastTime
    /\ now' = now + 1
    /\ UNCHANGED <<tables, logins>>

\* A request arrives: any code may be typed, any device may send its guest id.
Starts(l) ==
    \/ \E p \in Phones : SendRead(l, p)
    \/ \E c \in Challenges, right \in BOOLEAN, g \in Guests \cup {Null} : VerifyRead(l, c, right, g)
    \/ \E u \in Users, g \in Guests : PatchStart(l, u, g)
    \/ \E u \in Users : DeleteStart(l, u)

Continues(l) ==
    \/ \E c \in Challenges : SendStore(l, c)
    \/ VerifyRefuse(l) \/ VerifyLookup(l)
    \/ \E u \in Users, p \in Profiles : VerifyInsert(l, u, p)
    \/ VerifyConflict(l) \/ VerifyUpdate(l) \/ ReadAttributes(l) \/ VerifyCommit(l)
    \/ PatchSettings(l) \/ PatchCommit(l)
    \/ DeleteCommit(l)

AccountsNext == Tick \/ \E l \in Logins : Starts(l) \/ Continues(l) \/ Rollback(l)

AccountsSpec == Init /\ [][AccountsNext]_accountVars

-----------------------------------------------------------------------------
(* Properties. *)

\* A challenge never counts more than otp_max_attempts, and a verified one has
\* counted its own, although the counter is read before the code is hashed and
\* written after (services/phase4.py:125-135).  It says nothing of how many codes
\* were tried: overlapping tries count as one.
AttemptsBounded ==
    \A c \in Challenges : challenges[c] # NoRow =>
        /\ challenges[c].attempts <= MaxAttempts
        /\ challenges[c].status = "verified" => challenges[c].attempts > 0

\* One live account per number and one profile per account, also when two logins of
\* a new number overlap: the one that loses uq_users_org_phone leaves neither user
\* nor profile behind (services/phase4.py:137-151).
AccountsSound ==
    /\ \A u, v \in Users : Active(u) /\ Active(v) /\ users[u].phone = users[v].phone => u = v
    /\ \A p \in Profiles : profiles[p] # NoRow =>
            \E u \in Users : users[u] # NoRow /\ users[u].profile = p
    /\ \A u, v \in Users : users[u] # NoRow /\ users[v] # NoRow /\ users[u].profile = users[v].profile
            => u = v

\* No code is texted to a number within the resend interval of any challenge stored
\* for it, whatever the order they were stored in (services/phase4.py:89-96).  Two
\* requests that overlap may text twice: neither sees the other's challenge.
TextsSpaced ==
    [][\A l \in Logins : logins[l].pc = "idle" /\ logins'[l].pc = "store" =>
          \A c \in SentTo(logins'[l].phone) : challenges[c].created + RetryAfter <= now]_accountVars

\* A deleted account stays deleted, with the profile it had, also when a login that
\* found it alive commits after the deletion (services/phase4.py:152-158, 383-387).
DeletionFinal ==
    [][\A u \in Users : users[u] # NoRow =>
          /\ users'[u] # NoRow /\ users'[u].profile = users[u].profile
          /\ users[u].deleted => users'[u].deleted]_accountVars

\* Every request is answered: the locks that logins of one code, logins of one user
\* and a deletion take never make two of them wait for each other
\* (services/phase4.py:115-172, 383-387; api/routes/phase4.py:67-81).
LoginsEnd == \A l \in Logins : logins[l].pc # "idle" ~> logins[l].pc = "idle"
=============================================================================
