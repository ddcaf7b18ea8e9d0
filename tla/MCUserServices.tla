--------------------------- MODULE MCUserServices ---------------------------
(***************************************************************************)
(* UserServices, with Accounts below it, for TLC.  A behaviour exercises   *)
(* the logins or the services of one account.  The two share no table but  *)
(* users, and all the services see of it is that an account is deleted, so *)
(* a behaviour of the services begins with an account and may delete it.   *)
(***************************************************************************)
EXTENDS UserServices

CONSTANTS
    ph1, u1, u2, q1, q2, c1, c2, c3, g1, g2, l1, l2, s1, doc1, k1, k2, r1, r2,
    MaxLogins,      \* bound: requests of Accounts in one behaviour
    MaxCalls        \* bound: requests of UserServices in one behaviour

\* The account a behaviour of the services begins with, and the handler that may delete it.
ASSUME StartAssumption == u1 \in Users /\ ph1 \in Phones /\ q1 \in Profiles /\ l1 \in Logins

VARIABLES focus, started

\* Both actions of the device change one document.
MCChangeOf == [k \in Keys |-> [doc |-> doc1, status |-> IF k = k1 THEN "gathered" ELSE "not_gathered"]]

\* An account opened before the behaviour begins.
Opened ==
    /\ now = 0
    /\ challenges = [c \in Challenges |-> NoRow]
    /\ users = [u \in Users |-> IF u = u1 THEN [phone |-> ph1, profile |-> q1, deleted |-> FALSE] ELSE NoRow]
    /\ profiles = [p \in Profiles |-> IF p = q1 THEN [opener |-> Null, migrated |-> {}] ELSE NoRow]
    /\ logins = [l \in Logins |-> Idle]

MCInit ==
    /\ \/ focus = "logins" /\ Init
       \/ focus = "services" /\ Opened
    /\ NoServicesYet
    /\ started = 0

Arrives(bound) == started < bound /\ started' = started + 1

LoginNext ==
    /\ focus = "logins"
    /\ \/ Tick /\ UNCHANGED started
       \/ \E l \in Logins : Starts(l) /\ Arrives(MaxLogins)
       \/ \E l \in Logins : (Continues(l) \/ Rollback(l)) /\ UNCHANGED started
    /\ UNCHANGED <<serviceVars, focus>>

ServiceNext ==
    /\ focus = "services"
    /\ \/ \E r \in Calls : Calling(r) /\ Arrives(MaxCalls) /\ UNCHANGED accountVars
       \/ \E r \in Calls : (Serving(r) \/ Abandon(r)) /\ UNCHANGED <<accountVars, started>>
       \/ /\ DeleteStart(l1, u1) \/ DeleteCommit(l1)
          /\ UNCHANGED <<serviceVars, started>>
    /\ UNCHANGED focus

MCSpec == MCInit /\ [][LoginNext \/ ServiceNext]_<<vars, focus, started>> /\ Fairness
=============================================================================
