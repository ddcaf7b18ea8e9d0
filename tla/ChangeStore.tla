----------------------------- MODULE ChangeStore -----------------------------
(***************************************************************************)
(* What the service promises an offline device about its checklist         *)
(* changes: however often, in whatever order and on whichever path a       *)
(* change arrives, its key is recorded once and the change is made at most *)
(* once, together with the recording.  A change made may find that the     *)
(* item it loaded said the same already, and then leaves the list alone.   *)
(***************************************************************************)
EXTENDS Naturals

CONSTANTS
    Keys,       \* idempotency keys
    People,     \* whose lists there are
    Items,      \* what a list has
    ChangeOf,   \* what a key stands for: an item and its new status
    Unlisted    \* the status of an item that is not in the list yet

VARIABLES
    recorded,   \* keys that are spent
    effects,    \* how often a change was made
    lists       \* the status of everybody's items

Init ==
    /\ recorded = {}
    /\ effects = [k \in Keys |-> 0]
    /\ lists = [u \in People |-> [i \in Items |-> Unlisted]]

\* A change is made for somebody, and its key spent.
Make(k, u) ==
    /\ k \notin recorded
    /\ recorded' = recorded \cup {k}
    /\ effects' = [effects EXCEPT ![k] = 1]
    /\ \/ lists' = [lists EXCEPT ![u][ChangeOf[k].doc] = ChangeOf[k].status]
       \/ lists' = lists

\* A batch spends the keys it brings that are not spent, and makes none of their changes.
Keep(K) ==
    /\ K \cap recorded = {}
    /\ recorded' = recorded \cup K
    /\ UNCHANGED <<effects, lists>>

Next ==
    \/ \E k \in Keys, u \in People : Make(k, u)
    \/ \E K \in SUBSET Keys : Keep(K)

Spec == Init /\ [][Next]_<<recorded, effects, lists>>
=============================================================================
