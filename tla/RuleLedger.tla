----------------------------- MODULE RuleLedger -----------------------------
(***************************************************************************)
(* What the scheme catalogue promises about eligibility rules: per scheme, *)
(* a history that only ever grows, one entry at a time, whose last entry   *)
(* is the one in force.                                                    *)
(***************************************************************************)
EXTENDS Naturals, Sequences

CONSTANTS SchemeIds, Criteria

VARIABLES
    ledger,     \* the rules a scheme has had, oldest first
    inforce     \* the entry the matcher uses, 0 for a scheme that does not exist

Init ==
    /\ ledger = [s \in SchemeIds |-> <<>>]
    /\ inforce = [s \in SchemeIds |-> 0]

\* New schemes, each with its first rule.
Open(S, first) ==
    /\ \A s \in S : ledger[s] = <<>>
    /\ ledger' = [s \in SchemeIds |-> IF s \in S THEN <<first[s]>> ELSE ledger[s]]
    /\ inforce' = [s \in SchemeIds |-> IF s \in S THEN 1 ELSE inforce[s]]

\* A new rule for an existing scheme takes the place of the one in force.
Amend(s, c) ==
    /\ ledger[s] # <<>>
    /\ inforce[s] = Len(ledger[s])
    /\ ledger' = [ledger EXCEPT ![s] = Append(@, c)]
    /\ inforce' = [inforce EXCEPT ![s] = @ + 1]

Next ==
    \/ \E S \in SUBSET SchemeIds : \E first \in [S -> Criteria] : Open(S, first)
    \/ \E s \in SchemeIds, c \in Criteria : Amend(s, c)

Spec == Init /\ [][Next]_<<ledger, inforce>>
=============================================================================
