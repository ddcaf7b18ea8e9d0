--------------------------- MODULE MCAgentSession ---------------------------
(***************************************************************************)
(* AgentSession for TLC: profiles and requests are interchangeable.        *)
(***************************************************************************)
EXTENDS AgentSession, TLC

CONSTANTS p1, p2, p3, r1, r2, age, card, v1, v2, child

\* A newborn's profile stores an age of its own.
MCNewborn == [f \in Fields |-> IF f = age THEN v1 ELSE Null]

Interchangeable == Permutations(Profiles) \cup Permutations(Requests)
=============================================================================
