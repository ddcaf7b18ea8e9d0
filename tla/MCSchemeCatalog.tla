--------------------------- MODULE MCSchemeCatalog ---------------------------
(* Instances of SchemeCatalog for TLC. *)
EXTENDS SchemeCatalog, TLC

CONSTANTS s1, s2, o1, o2, c1, c2, d1, r1, r2, w1, w2

NoExclusions == [c \in Criteria |-> {}]
\* c1 excludes nothing, c2 excludes s1.
ExcludesFirst == (c1 :> {}) @@ (c2 :> {s1})

\* The seed file of a run: without seeds; one seed; two, of which the second, as the
\* seed pm_vishwakarma does, excludes the first.
NoSeeds == <<>>
OneSeed == s1 :> c1
TwoSeeds == (s1 :> c1) @@ (s2 :> c2)

Symmetry == Permutations(Requests)
=============================================================================
