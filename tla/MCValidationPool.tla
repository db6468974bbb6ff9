--------------------------- MODULE MCValidationPool ---------------------------
(***************************************************************************)
(* Instances of ValidationPool for TLC.                                    *)
(***************************************************************************)
EXTENDS ValidationPool, TLC

CONSTANTS w1, w2, c1, c2, c3, small, wide, broken, k1, k2, k3

MCWorkers == {w1, w2}
MCCallers == {c1, c2, c3}
MCKeys == {k1, k2, k3}

\* small is accepted by every API, wide only by the one that does not count its
\* lower level, broken by none.
MCSchemas == {small, wide, broken}
MCCompilable == {small, wide}
MCLevels == small :> <<1>> @@ wide :> <<1, 1, 3>> @@ broken :> <<1>>
MCSchemaKey == small :> k1 @@ wide :> k2 @@ broken :> k3
MCMaxSchemaDepth == c1 :> 1 @@ c2 :> 2 @@ c3 :> 2
MCMaxComplexity == 3
MCOutcomes == MCSchemas \cup {"error"}

\* The workers are interchangeable, and so are the callers with equal limits.
Symmetry == Permutations(MCWorkers) \cup Permutations({c2, c3})
=============================================================================
