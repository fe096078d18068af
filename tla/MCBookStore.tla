---------------------------- MODULE MCBookStore ----------------------------
(* Small instances of BookStore for TLC.                                   *)
EXTENDS RevisionReads, TLC

CONSTANTS w1, w2, rent, base, tax

OneLayout == <<BookFile, rent, ParamsFile, base>>
TwoLayout == <<BookFile, ParamsFile, base>>
EveryScenario == {Scenarios}
AnyScenarios == SUBSET Scenarios
Symmetry == Permutations(Writers)
=============================================================================
