---------------------------- MODULE MCProposals ----------------------------
(* Small instances of Proposals for TLC.                                   *)
EXTENDS Proposals, TLC

CONSTANTS r1, r2, r3, c1, c2, c3, rent, gym, paid

(* A plan change with and without an actual before it; a plan change; two  *)
(* of them.                                                                *)
PlanAndFact == {<<paid, rent>>, <<rent>>}
OnePlan == {<<rent>>}
TwoOps == {<<rent, gym>>}

Symmetry == Permutations(Cards) \cup Permutations(Requests)
=============================================================================
