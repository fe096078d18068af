-------------------------- MODULE SnapshotHistory --------------------------
(***************************************************************************)
(* What commit() promises (ADR-0006): a history of revisions, each one a   *)
(* picture of the configuration and of the whole ledger at one moment, so  *)
(* that a revision can be recomputed for ever from the ledger cut at its   *)
(* watermark.                                                              *)
(***************************************************************************)
EXTENDS Naturals, Sequences

CONSTANT Items

VARIABLES
    facts,    \* how many entries the ledger has
    history   \* the revisions

Init == facts = 0 /\ history = <<>>

Append1 == facts' = facts + 1 /\ UNCHANGED history

Commit(items) ==
    /\ history' = Append(history, [items |-> items, facts |-> facts])
    /\ UNCHANGED facts

Next == Append1 \/ \E items \in SUBSET Items : Commit(items)

Spec == Init /\ [][Next]_<<facts, history>>
=============================================================================
