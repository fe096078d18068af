------------------------------ MODULE MCLedger ------------------------------
(* Small instances of Ledger for TLC.                                      *)
EXTENDS Ledger

CONSTANTS e1, e2, e3, bank, x1, x2, s1, s2

Event(name, source, ext, status, amount) ==
    [kind |-> "event", id |-> <<name>>, source |-> source, ext |-> ext, status |-> status,
     amount |-> amount, corrects |-> None]

(* A bank statement row, the same row exported again under another id, the *)
(* same key with another amount, and a plan event with no key.             *)
Statement == Event(e1, bank, x1, "actual", 1)
ReExported == Event(e2, bank, x1, "actual", 1)
Amended == Event(e1, bank, x1, "actual", 2)
Plan == Event(e3, None, None, "forecast", 1)
PlanWithKey == Event(e3, bank, x2, "forecast", 1)
SameIdOtherKey == Event(e1, bank, x2, "actual", 1)
KeylessActual == Event(e1, None, None, "actual", 1)
SelfStyledCorrection == [Plan EXCEPT !.corrects = <<e1>>]

OneWriterRows == {Statement, ReExported, Amended, PlanWithKey}
SharedRows == {Statement, Plan}
ClashingRows == {Statement, SameIdOtherKey}
CorrectingRows == {KeylessActual, SelfStyledCorrection}
PlanRows == {Plan}
StatementRows == {Statement}
=============================================================================
