------------------------------ MODULE FactBook ------------------------------
(***************************************************************************)
(* What the ledger promises its readers: a book of facts, one per name the *)
(* outside world gave it.  A fact is recorded once; recording it again is  *)
(* a no-op.  The record of a fact may be restated any number of times,     *)
(* keeping its status; a fact that has not happened yet may be retired,    *)
(* for good; an actual never is.                                           *)
(***************************************************************************)
CONSTANTS Names, Statuses, Amounts

VARIABLE book

Absent == [status |-> "absent"]
Retired == [status |-> "retired"]
Records == [status : Statuses, amount : Amounts]

Init == book = [n \in Names |-> Absent]

(* A batch of new facts, all at once.                                      *)
Record(news) ==
    \E facts \in [news -> Records] :
        /\ \A n \in news : book[n] = Absent
        /\ book' = [n \in Names |-> IF n \in news THEN facts[n] ELSE book[n]]

Restate(n, amount) ==
    /\ book[n] \in Records
    /\ book' = [book EXCEPT ![n].amount = amount]

Retire(n) ==
    /\ book[n] \in Records
    /\ book[n].status # "actual"
    /\ book' = [book EXCEPT ![n] = Retired]

Next ==
    \/ \E news \in SUBSET Names : Record(news)
    \/ \E n \in Names, a \in Amounts : Restate(n, a)
    \/ \E n \in Names : Retire(n)

Spec == Init /\ [][Next]_book
=============================================================================
