------------------------------ MODULE MCImports ------------------------------
(* Small instances of Imports for TLC: two months, amounts of a few cents. *)
EXTENDS Imports, TLC

rent == <<"rent">>
wage == <<"wage">>
NoCheck == [ref |-> "A1", measure |-> "net", period |-> None, items |-> {},
            since |-> None, until |-> None]

(* An empty book, one with a rent of its own, and one that has nothing but *)
(* a scenario with the file's name.                                        *)
EmptyBook == [opening |-> 0, horizon |-> 1..2, base |-> <<>>, forks |-> <<>>, ledger |-> {}]
WithRent == [EmptyBook EXCEPT !.base = rent :> Constantly(-3, 1, 3)]
WithFork == [EmptyBook EXCEPT !.forks = <<"budget", 1>> :> <<>>]
SmallBooks == {EmptyBook, WithRent, WithFork}

(* The sheet: a monthly total, the rent as a positive number, a balance.   *)
SmallSheet == [A1 |-> -5, B1 |-> 5, C1 |-> 4, D1 |-> Text]
TotalOfMonth == [NoCheck EXCEPT !.period = 1]
RentOfMonth == [NoCheck EXCEPT !.ref = "B1", !.measure = "items_total", !.items = {rent}, !.period = 2]
Balance == [NoCheck EXCEPT !.ref = "C1", !.measure = "closing", !.period = 2]
Stated(cell, amount) == [cell |-> cell, amount |-> amount]
InCell(cell) == Stated(cell, None)
SmallPlans ==
    {[checks |-> <<RentOfMonth, TotalOfMonth>>, sections |-> 1, opening |-> InCell("C1"), horizon |-> <<1, 3>>],
     [checks |-> <<RentOfMonth, Balance>>, sections |-> 2, opening |-> Stated("D1", 4), horizon |-> None],
     [checks |-> <<Balance>>, sections |-> 1, opening |-> Stated(None, 4), horizon |-> None]}

(* The right rent; one a cent off; a change to it; a change to a line that *)
(* may be the user's, with an operation no model may name; the same        *)
(* one-off twice.                                                          *)
SmallAnswers ==
    {<<AddItem(rent, -5, 1, 3)>>, <<AddItem(rent, -4, 1, 3)>>,
     <<SetAmount(rent, -5, 2), SetHorizon(1, 2)>>, <<SetAmount(wage, 2, 1), AddEvent(-5, 1), AddEvent(-5, 1)>>}

(* Meanwhile the user sets the rent, takes the name, or accepts a card     *)
(* that begins with the same payment.                                      *)
First(op) == [op |-> op, place |-> 1]
SmallMoves == {First(AddItem(rent, 2, 1, 3)), First(ForkScenario(<<"budget", 1>>)), First(AddEvent(-5, 1))}
=============================================================================
