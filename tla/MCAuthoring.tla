---------------------------- MODULE MCAuthoring ----------------------------
(* Eight days in three months of three, two and three days; a rent, a loan, *)
(* scenarios s and t over base, one of them with additions and overlays of *)
(* its own, and a name, f, for one more.                                   *)
EXTENDS Authoring, TLC

MCMonths == <<3, 2>>
MCFields == {"direction", "segments", "tags", "agg_rule"}

Monthly(start, end, amount) ==
    [start |-> start, end |-> end, anchor |-> Absent, amount |-> amount, schedule |-> Absent]
Dated(entries) ==
    [start |-> 1, end |-> Absent, anchor |-> Absent, amount |-> 0, schedule |-> entries]
Item(segment, kind, rule) ==
    [direction |-> "out", segments |-> <<segment>>, tags |-> [kind |-> kind], agg_rule |-> rule]

Rent == Item(Monthly(1, Absent, -2), "fixed", "sum")
RentLess == Item(Monthly(2, 7, -1), "fixed", "sum")
Loan == Item(Dated(<<[day |-> 2, amount |-> -1], [day |-> 6, amount |-> -3]>>), "debt", "last")
WrongSign == Item(Monthly(1, Absent, 1), "fixed", "sum")
MCItemValues == {RentLess, Loan, WrongSign}

MCTagChanges == {[kind |-> "debt"]}
MCSelectors == {[kind |-> "fixed"]}

Known(name) == [imported |-> name]
Event(name, day, status) == [id |-> Known(name), date |-> day, amount |-> 1, status |-> status]

Book == [items |-> [rent |-> Rent], params |-> [fx |-> 1], opening |-> 5,
         cutover |-> 2, horizon |-> [start |-> 1, end |-> 9]]
Ledger == <<Event("paid", 1, "actual"), Event("due", 6, "forecast")>>

KitOf(s, t) ==
    [set |-> [book |-> Book,
              scenarios |-> ("base" :> EmptyScenario(NoParent)) @@ ("s" :> s) @@ ("t" :> t)],
     rows |-> Ledger, voided |-> {}]

OverRent == [EmptyScenario("base") EXCEPT
    !.items = "rent" :> [segments |-> <<Monthly(1, Absent, -3)>>],
    !.params = OpeningBalance :> 7]
WithLoan == [EmptyScenario("base") EXCEPT !.added = "loan" :> Loan]
WithoutRent == [EmptyScenario("s") EXCEPT !.removed = {"rent"}, !.params = "fx" :> 2]
OverBoth == [EmptyScenario("s") EXCEPT
    !.items = ("loan" :> [tags |-> [kind |-> "fixed"]]) @@ ("rent" :> [agg_rule |-> "last"]),
    !.events = Known("due") :> [date |-> 7]]

MCKits == {KitOf(OverRent, WithoutRent), KitOf(WithLoan, OverBoth)}

-----------------------------------------------------------------------------
Card(ops, scenario) ==
    [ops |-> ops, scenario |-> scenario, context |-> Absent, accounting |-> 3, today |-> 4]
Day(d) == [day |-> d]
Month(m) == [month |-> m]
AddItem(start, end) == [op |-> "add_item", item |-> "loan", direction |-> "out",
                        tags |-> [kind |-> "fixed"], start |-> start, end |-> end,
                        anchor |-> Absent, amount |-> 1]
SetAmountOf(i, from) == [op |-> "set_amount", item |-> i, from |-> from, amount |-> 4]
Schedule(action, day, new, amount) ==
    [op |-> "edit_schedule_date", item |-> "loan", action |-> action, date |-> day,
     new |-> new, amount |-> amount]
Entry(op, day) == [op |-> op, date |-> day, amount |-> 1, direction |-> "out"]

MCCards ==
    {Card(<<SetAmountOf(i, from)>>, s) :
        i \in ItemIds, s \in {"base", "s"}, from \in {Absent, Day(3), Month(2)}}
    \cup {Card(<<AddItem(Month(2), Month(3))>>, "s"),
          [Card(<<AddItem(Month(1), Absent)>>, "base") EXCEPT !.accounting = Eom],
          Card(<<[op |-> "shift_items", selector |-> [kind |-> "fixed"], by |-> 1]>>, "s"),
          Card(<<[op |-> "scale_items", selector |-> [kind |-> "fixed"], factor |-> 3]>>, "t"),
          Card(<<Schedule("add", 4, Absent, 2), Schedule("remove", 2, Absent, Absent)>>, "s"),
          Card(<<Schedule("change", 6, 3, Absent)>>, "t"),
          Card(<<Schedule("change", 5, 3, Absent)>>, "s"),
          Card(<<Entry("add_event", 3), Entry("record_actual", 3)>>, "s"),
          [Card(<<Entry("add_event", 3)>>, "s") EXCEPT !.context = "actuals_record"],
          Card(<<Entry("record_actual", Absent)>>, "s"),
          Card(<<[op |-> "correct_actual", event |-> Known("paid"), amount |-> 2, date |-> 2]>>, "s"),
          Card(<<[op |-> "remove_event", event |-> Known("due")]>>, "s"),
          Card(<<[op |-> "remove_event", event |-> Known("paid")]>>, "s"),
          Card(<<[op |-> "fork_scenario", name |-> "f", parent |-> Absent]>>, "t"),
          Card(<<[op |-> "set_cutover", date |-> Month(2)],
                 [op |-> "set_horizon", start |-> 2, end |-> 8]>>, "base"),
          Card(<<[op |-> "set_horizon", start |-> 2, end |-> 2]>>, "base"),
          Card(<<[op |-> "set_opening_balance", amount |-> 1]>>, "base")}
=============================================================================
