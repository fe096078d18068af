------------------------------ MODULE MCEngine ------------------------------
(* A small book of each shape for Engine: sales and costs with VAT, a      *)
(* balance and the interest it feeds back to itself.                       *)
EXTENDS FormulaOracle, Introspection

CONSTANTS sales, costs, interest, balance, misc, rev, cost, fin, ev1, ev2

Share(value, basis, offset, adjust, withholding) ==
    [kind |-> "share", value |-> value, basis |-> basis, offset |-> offset,
     adjust |-> adjust, withholding |-> withholding]
Fixed(kind, value, offset) ==
    [kind |-> kind, value |-> value, basis |-> "accrual", offset |-> offset,
     adjust |-> "next", withholding |-> 0]

HalfAtMonthEnd == <<Share(2, "accrual", 0, "none", 1), Share(2, "month_end", 0, "next", 0)>>
DepositFirst == <<Fixed("amount", 3, 0), Fixed("remainder", 0, 1)>>
EarlyLeg == <<Share(4, "accrual", 0, "prev", 0)>>
Misstated == <<Share(3, "accrual", 0, "none", 0)>>

Standard(rate, recoverable) ==
    [rate |-> rate, recoverable |-> recoverable, treatment |-> "standard"]
ReverseCharge == [rate |-> 1, recoverable |-> 4, treatment |-> "reverse_charge"]

Segment(start, end, every, amount, probability, adjust) ==
    [start |-> start, end |-> end, every |-> every, amount |-> amount, schedule |-> None,
     escalation |-> None, probability |-> probability, adjust |-> adjust]
Escalating(segment, rate, anchor) ==
    [segment EXCEPT !.escalation = [rate |-> rate, every |-> 1, anchor |-> anchor]]
Scheduled(pairs, probability) ==
    [Segment(0, None, 1, 0, probability, "prev") EXCEPT !.schedule = pairs]

Flow(tag, direction, segments, settlement, vat) ==
    [kind |-> "flow", tag |-> tag, direction |-> direction, segments |-> segments,
     formula |-> None, settlement |-> settlement, vat |-> vat]

Ref(fn, of, measure, rate) ==
    [fn |-> fn, of |-> of, measure |-> measure, rate |-> rate, init |-> 5]
Formula(kind, tag, refs, settlement) ==
    [kind |-> kind, tag |-> tag, direction |-> None, segments |-> <<>>,
     formula |-> refs, settlement |-> settlement, vat |-> None]

Sales == Flow(rev, "in", <<Escalating(Segment(0, None, 2, 8, 4, "prev"), 2, "calendar_year")>>, HalfAtMonthEnd, Standard(1, 4))
Costs == Flow(cost, "out", <<Segment(1, 5, 2, -7, 3, "none")>>, DepositFirst, Standard(2, 3))
Interest == Formula("derived", fin, {Ref("prev", balance, "cash", -1)}, None)
Balance == Formula("stock", None,
    {Ref("prev", balance, "cash", 4), Ref("agg", rev, "cash", 4),
     Ref("agg", cost, "cash", 4), Ref("it", interest, "cash", 4)}, None)

TheBook == (sales :> Sales) @@ (costs :> Costs) @@ (interest :> Interest) @@ (balance :> Balance)
TheBooks == {TheBook}

Event(id, day, amount, item, tag, settlement, vat) ==
    [id |-> id, day |-> day, amount |-> amount, actual |-> TRUE, item |-> item, tag |-> tag,
     settlement |-> settlement, vat |-> vat]
Ledgers ==
    {{},
     {Event(ev1, 0, 6, sales, rev, None, None),
      Event(ev2, 3, -2, None, cost, DepositFirst, Standard(3, 2))},
     {Event(ev1, 1, 5, sales, rev, <<>>, Standard(3, 4)), Event(ev2, 1, 4, balance, rev, None, None)}}

TheReplacements ==
    (sales :> {[Sales EXCEPT !.vat = None], [Sales EXCEPT !.tag = cost],
               [Sales EXCEPT !.settlement = Misstated],
               Formula("derived", rev, {Ref("it", costs, "accrual", -2)}, HalfAtMonthEnd)})
    @@ (costs :> {[Costs EXCEPT !.vat = ReverseCharge], [Costs EXCEPT !.vat = None],
                  [Costs EXCEPT !.vat.rate = Unknown],
                  [Costs EXCEPT !.segments =
                     <<Escalating(Segment(-2, None, 1, -8, 4, "next"), 1, "segment_start"),
                       Scheduled({[day |-> 2, amount |-> 9], [day |-> 4, amount |-> -5]}, 3)>>]})
    @@ (interest :> {[Interest EXCEPT !.settlement = EarlyLeg],
                     [Interest EXCEPT !.formula = {Ref("it", balance, "cash", -1)}],
                     [Interest EXCEPT !.formula = {Ref("agg", TaxTag, "cash", 1)},
                                      !.vat = Standard(1, 4)]})
    @@ (balance :> {[Balance EXCEPT !.formula = @ \cup {Ref("agg", TaxTag, "cash", 4)}],
                    [Balance EXCEPT !.formula = {Ref("cum", sales, "cash", 4),
                                                 Ref("cum", interest, "accrual", 2)}]})

Quarterly == [measure |-> "accrual", length |-> 2, offset |-> 1, surcharge |-> 0, refunds |-> {}]
PerCash == [measure |-> "cash", length |-> 3, offset |-> 0, surcharge |-> 1, refunds |-> {5}]
TheRegimes == {Quarterly, PerCash}
-----------------------------------------------------------------------------
(* Formula texts, as the trees Python reads in them.                       *)

Whole(n) == Number(Ratio(n, 1))
Of(fn, item, measure) == Call(fn, <<Text(item)>>, <<Named("measure", Text(measure))>>)
Bin(op, left, right) == Node("BinOp", op, <<left, right>>)
Cmp(op, left, right) == Node("Compare", op, <<left, right>>)
Un(op, operand) == Node("UnaryOp", op, <<operand>>)
P(key) == Attribute("p", key)
T(field) == Attribute("t", field)
Earlier(item, lag, init) ==
    Call("prev", <<Text(item)>>, <<Named("n", Whole(lag)), Named("init", init), Named("measure", Text("accrual"))>>)
Where(condition, then, otherwise) == Call("where", <<condition, then, otherwise>>, <<>>)

SalesCash == Of("it", sales, "cash")
CostsCash == Of("it", costs, "cash")
Above == Cmp(">", SalesCash, Whole(0))
Never == Bin("/", Whole(1), Whole(0))

\* Accepted: every node, each operator between rates, money and masks.
TheAccepted == {
    Bin("*", P("fee"), SalesCash),
    Bin("*", SalesCash, CostsCash),
    Bin("+", Bin("*", P("fee"), P("opening_balance")), Above),
    Bin("/", SalesCash, P("fee")),
    Bin("/", SalesCash, Number(Ratio(3, 2))),
    Bin("/", SalesCash, CostsCash),
    Bin("*", Bin("/", Whole(1), Whole(12)), T("index")),
    Bin("*", Never, SalesCash),
    Bin("/", CostsCash, Bin("-", P("fee"), P("fee"))),
    Where(Above, Bin("/", CostsCash, SalesCash), Never),
    Where(Cmp("<=", Never, P("fee")), SalesCash, Un("neg", CostsCash)),
    Un("neg", Earlier(balance, 2, Un("neg", Number(Ratio(7, 4))))),
    Earlier(sales, 1, P("opening_balance")),
    Bin("-", Of("cum", sales, "accrual"), T("index")),
    Call("agg", <<Text(rev)>>, <<>>),
    Cmp("!=", Call("agg", <<>>, <<Named("tag", Text(rev)), Named("measure", Text("accrual"))>>), T("month")),
    Node("BoolOp", "and", <<Above, T("is_business_day"), Un("not", Never)>>),
    Node("BoolOp", "or", <<T("is_quarter_end"), SalesCash>>),
    Call("round_", <<Bin("*", P("fee"), Of("it", balance, "cash"))>>, <<Named("ndigits", Whole(0))>>),
    Call("clip", <<SalesCash, Whole(0), P("fee")>>, <<>>),
    Call("min", <<SalesCash, Un("pos", P("fee")), Above>>, <<>>),
    Call("max", <<Never, CostsCash>>, <<>>),
    Bin("+", [node |-> "Constant", type |-> "bool", truth |-> TRUE], SalesCash),
    Call("abs_", <<Un("neg", P("fee"))>>, <<>>),
    Bin("+", Un("not", SalesCash), P("fee")),
    Cmp("==", P("fee"), Un("not", Above))}

\* Refused, each for a reason of its own.
TheRefused == {
    [node |-> "SyntaxError"], [node |-> "Other"], NameOf("sales"), Text("sales"),
    [node |-> "Constant", type |-> "none"],
    Whole(2000), Bin("**", SalesCash, Whole(2)), P("Bad"), T("year"), Attribute("q", "fee"),
    [node |-> "Attribute", base |-> P("fee"), attr |-> "fee"],
    [Cmp("<", Whole(0), SalesCash) EXCEPT !.ops = <<"<", "<">>],
    Call("if_", <<Above, SalesCash, CostsCash>>, <<>>), Call("min", <<SalesCash>>, <<>>),
    [node |-> "Attribute", base |-> SalesCash, attr |-> "fee"], Of("it", "No item", "cash"), Of("cum", sales, "profit"), Call("agg", <<>>, <<>>),
    Call("agg", <<Text(rev)>>, <<Named("tag", Text(rev))>>),
    Earlier(sales, 0, Whole(0)), Earlier(sales, 1, SalesCash), Earlier(sales, 1, P("Bad")),
    Where(Above, SalesCash, P("Bad")),
    Call("round_", <<SalesCash>>, <<Named("ndigits", Whole(7))>>),
    Call("it", <<Text(sales)>>, <<Named("unit", Text("cash"))>>)}

TheSources == TheAccepted \cup TheRefused

TheParams == [fee |-> Ratio(5, 8)]
TheOpening == Ratio(3, 1)
TheIdentifiers == {sales, costs, interest, balance, "fee", "opening_balance"}
TheSelectors == {rev, cost, fin}
=============================================================================
