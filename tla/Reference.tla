----------------------------- MODULE Reference -----------------------------
(* The reference engine (reference/engine.py): the oracle that evaluates   *)
(* one item and one day at a time.  The compiled book, the facts, the      *)
(* calendar and the escalation factors are shared with the engine; the     *)
(* arithmetic, the splits, VAT and the tax returns are its own.            *)
EXTENDS Engine

\* The one declared rounding boundary.
Quantized(n, d) ==
    LET top == IF d < 0 THEN -n ELSE n
        bottom == Magnitude(d)
        below == top \div bottom
        twice == 2 * (top - below * bottom)
        up == IF Policy = "half_up" THEN top > 0 ELSE below % 2 = 1
    IN IF twice > bottom \/ (twice = bottom /\ up) THEN below + 1 ELSE below

(* Mutant: each part is rounded on its own.                                *)
PartsRounded(total, weights, whole) ==
    [k \in DOMAIN weights |-> Quantized(total * weights[k], whole)]

\* A total in proportion to some weights, the last part taking what is left.
Parts(total, weights, whole) ==
    LET part(k) == Quantized(total * weights[k], whole)
        last == Len(weights)
        taken[k \in 0 .. (last - 1)] == IF k = 0 THEN 0 ELSE taken[k - 1] + part(k)
    IN [k \in DOMAIN weights |-> IF k = last THEN total - taken[last - 1] ELSE part(k)]

\* One accrual split into the legs of a settlement, before withholding.
SplitOracle(settlement, kind, accrued) ==
    LET value == [k \in DOMAIN settlement |-> settlement[k].value]
        rest(k) == settlement[k].kind = "remainder"
        leftover == accrued - TermTotal(settlement, "amount")
    IN IF kind = "shares" THEN Parts(accrued, value, RateScale)
       ELSE [k \in DOMAIN settlement |->
               CASE accrued < 0 /\ rest(k) -> accrued
                 [] accrued < 0 /\ ~rest(k) -> 0
                 [] accrued >= 0 /\ rest(k) -> IF leftover < 0 THEN 0 ELSE leftover
                 [] accrued >= 0 /\ ~rest(k) -> value[k]]

WarningsOracle(settlement, kind, accrued) ==
    LET fixed == TermsOf(settlement, "amount") IN
    IF kind # "fixed" THEN {}
    ELSE {code \in {"CK-W001", "CK-W002"} :
            IF accrued < 0 THEN code = "CK-W002" /\ fixed # {}
            ELSE code = "CK-W001" /\ accrued < TermTotal(settlement, "amount")}

\* An event's VAT replaces its item's only where the item has VAT itself.
RuleOracle(book, i, carrier) ==
    LET own == book.items[i].item.vat IN
    IF carrier.vat = None \/ own = None THEN NoVat
    ELSE IF own.rate = Unknown THEN NoVat
    ELSE ResolveVat(carrier.vat, carrier.direction)

VatOracle(rule, accrued) ==
    LET line == Quantized(accrued * rule.rate, RateScale)
        sale == OutputSide(rule, accrued)
        selfAssessed == rule.treatment = "reverse_charge"
    IN IF Inert(rule) THEN [cash |-> 0, output |-> 0, input |-> 0]
       ELSE [cash   |-> IF selfAssessed THEN 0 ELSE line,
             output |-> CASE selfAssessed -> IF sale THEN 0 ELSE -line
                          [] ~selfAssessed -> IF sale THEN line ELSE 0,
             input  |-> IF sale THEN 0 ELSE Quantized(line * rule.recoverable, RateScale)]

\* VAT over the legs of its line; legs that cancel out take none of it.
AllocateOracle(total, legs) ==
    IF Len(legs) > 1 /\ Sum(legs) = 0 THEN [k \in DOMAIN legs |-> 0]
    ELSE Parts(total, legs, IF Sum(legs) = 0 THEN 1 ELSE Sum(legs))

\* Where one accrual goes: its VAT on its day, its legs on theirs.
SettleOracle(settlement, kind, rule, day, accrued) ==
    LET vat == VatOracle(rule, accrued)
        onCash(amount, output, input, target) ==
            <<Posting("cash", target, amount), Posting("outputCash", target, output),
              Posting("inputCash", target, input)>>
        legs == SplitOracle(settlement, kind, accrued)
        net(k) == legs[k] - Quantized(legs[k] * settlement[k].withholding, RateScale)
        cash == AllocateOracle(vat.cash, legs)
        output == AllocateOracle(vat.output, legs)
        input == AllocateOracle(vat.input, legs)
    IN <<Posting("outputAccrual", day, vat.output), Posting("inputAccrual", day, vat.input)>>
       \o (CASE kind \in {"never", "invalid"} -> <<>>
             [] kind = "immediate" -> onCash(accrued + vat.cash, vat.output, vat.input, day)
             [] Splits(kind) ->
                  FlattenSeq([k \in DOMAIN settlement |->
                                onCash(net(k) + cash[k], output[k], input[k],
                                       LegTarget(settlement[k], day))]))

\* Settling an accrual already in its column.
Settled(env, book, i, carrier, day, accrued) ==
    LET kind == Classify(carrier.settlement) IN
    [columns |-> [env.columns EXCEPT ![i] =
        Posted(@, SettleOracle(carrier.settlement, kind, RuleOracle(book, i, carrier), day, accrued))],
     notes |-> [env.notes EXCEPT ![i] = @ \cup WarningsOracle(carrier.settlement, kind, accrued)]]

Accrued(env, book, i, carrier, day, amount) ==
    Settled([env EXCEPT !.columns[i]["accrual"][day] = @ + amount], book, i, carrier, day, amount)
-----------------------------------------------------------------------------
(* Generated occurrences and ledger facts.                                 *)

\* The steps completed, walking the anniversaries one by one.
StepsWalked(segment, day) ==
    LET walked[step \in Nat] ==
        IF day < Boundary(segment, step + 1) THEN step ELSE walked[step + 1]
    IN walked[0]

AmountOracle(segment, day) ==
    LET base == BaseAmount(segment, day)
        steps == IF segment.escalation = None THEN 0 ELSE StepsWalked(segment, day)
        escalated == IF steps = 0 THEN base
                     ELSE Quantized(base * (RateScale + segment.escalation.rate) ^ steps,
                                    RateScale ^ steps)
    IN IF segment.probability = RateScale THEN escalated
       ELSE Quantized(escalated * segment.probability, RateScale)

ExpandOracle(env, book, i) ==
    LET item == book.items[i].item
        noted == [env EXCEPT !.notes[i] = @ \cup ClassifyNotes(item.settlement)]
    IN FoldLeft(LAMBDA done, o :
                  LET day == Adjust(o.day, o.segment.adjust) IN
                  IF day \notin Days \/ day < Cutover THEN done
                  ELSE Accrued(done, book, i, item, day, AmountOracle(o.segment, o.day)),
                noted, Occurrences(item))

FactOracle(env, book, fact) ==
    IF fact.event.day \notin Days THEN env
    ELSE Accrued([env EXCEPT !.notes[fact.target] = @ \cup ClassifyNotes(fact.carrier.settlement)],
                 book, fact.target, fact.carrier, fact.event.day, fact.event.amount)

Generative(book) ==
    {i \in DOMAIN book.items :
        ~book.items[i].broken /\ ~Derived(book.items[i].item) /\ i \notin book.taxed}

ExpandedOracle(book, facts) ==
    LET blank == [columns |-> [i \in DOMAIN book.items |-> Zeros],
                  notes   |-> [i \in DOMAIN book.items |-> {}]]
        expanded == FoldSet(LAMBDA i, done : ExpandOracle(done, book, i), blank, Generative(book))
    IN FoldSet(LAMBDA fact, done : FactOracle(done, book, fact), expanded, facts.facts)
-----------------------------------------------------------------------------
(* Derived items, period by period, and the tax returns.                   *)

TermOracle(env, book, term, day) ==
    LET total(t) == MapThenSumSet(LAMBDA i : Read(env, book.items, i, term.ref.measure)[t], term.members)
        value == CASE term.ref.fn = "cum" -> MapThenSumSet(total, 0 .. day)
                   [] term.ref.fn = "prev" -> IF day = 0 THEN term.ref.init ELSE total(day - 1)
                   [] term.ref.fn \in {"it", "agg"} -> total(day)
    IN Quantized(value * term.ref.rate, RateScale)

CellOracle(env, book, i, day) ==
    [env EXCEPT !.columns[i]["accrual"][day] =
        MapThenSumSet(LAMBDA term : TermOracle(env, book, term, day), book.items[i].expr)]

SettleCell(env, book, i, day) ==
    LET item == book.items[i].item IN
    IF item.kind = "stock" THEN env
    ELSE Settled(env, book, i, item, day, env.columns[i]["accrual"][day])

\* A level has a settlement to classify but none to follow.
NotedOracle(env, book, i) ==
    [env EXCEPT !.notes[i] = @ \cup ClassifyNotes(book.items[i].item.settlement)]

DaysInOrder == [n \in 1 .. Horizon |-> n - 1]

TrivialOracle(env, book, i) ==
    LET cells == FoldLeft(LAMBDA done, day : CellOracle(done, book, i, day),
                          NotedOracle(env, book, i), DaysInOrder)
    IN FoldLeft(LAMBDA done, day : SettleCell(done, book, i, day), cells, DaysInOrder)

FoldOracle(env, book, component) ==
    LET members == InOrder(FoldMembers(book, component), book.same)
        noted == FoldLeft(LAMBDA done, i : NotedOracle(done, book, i), env, members)
        period(start, day) ==
            FoldLeft(LAMBDA done, i : SettleCell(CellOracle(done, book, i, day), book, i, day),
                     start, members)
    IN FoldLeft(period, noted, DaysInOrder)

\* One return: what is due, less the credit carried, paid later.
ReturnOracle(env, base, carried, close) ==
    LET net(t) == MapThenSumSet(LAMBDA i :
            IF regime.measure = "accrual"
            THEN env.columns[i]["outputAccrual"][t] + env.columns[i]["inputAccrual"][t]
            ELSE env.columns[i]["outputCash"][t] + env.columns[i]["inputCash"][t], base)
        due == MapThenSumSet(net, (close - regime.length + 1) .. close)
        applied == IF carried.credit < due THEN carried.credit ELSE due
        payable == due - applied
        owed == payable + Quantized(payable * regime.surcharge, RateScale)
        credit == IF due < 0 THEN carried.credit - due ELSE carried.credit - applied
        refund == IF close \in regime.refunds THEN credit ELSE 0
        movement == refund - (IF due < 0 THEN 0 ELSE owed)
    IN [credit |-> credit - refund,
        level  |-> [t \in Days |-> IF t < close THEN carried.level[t] ELSE credit - refund],
        moved  |-> [carried.moved EXCEPT ![close] = @ + movement],
        paid   |-> IF close + regime.offset \in Days
                   THEN [carried.paid EXCEPT ![close + regime.offset] = @ + movement]
                   ELSE carried.paid]

TaxOracle(env, book, i) ==
    LET none == [t \in Days |-> 0]
        base == TaxBase([j \in DOMAIN book.items |-> book.items[j].item])
        closes == SelectSeq(DaysInOrder, LAMBDA t : (t + 1) % regime.length = 0)
        filed == FoldLeft(LAMBDA done, close : ReturnOracle(env, base, done, close),
                          [credit |-> 0, level |-> none, moved |-> none, paid |-> none], closes)
    IN IF book.items[i].broken THEN env
       ELSE [env EXCEPT !.columns[i]["accrual"] = IF i = Credit THEN filed.level ELSE filed.moved,
                        !.columns[i]["cash"] = IF i = Credit THEN @ ELSE filed.paid]

ComponentOracle(env, book, component) ==
    LET one == CHOOSE i \in component : TRUE IN
    IF Cyclic(component, book.edges) THEN FoldOracle(env, book, component)
    ELSE IF one \in book.taxed THEN TaxOracle(env, book, one)
    ELSE IF book.items[one].expr = {} THEN env
    ELSE TrivialOracle(env, book, one)

Oracle(book, facts) ==
    FoldLeft(LAMBDA done, component : ComponentOracle(done, book, component),
             ExpandedOracle(book, facts), book.components)
-----------------------------------------------------------------------------
\* Events that give VAT to an item without any: the oracle drops it.
GivenVat ==
    {f.target : f \in {g \in factset.facts :
        /\ g.carrier.vat # None
        /\ RuleOracle(compiled, g.target, g.carrier)
             # ResolveVat(g.carrier.vat, g.carrier.direction)}}

(* "byte-identical to cashkit.reference.run on the same book and events"   *)
(* (run.py): the columns of the engine, kept from one replacement to the   *)
(* next, and its diagnostics are those the oracle finds one item and one   *)
(* day at a time, but for what depends on an event that gives VAT to an    *)
(* item without any.                                                       *)
OracleAgrees ==
    primed /\ factset = ResolveFacts(AuthoredNow, events) =>
        \A oracle \in {Oracle(compiled, factset)} :
        \A i \in DOMAIN compiled.items \ Downstream(compiled, GivenVat) :
            columns[i] = oracle.columns[i] /\ notes[i] = oracle.notes[i]
=============================================================================
