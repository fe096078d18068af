----------------------------- MODULE Introspection -----------------------------
(* Explanations of one cell and of the graph (sdk/introspection.py), made  *)
(* after a run from its columns and from what expansion recorded: trace()  *)
(* rebuilds how a cell came about, why_zero() names the cause of a zero,   *)
(* depends_on() and dependents_of() walk the references.                   *)
EXTENDS ColumnEvaluator

ResultValue(i, measure, day) == columns[i][measure][day]

\* An item's formula as an expression: its terms, one added to the other.
RefExpr(ref) ==
    IF ref.fn = "prev"
    THEN [op |-> "prev", of |-> ref.of, lag |-> 1, init |-> Lit(Ratio(ref.init, Minor)),
          measure |-> ref.measure]
    ELSE [op |-> ref.fn, of |-> ref.of, measure |-> ref.measure]
ExprOf(i) ==
    LET terms == SetToSeq(compiled.items[i].expr)
        term(k) == Op("*", <<Lit(Ratio(terms[k].ref.rate, RateScale)), RefExpr(terms[k].ref)>>)
        sum[k \in DOMAIN terms] == IF k = 1 THEN term(1) ELSE Op("+", <<sum[k - 1], term(k)>>)
    IN sum[Len(terms)]
-----------------------------------------------------------------------------
(* The arithmetic of a formula: a step for each operator, innermost first, *)
(* and a binding for each reference.                                       *)

ValueAt(expr, day) == FormulaColumn(Env, expr, {day})[day].minor

Children(expr) == IF expr.op = "prev" THEN <<expr.init>> ELSE Operands(expr)

RECURSIVE StepNodes(_, _)
StepNodes(expr, root) ==
    FlattenSeq([k \in DOMAIN Children(expr) |-> StepNodes(Children(expr)[k], root)])
    \o (IF Children(expr) = <<>> /\ expr # root THEN <<>> ELSE <<expr>>)

StepFor(expr, day) ==
    [expression |-> Rendered(expr), value |-> ValueAt(expr, day),
     inputs |-> [k \in DOMAIN Children(expr) |->
                   [expression |-> Rendered(Children(expr)[k]),
                    value      |-> ValueAt(Children(expr)[k], day)]]]
FormulaSteps(expr, day) ==
    LET nodes == StepNodes(expr, expr) IN [k \in DOMAIN nodes |-> StepFor(nodes[k], day)]

\* What an aggregate's binding shows: its value, and each member's part.
AggBinding(ref, day) ==
    [symbol |-> Rendered(ref), value |-> ValueAt(ref, day),
     detail |-> [i \in ReadItems(ref) |-> ResultValue(i, ref.measure, day)]]
AggBindings(expr, day) ==
    {AggBinding(ref, day) : ref \in {r \in ToSet(Refs(expr)) : r.op = "agg"}}

\* The items an expression reads, in source order.
Referenced(expr) ==
    FlattenSeq([k \in DOMAIN Refs(expr) |->
        LET read == SetToSeq(ReadItems(Refs(expr)[k])) IN
        [j \in DOMAIN read |-> [item |-> read[j], measure |-> Refs(expr)[k].measure]]])
-----------------------------------------------------------------------------
(* A generated cell: the occurrences expansion recorded for the item, each *)
(* with its amounts on the way from the base to the settled legs.          *)

Recorded(i) ==
    LET item == compiled.items[i].item
        all == SelectSeq(Occurrences(item), LAMBDA o : Live(Line(o)))
    IN [n \in DOMAIN all |->
          LET line == Line(all[n])
              splits == Splits(Classify(item.settlement))
          IN [segment |-> all[n].segment, day |-> line.day,
              base |-> BaseAmount(all[n].segment, all[n].day),
              escalated |-> Escalated(all[n].segment, all[n].day),
              weighted |-> line.amount,
              net |-> IF splits THEN NetLegs(item.settlement, line.amount) ELSE <<>>,
              targets |-> IF splits THEN LegDays(item.settlement, line.day) ELSE <<>>]]

(* Mutant: a cash cell is explained by what accrues on its day.            *)
LandsByAccrual(record, kind, measure, day) ==
    record.day = day /\ (measure = "cash" => kind = "immediate" \/ Splits(kind))

\* Whether a record puts money into a cell.
LandsIn(record, kind, measure, day) ==
    IF measure = "cash" /\ Splits(kind)
    THEN \E k \in DOMAIN record.targets : record.targets[k] = day
    ELSE record.day = day /\ (measure = "cash" => kind = "immediate")

\* The steps of one occurrence; escalation and probability where they apply.
OccurrenceSteps(record, kind, measure, day) ==
    LET landing == SelectSeq([k \in DOMAIN record.net |-> k], LAMBDA k : record.targets[k] = day)
        step(operation, value) == [operation |-> operation, value |-> value]
        legs == measure = "cash" /\ Splits(kind)
        total == IF legs THEN Sum([k \in DOMAIN landing |-> record.net[landing[k]]])
                 ELSE record.weighted
    IN <<step("base amount", record.base)>>
       \o (IF record.segment.escalation = None THEN <<>>
           ELSE <<step("escalation", record.escalated)>>)
       \o (IF record.segment.probability = RateScale THEN <<>>
           ELSE <<step("probability weighting", record.weighted)>>)
       \o (IF legs THEN [k \in DOMAIN landing |-> step("settlement split", record.net[landing[k]])]
           ELSE <<>>)
       \o <<step("segment total", total)>>

GeneratedSteps(i, measure, day) ==
    LET kind == Classify(compiled.items[i].item.settlement)
        landing == SelectSeq(Recorded(i), LAMBDA r : LandsIn(r, kind, measure, day))
    IN FlattenSeq([n \in DOMAIN landing |-> OccurrenceSteps(landing[n], kind, measure, day)])

\* The ledger facts of a cell are looked for on the day they accrue.
EventsLandingOn(i, day) == {f \in FactsOf(factset, i) : f.event.day = day}

GeneratedTotal(i, measure, day) ==
    LET totals == SelectSeq(GeneratedSteps(i, measure, day), LAMBDA s : s.operation = "segment total")
    IN Sum([k \in DOMAIN totals |-> totals[k].value])
-----------------------------------------------------------------------------
(* trace(): the kind of a cell, its steps and whether they add up to it,   *)
(* and the traces of what it reads down to a depth.                        *)

TraceKind(i) ==
    CASE i \in compiled.taxed -> "tax"
      [] i \notin compiled.taxed /\ compiled.items[i].broken -> "empty"
      [] i \notin compiled.taxed /\ ~compiled.items[i].broken ->
           IF compiled.items[i].expr # {} THEN "formula"
           ELSE IF i = Loose THEN "ledger" ELSE "generated"

Reconciles(i, measure, day) ==
    CASE TraceKind(i) = "formula" /\ measure = "accrual" ->
           LET steps == FormulaSteps(ExprOf(i), day) IN
           steps[Len(steps)].value = ResultValue(i, "accrual", day)
      [] TraceKind(i) = "generated" /\ EventsLandingOn(i, day) = {} ->
           GeneratedTotal(i, measure, day) = ResultValue(i, measure, day)
      [] OTHER -> TRUE

\* A key already on the way down to a cell is not traced again below it.
RECURSIVE TraceCell(_, _, _, _, _)
TraceCell(i, day, measure, depth, seen) ==
    LET reads == IF TraceKind(i) = "formula" THEN Referenced(ExprOf(i)) ELSE <<>>
        fresh == SelectSeq(reads, LAMBDA key : key \notin seen)
        child(key) == TraceCell(key.item, day, key.measure, depth - 1, seen \cup {key})
    IN [item |-> i, measure |-> measure, kind |-> TraceKind(i), value |-> ResultValue(i, measure, day),
        children |-> IF depth = 0 THEN <<>> ELSE [k \in DOMAIN fresh |-> child(fresh[k])],
        truncated |-> depth = 0 /\ reads # <<>>]

RECURSIVE ItemsOf(_)
ItemsOf(trace) ==
    {trace.item} \cup UNION {ItemsOf(trace.children[k]) : k \in DOMAIN trace.children}
-----------------------------------------------------------------------------
(* why_zero(): the causes in the order they are tried.                     *)

\* Whether a segment has an occurrence on a day, once it is rolled.
Covers(segment, day) ==
    \E d \in Days : Occurs(segment, d) /\ Adjust(d, segment.adjust) = day
SegmentsCovering(item, day) == {k \in DOMAIN item.segments : Covers(item.segments[k], day)}

Clamped(i) == notes[i] \cap {"CK-W001", "CK-W002"} # {}

LegMissing(i, day) ==
    LET kind == Classify(compiled.items[i].item.settlement) IN
    kind \in {"never", "invalid"} \/ ResultValue(i, "accrual", day) # 0 \/ Clamped(i)

Causes(i, measure, day) ==
    LET item == compiled.items[i].item
        inside == SegmentsCovering(item, day)
        early == IF day < Cutover THEN <<"cutover_suppressed">> ELSE <<>>
        segments == CASE item.segments = <<>> -> <<>>
                      [] item.segments # <<>> /\ inside = {} -> <<"outside_segments">>
                      [] item.segments # <<>> /\ inside # {} ->
                           IF \A k \in inside : item.segments[k].probability = 0
                           THEN <<"probability_zero">> ELSE <<>>
        legs == IF measure = "cash" /\ LegMissing(i, day) THEN <<"no_settlement_leg">> ELSE <<>>
        found == early \o segments \o legs
    IN IF found = <<>> /\ Derived(item) THEN <<"upstream_zero">> ELSE found

WhyZero(i, measure, day) ==
    LET causes == Causes(i, measure, day) IN
    IF ResultValue(i, measure, day) # 0 THEN [cause |-> "not_zero", also |-> causes]
    ELSE IF causes = <<>> THEN [cause |-> "upstream_zero", also |-> <<>>]
    ELSE [cause |-> Head(causes), also |-> Tail(causes)]
-----------------------------------------------------------------------------
(* The reference graph around an item, breadth first.                      *)

AggregateMembers(i) ==
    UNION {term.members : term \in {t \in compiled.items[i].expr : t.ref.fn = "agg"}}

\* What an item reads, and how.
Outgoing(i) ==
    {[source |-> i, target |-> j, relation |-> IF j \in AggregateMembers(i) THEN "aggregate" ELSE "same_period"] :
        j \in compiled.items[i].same}
    \cup {[source |-> i, target |-> j, relation |-> "lagged"] : j \in compiled.items[i].lagged}

\* What reads an item: the edges of its readers that come to it.
Incoming(i) ==
    {edge \in UNION {Outgoing(j) : j \in {k \in DOMAIN compiled.items : i \in compiled.edges[k]}} :
        edge.target = i}

\* A depth of zero walks the whole cone.
Walk(root, outward, depth) ==
    LET step(i) == IF outward THEN Outgoing(i) ELSE Incoming(i)
        far(e) == IF outward THEN e.target ELSE e.source
        levels == IF depth = 0 THEN Cardinality(DOMAIN compiled.items) ELSE depth
        nodes[n \in 0 .. levels] ==
            IF n = 0 THEN {root}
            ELSE nodes[n - 1] \cup {far(e) : e \in UNION {step(i) : i \in nodes[n - 1]}}
    IN [nodes |-> nodes[levels], edges |-> UNION {step(i) : i \in nodes[levels - 1]}]

DependsOn(i, depth) == Walk(i, TRUE, depth)
DependentsOf(i, depth) == Walk(i, FALSE, depth)
-----------------------------------------------------------------------------
(* Properties.                                                             *)

(* "so a trace can quote the sub-expression it is explaining" (render_expr *)
(* in introspection.py): every step of the trace of a formula the parser   *)
(* accepts quotes a text that, read again, is worth on that day what the   *)
(* step says - but for a "not" beside an operator, which is quoted without *)
(* its brackets.                                                           *)
StepsReadBack ==
    \A source \in Sources : Ok(Parse(source)) =>
        \A t \in Days : \A step \in ToSet(FormulaSteps(Parse(source).expr, t)) :
            LET again == Parse(step.expression) IN
            \/ (Ok(again) /\ ValueAt(again.expr, t) = step.value)
            \/ NegatesAnOperand(Parse(source).expr)

\* Somebody else's money is in the cell: VAT, or a leg of another day's fact.
HasVat(i) == compiled.items[i].item.vat # None \/ \E f \in FactsOf(factset, i) : f.carrier.vat # None
MovedHere(i, day) ==
    \E f \in FactsOf(factset, i) :
        \E p \in ToSet(FactPostings(f)) : p.column = "cash" /\ p.day = day /\ f.event.day # day

(* "the steps' total is compared back to the engine's own cell"            *)
(* (_trace_generated): on every cell the trace adds up, by whatever series *)
(* of replacements its columns were kept; except cash that holds VAT or a  *)
(* leg of a ledger fact of another day, and formulas of a book where a leg *)
(* lands in a loop before it accrues.                                      *)
TracesReconcile ==
    \A i \in DOMAIN compiled.items : \A t \in Days : \A m \in {"accrual", "cash"} :
        \/ Reconciles(i, m, t)
        \/ (m = "cash" /\ (HasVat(i) \/ MovedHere(i, t)))
        \/ (TraceKind(i) = "formula" /\ ~NoLegLandsEarlier)

(* An aggregate's binding lists its members' parts; they make its value,   *)
(* unless a level is read as cash: the parts come from the result, which   *)
(* has no cash for a level (_formula_bindings).                            *)
BindingsAddUp ==
    \A i \in DOMAIN compiled.items : TraceKind(i) = "formula" =>
        \A t \in Days : \A binding \in AggBindings(ExprOf(i), t) :
            MapThenSumSet(LAMBDA j : binding.detail[j], DOMAIN binding.detail) = binding.value
            \/ \E j \in DOMAIN binding.detail : compiled.items[j].item.kind = "stock"

(* why_zero() looks for occurrences again, trace() reads those recorded:   *)
(* no cell is "outside every segment", or zero for the cutover first of    *)
(* all, while its trace shows an occurrence.                               *)
ExplanationsAgree ==
    \A i \in DOMAIN compiled.items : TraceKind(i) = "generated" =>
        \A t \in Days :
            LET why == WhyZero(i, "accrual", t) IN
            GeneratedSteps(i, "accrual", t) # <<>> =>
                /\ "outside_segments" \notin {why.cause} \cup ToSet(why.also)
                /\ why.cause # "cutover_suppressed"

\* The edges of an item refused for a cycle stay in the graph of delta() only.
Refusals == {i \in DOMAIN compiled.items :
               compiled.edges[i] # compiled.items[i].same \cup compiled.items[i].lagged}

(* One graph: what an item's dependents_of() shows are the items that show *)
(* it in their depends_on(), and what delta() recomputes when the item     *)
(* changes (run.py), unless one was refused for a cycle; a trace goes to   *)
(* the items depends_on() shows at its depth, but stops at the tax items.  *)
WalksAgree ==
    \A above \in {[i \in DOMAIN compiled.items |-> DependsOn(i, 0).nodes]} :
    \A i \in DOMAIN compiled.items :
        LET readers == DependentsOf(i, 0).nodes
            trace == TraceCell(i, 0, "accrual", 2, {})
            near == DependsOn(i, 2).nodes
        IN /\ readers = {j \in DOMAIN compiled.items : i \in above[j]}
           /\ readers \subseteq Downstream(compiled, {i})
           /\ Refusals = {} => Downstream(compiled, {i}) \subseteq readers
           /\ ItemsOf(trace) \subseteq near
           /\ near \cap compiled.taxed = {} => near \subseteq ItemsOf(trace)

(* What a reader is told about a book that has run - the steps of a trace, *)
(* its total, its bindings, the cause of a zero, the items around an item - *)
(* is what the columns of that run hold, after any series of replacements. *)
ExplanationsAreTrue ==
    primed =>
        /\ StepsReadBack
        /\ TracesReconcile
        /\ BindingsAddUp
        /\ ExplanationsAgree
        /\ WalksAgree
=============================================================================
