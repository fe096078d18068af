------------------------------- MODULE Frames -------------------------------
(***************************************************************************)
(* The frame store: cashkit/stores/frames.py and the verbs over it in      *)
(* cashkit/sdk/execution.py.  A run becomes a table of facts, one for each *)
(* period, item and measure, with the items as a dimension; coarser grains,*)
(* tag slices, pivots and comparisons are views of it.  A period is a day  *)
(* and a bucket a day or a month.                                          *)
(***************************************************************************)
EXTENDS Applier, TLC

CONSTANTS
    Ceiling   \* DECIMAL_CEILING_MINOR: the largest value a fact can hold

Rounding == INSTANCE Money WITH Policy <- "half_up", RateScale <- 1

Measures == {"accrual", "cash"}
Untagged == "(untagged)"
SumOf(facts) == MapThenSumSet(LAMBDA f : f.value, facts)

(* What a run leaves to be tabulated: its items and its columns.           *)
RunOf(items, columns) == [items |-> items, columns |-> columns]

(* A stock never sums: a level left at the default takes the last of a     *)
(* bucket.                                                                 *)
EffectiveAggRule(kind, rule) == IF kind = "stock" /\ rule = "sum" THEN "last" ELSE rule

-----------------------------------------------------------------------------
(* Materialization.  A block holding a value that does not fit is zeroed,  *)
(* and says so (CK-E020); an item with facts and no dimension gets one.    *)

TooLarge(column) == \E d \in DOMAIN column : column[d] > Ceiling \/ column[d] < -Ceiling

Facts(run) ==
    {[period |-> d, item |-> i, measure |-> m,
      value |-> IF TooLarge(run.columns[i][m]) THEN 0 ELSE run.columns[i][m][d]] :
        d \in Calendar, i \in DOMAIN run.columns, m \in Measures}

Dimension(run) ==
    [i \in DOMAIN run.items \cup DOMAIN run.columns |->
        IF i \in DOMAIN run.items
        THEN [tags |-> run.items[i].tags,
              rule |-> EffectiveAggRule("flow", run.items[i].agg_rule), synthetic |-> FALSE]
        ELSE [tags |-> Nothing, rule |-> "sum", synthetic |-> TRUE]]

Table(run) == [facts |-> Facts(run), items |-> Dimension(run)]

(* The key of a run keeps different runs apart in one store, and a run     *)
(* replaces what its key held before.                                      *)
RunKey(scenario, revision, cutover) == [scenario |-> scenario, revision |-> revision,
                                        cutover |-> cutover, copy |-> 1]
Materialize(store, key, run) == With(store, key, Table(run))

-----------------------------------------------------------------------------
(* Views.                                                                  *)

BucketOf(day, grain) == IF grain = "month" THEN FirstOf(MonthOf(day)) ELSE day

(* Mutant: the last of a bucket is its first.                              *)
FirstOfBucket(rule, group) ==
    IF rule = "sum" THEN SumOf(group)
    ELSE (CHOOSE f \in group : \A g \in group : g.period >= f.period).value

(* A group of facts under a rule.  The last is that of the latest period,  *)
(* of whichever fact of it comes first.                                    *)
ApplyAggRule(rule, group) ==
    CASE rule = "last" -> (CHOOSE f \in group : \A g \in group : g.period <= f.period).value
      [] rule = "mean" -> Rounding!RoundDiv(SumOf(group), Cardinality(group))
      [] OTHER         -> SumOf(group)

SelectedBy(table, selector) == {i \in DOMAIN table.items : Matches(selector, table.items[i])}

Frame(table, grain, measures, selector, synthetic) ==
    LET chosen == {f \in table.facts :
                      /\ f.measure \in measures
                      /\ f.item \in SelectedBy(table, selector)
                      /\ synthetic \/ ~table.items[f.item].synthetic}
        KeyOf(f) == [period |-> BucketOf(f.period, grain), item |-> f.item, measure |-> f.measure]
    IN {k @@ [value |-> ApplyAggRule(table.items[k.item].rule, {f \in chosen : KeyOf(f) = k})] :
            k \in {KeyOf(f) : f \in chosen}}

(* A pivot groups by its two keys and the rule, over every item that falls *)
(* there.                                                                  *)
PivotKey(table, columns, fact) ==
    CASE columns = "item"    -> fact.item
      [] columns = "measure" -> fact.measure
      [] OTHER               -> Get(table.items[fact.item].tags, columns, Untagged)

Pivot(table, index, columns, measure, grain) ==
    LET chosen == {f \in table.facts : f.measure = measure}
        IndexOf(f) == IF index = "item" THEN f.item ELSE BucketOf(f.period, grain)
        CellOf(f) == <<IndexOf(f), PivotKey(table, columns, f)>>
        InCell(c, rule) == {f \in chosen : CellOf(f) = c /\ table.items[f.item].rule = rule}
        RulesOf(c) == {table.items[f.item].rule : f \in {g \in chosen : CellOf(g) = c}}
    IN [c \in {CellOf(f) : f \in chosen} |->
            MapThenSumSet(LAMBDA rule : ApplyAggRule(rule, InCell(c, rule)), RulesOf(c))]

(* One column for each run; a period a run does not have is absent, not 0. *)
Compare(store, keys, metric, grain) ==
    LET FrameOf(k) == Frame(store[keys[k]], grain, {metric}, Nothing, TRUE)
        Periods(k) == {r.period : r \in FrameOf(k)}
        At(k, p) == SumOf({r \in FrameOf(k) : r.period = p})
    IN [p \in UNION {Periods(k) : k \in DOMAIN keys} |->
            [k \in DOMAIN keys |-> IF p \in Periods(k) THEN At(k, p) ELSE Absent]]

(* Two runs of the same key are told apart by a count.                     *)
DistinctKeys(keys) ==
    [n \in DOMAIN keys |-> [keys[n] EXCEPT
        !.copy = Cardinality({k \in 1 .. n : keys[k] = keys[n]})]]

(* compare(): every run is materialized under its key, then all are read.  *)
MaterializeAll(store, keys, runs) ==
    FoldLeft(LAMBDA s, n : Materialize(s, keys[n], runs[n]), store, [n \in DOMAIN runs |-> n])

(* An export sums in the database when every item sums or the grain is the *)
(* day, and goes through the frame otherwise.                              *)
OnlySummed(table) == \A i \in DOMAIN table.items : table.items[i].rule = "sum"

Export(table, grain) ==
    LET KeyOf(f) == [period |-> BucketOf(f.period, grain), item |-> f.item, measure |-> f.measure]
    IN IF grain = "day" \/ OnlySummed(table)
       THEN {k @@ [value |-> SumOf({f \in table.facts : KeyOf(f) = k})] :
                 k \in {KeyOf(f) : f \in table.facts}}
       ELSE Frame(table, grain, Measures, Nothing, TRUE)
=============================================================================
