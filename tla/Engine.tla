------------------------------- MODULE Engine -------------------------------
(* The evaluation engine (engine/run.py, engine/facts.py, engine/tax.py,   *)
(* the expansion half of engine/expand.py): a book and its ledger events   *)
(* are evaluated into columns, in full by run() or, when an item is        *)
(* replaced, by delta(), which recomputes only what depends on it and      *)
(* keeps the columns, the facts and the diagnostics of everything else.    *)
EXTENDS Graph

CONSTANTS
    Books,         \* the books an engine is built on: functions from ids to items
    EventSets,     \* the ledgers it is given
    Authored,      \* ids an author can give an item
    Replacements,  \* for each authored id, the items delta() may put there
    Loose,         \* the id of the synthetic item of unattached events
    Cutover,       \* before this day the ledger is the complete record
    YearLength,    \* days in a year, for the anniversaries of a segment
    Regimes,       \* the tax regimes a book may have
    MaxDeltas      \* bound: calls of delta() on one engine

VARIABLES
    events,     \* the ledger the engine was built with
    regime,     \* the book's tax regime
    factset,    \* the events placed on items, once, at construction
    compiled,   \* the compiled book
    columns,    \* item -> columns, the cache of the last evaluations
    notes,      \* item -> diagnostic codes, the cache of the last evaluations
    primed,     \* run() has evaluated every item at least once
    deltas      \* calls of delta() so far

vars == <<events, regime, factset, compiled, columns, notes, primed, deltas>>
-----------------------------------------------------------------------------
(* The facts: each event is placed on an item, or refused.                 *)

SyntheticItem(event) ==
    [kind |-> "flow", tag |-> event.tag, direction |-> None, segments |-> <<>>,
     formula |-> None, settlement |-> event.settlement, vat |-> event.vat]

\* The item as the event sees it: the event's own settlement and VAT win.
Carrier(item, event) ==
    [item EXCEPT !.settlement = IF event.settlement = None THEN @ ELSE event.settlement,
                 !.vat = IF event.vat = None THEN @ ELSE event.vat]

Placed(items, event) ==
    event.item = None \/ (event.item \in DOMAIN items /\ items[event.item].kind = "flow")

FactNotes(items, event) ==
    (IF event.actual /\ event.day >= Cutover THEN {<<"CK-W003", event.item>>} ELSE {})
    \cup (CASE Placed(items, event) -> {}
            [] event.item \in DOMAIN items -> {<<"CK-E018", event.item>>}
            [] OTHER -> {<<"CK-E001", None>>})

ResolveFacts(items, ledger) ==
    LET placed == {e \in ledger : Placed(items, e)}
        loose == {e \in placed : e.item = None}
    IN [facts |-> {[event   |-> e,
                    target  |-> IF e.item = None THEN Loose ELSE e.item,
                    carrier |-> IF e.item = None THEN SyntheticItem(e)
                                ELSE Carrier(items[e.item], e)] : e \in placed},
        synthetic |-> [i \in {Loose : e \in loose} |->
                         SyntheticItem(CHOOSE e \in loose : TRUE)],
        notes |-> UNION {FactNotes(items, e) : e \in ledger}]

Augmented(items, facts) ==
    [i \in DOMAIN items \cup DOMAIN facts.synthetic |->
        IF i \in DOMAIN items THEN items[i] ELSE facts.synthetic[i]]
-----------------------------------------------------------------------------
(* Expansion of a flow's segments: occurrences, weighted, rolled off       *)
(* closed days, and suppressed when they fall before the cutover.          *)

Occurs(segment, day) ==
    IF segment.schedule # None THEN \E pair \in segment.schedule : pair.day = day
    ELSE /\ segment.start <= day
         /\ segment.end = None \/ day < segment.end
         /\ (day - segment.start) % segment.every = 0

\* A schedule's dates are the occurrences, each with an amount of its own.
BaseAmount(segment, day) ==
    IF segment.schedule # None
    THEN (CHOOSE pair \in segment.schedule : pair.day = day).amount
    ELSE segment.amount

\* The occurrences of an item inside the horizon, segment by segment.
Occurrences(item) ==
    SelectSeq([n \in 1 .. (Len(item.segments) * Horizon) |->
                 [segment |-> item.segments[((n - 1) \div Horizon) + 1],
                  day     |-> (n - 1) % Horizon]],
              LAMBDA o : Occurs(o.segment, o.day))

\* The day on which an escalation step takes effect.
Boundary(segment, step) ==
    LET years == segment.escalation.every * YearLength IN
    IF segment.escalation.anchor = "calendar_year"
    THEN (segment.start \div YearLength) * YearLength + step * years
    ELSE segment.start + step * years

(* Mutant: a step takes effect the day after its anniversary.              *)
StepsAfterBoundary(segment, day) ==
    Cardinality({step \in 1 .. (day - segment.start + YearLength) :
                   Boundary(segment, step) < day})

\* The steps completed at a day: the boundaries up to it, counted at once.
EscalationSteps(segment, day) ==
    Cardinality({step \in 1 .. (day - segment.start + YearLength) :
                   Boundary(segment, step) <= day})

Escalated(segment, day) ==
    IF segment.escalation = None THEN BaseAmount(segment, day)
    ELSE LET n == EscalationSteps(segment, day) IN
         RoundDiv(BaseAmount(segment, day) * (RateScale + segment.escalation.rate) ^ n, RateScale ^ n)

\* Weighted after it is escalated, dated after it is rolled off closed days.
Line(occurrence) ==
    [day    |-> DayOf(Adjust(occurrence.day, occurrence.segment.adjust)),
     amount |-> MulRate(Escalated(occurrence.segment, occurrence.day),
                        occurrence.segment.probability)]

Live(line) == line.day \in Days /\ line.day >= Cutover

Lines(item) ==
    LET all == Occurrences(item) IN
    SelectSeq([n \in DOMAIN all |-> Line(all[n])], LAMBDA l : Live(l))

ExpandItem(item, kind) ==
    Posted(Zeros, LinePostings(item.settlement, kind,
                               ResolveVat(item.vat, item.direction), Lines(item)))

\* The codes of the warnings that settling some amounts raises.
SettleNotes(settlement, kind, amounts) ==
    IF Splits(kind) THEN UNION {SplitNotes(settlement, x) : x \in amounts} ELSE {}
-----------------------------------------------------------------------------
(* An evaluation in progress: the columns and the notes it has so far.     *)

KindOf(entry) == IF entry.broken THEN "invalid" ELSE Classify(entry.item.settlement)
RuleOf(entry) == ResolveVat(entry.item.vat, entry.item.direction)

\* A stock is a level: both measures read it.
Read(env, compiledItems, i, measure) ==
    IF measure = "accrual" \/ compiledItems[i].item.kind = "stock"
    THEN env.columns[i]["accrual"] ELSE env.columns[i]["cash"]

TermValue(env, compiledItems, term, day) ==
    LET read(t) == MapThenSumSet(LAMBDA i : Read(env, compiledItems, i, term.ref.measure)[t],
                                 term.members)
    IN MulRate(CASE term.ref.fn \in {"it", "agg"} -> read(day)
                 [] term.ref.fn = "prev" -> IF day = 0 THEN term.ref.init ELSE read(day - 1)
                 [] term.ref.fn = "cum" -> MapThenSumSet(read, 0 .. day),
               term.ref.rate)

Value(env, compiledItems, i, day) ==
    MapThenSumSet(LAMBDA term : TermValue(env, compiledItems, term, day),
                  compiledItems[i].expr)

\* A derived amount accrues on its day and settles, unless it is a level.
Accrue(env, entry, i, day, value) ==
    LET set == [env.columns[i] EXCEPT !["accrual"][day] = value]
        kind == KindOf(entry)
    IN IF entry.item.kind = "stock" THEN [env EXCEPT !.columns[i] = set]
       ELSE [columns |-> [env.columns EXCEPT ![i] =
                            Posted(set, Settle(entry.item.settlement, kind, RuleOf(entry),
                                               day, value))],
             notes   |-> [env.notes EXCEPT ![i] =
                            @ \cup SettleNotes(entry.item.settlement, kind, {value})]]

\* One column expression: every day is valued before any day settles.
EvaluateTrivial(env, compiledItems, i) ==
    LET value == [t \in Days |-> Value(env, compiledItems, i, t)]
    IN FoldLeft(LAMBDA done, n : Accrue(done, compiledItems[i], i, n - 1, value[n - 1]),
                env, [n \in 1 .. Horizon |-> n])

\* The sequential fold: day by day, the members one after the other.
Fold(env, book, members) ==
    LET turns == [n \in 1 .. (Horizon * Len(members)) |->
                    [day |-> (n - 1) \div Len(members), item |-> members[((n - 1) % Len(members)) + 1]]]
    IN FoldLeft(LAMBDA done, turn : Accrue(done, book.items[turn.item], turn.item, turn.day,
                                           Value(done, book.items, turn.item, turn.day)),
                env, turns)

FoldMembers(book, component) == {i \in component : book.items[i].expr # {}}

(* Mutant: readers before what they read.                                  *)
FoldBackwards(env, book, component) ==
    Fold(env, book, Reverse(InOrder(FoldMembers(book, component), book.same)))

\* Within a day, members follow what they read of that day.
EvaluateFold(env, book, component) ==
    Fold(env, book, InOrder(FoldMembers(book, component), book.same))
-----------------------------------------------------------------------------
(* The tax regime: a return for each block of days, netted against the     *)
(* credit carried from earlier returns, paid some days after it closes.    *)

NetVat(env, base, day) ==
    LET side(i, column) == env.columns[i][column][day] IN
    MapThenSumSet(LAMBDA i : IF regime.measure = "accrual"
                             THEN side(i, "outputAccrual") + side(i, "inputAccrual")
                             ELSE side(i, "outputCash") + side(i, "inputCash"), base)

\* The returns that close inside the horizon, by their last day.
Returns == {t \in Days : (t + 1) % regime.length = 0}
ReturnDays(close) == {t \in Days : close - regime.length < t /\ t <= close}

Due(env, base, close) == MapThenSumSet(LAMBDA t : NetVat(env, base, t), ReturnDays(close))

Assessed(env, base) ==
    Account([t \in Returns |-> Due(env, base, t)], regime.refunds, regime.surcharge)

\* The credit's level holds from the close on; the payment moves later.
EvaluateTax(env, book, i) ==
    IF book.items[i].broken THEN env
    ELSE LET assessed == Assessed(env, TaxBase([j \in DOMAIN book.items |-> book.items[j].item]))
             paid(t) == IF t - regime.offset \in Days THEN assessed[t - regime.offset].movement ELSE 0
         IN IF i = Credit
            THEN [env EXCEPT !.columns[i]["accrual"] = [t \in Days |-> assessed[t].credit]]
            ELSE [env EXCEPT !.columns[i]["accrual"] = [t \in Days |-> assessed[t].movement],
                             !.columns[i]["cash"] = [t \in Days |-> paid(t)]]
-----------------------------------------------------------------------------
(* One evaluation of the items that are stale.                             *)

\* Columns and notes of stale items start afresh, the others are kept.
Prepared(book, stale) ==
    [columns |-> [i \in DOMAIN book.items |->
        IF i \in stale \/ i \notin DOMAIN columns THEN Zeros ELSE columns[i]],
     notes |-> [i \in DOMAIN book.items |->
        (IF i \in stale \/ i \notin DOMAIN notes THEN {} ELSE notes[i])
        \cup (IF book.items[i].broken THEN {}
              ELSE ClassifyNotes(book.items[i].item.settlement))]]

Generated(env, book, stale) ==
    LET flows == {i \in stale \cap DOMAIN book.items :
                    ~book.items[i].broken /\ ~Derived(book.items[i].item) /\ i \notin book.taxed}
        amounts(i) == {l.amount : l \in ToSet(Lines(book.items[i].item))}
        settlement(i) == book.items[i].item.settlement
    IN [columns |-> [i \in DOMAIN env.columns |->
                       IF i \in flows THEN ExpandItem(book.items[i].item, KindOf(book.items[i]))
                       ELSE env.columns[i]],
        notes   |-> [i \in DOMAIN env.notes |->
                       env.notes[i] \cup
                       (IF i \in flows THEN SettleNotes(settlement(i), KindOf(book.items[i]), amounts(i))
                        ELSE {})]]

\* The facts of a target that is stale, as postings.
FactsOf(facts, i) == {f \in facts.facts : f.target = i}

FactPostings(fact) ==
    IF fact.event.day \notin Days THEN <<>>
    ELSE LinePostings(fact.carrier.settlement, Classify(fact.carrier.settlement),
                      ResolveVat(fact.carrier.vat, fact.carrier.direction),
                      <<[day |-> fact.event.day, amount |-> fact.event.amount]>>)

FactWarnings(fact) ==
    LET settlement == fact.carrier.settlement IN
    ClassifyNotes(settlement)
    \cup (IF fact.event.day \notin Days THEN {}
          ELSE SettleNotes(settlement, Classify(settlement), {fact.event.amount}))

\* Ledger facts join the columns they land in; the cutover never stops them.
WithFacts(env, stale, facts) ==
    LET joined(i) == FoldSet(LAMBDA f, postings : FactPostings(f) \o postings, <<>>, FactsOf(facts, i))
    IN [columns |-> [i \in DOMAIN env.columns |->
                       IF i \in stale THEN Posted(env.columns[i], joined(i)) ELSE env.columns[i]],
        notes   |-> [i \in DOMAIN env.notes |->
                       env.notes[i] \cup
                       (IF i \in stale THEN UNION {FactWarnings(f) : f \in FactsOf(facts, i)} ELSE {})]]

EvaluateComponent(env, book, component) ==
    LET one == CHOOSE i \in component : TRUE IN
    IF Cyclic(component, book.edges) /\ \A i \in component : ~book.items[i].broken
    THEN EvaluateFold(env, book, component)
    ELSE IF Cardinality(component) = 1 /\ one \in book.taxed THEN EvaluateTax(env, book, one)
    ELSE IF Cardinality(component) = 1 /\ book.items[one].expr # {}
    THEN EvaluateTrivial(env, book.items, one)
    ELSE env

Evaluated(book, stale, facts) ==
    FoldLeft(LAMBDA done, component : EvaluateComponent(done, book, component),
             WithFacts(Generated(Prepared(book, stale), book, stale), stale, facts),
             SelectSeq(book.components, LAMBDA c : c \cap stale # {}))
-----------------------------------------------------------------------------
Items == [i \in DOMAIN compiled.items |-> compiled.items[i].item]

Init ==
    /\ events \in EventSets
    /\ regime \in Regimes
    /\ \E book \in Books :
         /\ factset = ResolveFacts(book, events)
         /\ compiled = Compile(Augmented(book, factset))
    /\ columns = <<>>
    /\ notes = <<>>
    /\ primed = FALSE
    /\ deltas = 0

\* Evaluate a compiled book and keep what came out.
Evaluate(book, stale) ==
    \E env \in {Evaluated(book, stale, factset)} :
        /\ columns' = env.columns
        /\ notes' = env.notes

Run ==
    /\ Evaluate(compiled, DOMAIN compiled.items)
    /\ primed' = TRUE
    /\ UNCHANGED <<events, regime, factset, compiled, deltas>>

(* Mutant: only what a formula reads is compared.                          *)
MovedByFormula(before, after, changed) ==
    {changed} \cup
    {i \in DOMAIN after.items :
        \/ i \notin DOMAIN before.items
        \/ before.items[i].item # after.items[i].item
        \/ before.items[i].expr # after.items[i].expr}

\* An item moved when it, its bound formula or its dependencies changed.
Moved(before, after, changed) ==
    {changed} \cup
    {i \in DOMAIN after.items :
        \/ i \notin DOMAIN before.items
        \/ before.items[i].item # after.items[i].item
        \/ before.items[i].expr # after.items[i].expr
        \/ before.items[i].same # after.items[i].same
        \/ before.items[i].lagged # after.items[i].lagged}

\* The facts are those of construction: delta() does not resolve them again.
Delta(changed, item) ==
    /\ deltas < MaxDeltas
    /\ deltas' = deltas + 1
    /\ \E book \in {Compile((changed :> item) @@ Items)} :
         /\ compiled' = book
         /\ Evaluate(book, Downstream(book, Moved(compiled, book, changed)))
    /\ UNCHANGED <<events, regime, factset, primed>>

Next ==
    \/ Run
    \/ \E i \in Authored : \E item \in Replacements[i] : Delta(i, item)

Spec == Init /\ [][Next]_vars
-----------------------------------------------------------------------------
(* Properties.                                                             *)

Env == [columns |-> columns, notes |-> notes]

\* What an author of the book wrote.
AuthoredNow == [i \in DOMAIN Items \ (TaxIds \cup {Loose}) |-> Items[i]]

(* "The delta path must be an optimization, never a different answer"      *)
(* (tests/test_dual_engine.py): after any sequence of replacements the     *)
(* columns and diagnostics kept by delta() (run.py) are those of a full    *)
(* run() of a new engine on the book as it now is.  Two differences are    *)
(* known and set aside: delta() does not resolve the facts again, and it   *)
(* leaves the items of a dropped regime in the book.                       *)
DeltaIsRun ==
    primed =>
        \A facts \in {ResolveFacts(AuthoredNow, events)} :
        \A book \in {Compile(Augmented(AuthoredNow, facts))} :
            factset = facts /\ DOMAIN book.items = DOMAIN compiled.items =>
                /\ Env = Evaluated(book, DOMAIN book.items, facts)
                /\ compiled.notes = book.notes

\* No leg of a member of a feedback loop lands before the day it accrues on.
NoLegLandsEarlier ==
    \A c \in ToSet(compiled.components) : \A i \in c :
        LET settlement == compiled.items[i].item.settlement IN
        Cyclic(c, compiled.edges) /\ Splits(KindOf(compiled.items[i])) =>
            \A t \in Days : \A k \in DOMAIN settlement :
                LegTarget(settlement[k], t) \in {Outside} \cup (t .. Horizon)

(* The columns solve the book: every derived item's accrual is, on every   *)
(* day, its formula read on the final columns, whatever order components   *)
(* and the members of a feedback loop were evaluated in (run.py).          *)
ColumnsSolveTheirFormulas ==
    primed /\ NoLegLandsEarlier =>
        \A i \in DOMAIN compiled.items : compiled.items[i].expr # {} =>
            \A t \in Days : columns[i]["accrual"][t] = Value(Env, compiled.items, i, t)

Lands(settlement, day) ==
    \/ Classify(settlement) = "immediate"
    \/ /\ Splits(Classify(settlement))
       /\ \A k \in DOMAIN settlement : LegTarget(settlement[k], day) # Outside

\* Every leg of every amount of an item lands inside the horizon.
LandsInside(i) ==
    LET item == compiled.items[i].item IN
    /\ IF Derived(item) THEN \A t \in Days : Lands(item.settlement, t)
       ELSE \A l \in ToSet(Lines(item)) : Lands(item.settlement, l.day)
    /\ \A f \in FactsOf(factset, i) : f.event.day \in Days => Lands(f.carrier.settlement, f.event.day)

Total(i, column) == MapThenSumSet(LAMBDA t : columns[i][column][t], Days)

(* Splitting loses nothing: over an item whose legs all land inside the    *)
(* horizon, the VAT recognised on the invoice is the VAT recognised on the *)
(* cash, to the minor unit (expand.py, vat.py).                            *)
TaxPointsAgree ==
    primed => \A i \in DOMAIN compiled.items :
        ~compiled.items[i].broken /\ LandsInside(i) =>
            /\ Total(i, "outputAccrual") = Total(i, "outputCash")
            /\ Total(i, "inputAccrual") = Total(i, "inputCash")

(* The tax account closes: up to every return, what was due is what was    *)
(* recognised as paid less the credit still held, a credit is never        *)
(* negative, and without a refund it is never money coming in (tax.py).    *)
TaxAccountCloses ==
    primed /\ compiled.taxed # {} /\ ~compiled.items[Credit].broken =>
        LET base == TaxBase(Items)
            credit(t) == columns[Credit]["accrual"][t]
            movement(t) == columns[Liability]["accrual"][t]
            upTo(t) == {c \in Returns : c <= t}
            due(t) == MapThenSumSet(LAMBDA c : Due(Env, base, c), upTo(t))
            moved(t) == MapThenSumSet(movement, upTo(t))
        IN \A t \in Returns :
             /\ credit(t) >= 0
             /\ movement(t) > 0 => t \in regime.refunds
             /\ due(t) + moved(t) + credit(t) <= 0
             /\ regime.surcharge = 0 => due(t) + moved(t) + credit(t) = 0

(* VAT is neither made nor lost, on lines or on the tax account.           *)
VatIsConserved == TaxPointsAgree /\ TaxAccountCloses

=============================================================================
