----------------------------- MODULE Authoring -----------------------------
(***************************************************************************)
(* A book being authored: the verbs of the kit (cashkit/sdk/kit.py over     *)
(* sdk/scenarios.py), the cards the service applies (ops/applier.py), the  *)
(* runs a caller holds and the frames it reads from them.  The kit of one  *)
(* process is a plain object: a verb is a step, and no other falls into it.*)
(*                                                                         *)
(* last names the verb of the last step, for the properties.               *)
(***************************************************************************)
EXTENDS Frames

CONSTANTS
    Kits,         \* the kits a history may start from
    ItemValues,   \* items a caller may write
    ParamKeys, ParamValues,
    TagChanges,   \* tags a retag may set
    Selectors,    \* selectors of macros
    Cards,        \* cards: [ops, context, scenario, accounting, today]
    Written, Read,\* scenarios the caller writes to, and runs
    MaxWrites,    \* bound: verbs and cards of a history
    MaxHeld,      \* bound: runs a caller holds
    MaxSteps      \* bound: writes and runs together

(* What is taken of what a history starts from and is given: items have    *)
(* every field; a kit was loaded, from scenarios that are below their      *)
(* parents and rows of different ids, the base scenario recording nothing  *)
(* but the book; a card has operations apply_op knows.                     *)
EveryField(item) == item = [f \in OverlayFields |-> item[f]]

SoundBook(book) ==
    /\ {"items", "params", "opening", "cutover", "horizon"} \subseteq DOMAIN book
    /\ IsFiniteSet(DOMAIN book.items)
    /\ book.items = [i \in DOMAIN book.items |-> book.items[i]]
    /\ \A i \in DOMAIN book.items : EveryField(book.items[i])
    /\ book.params = [k \in DOMAIN book.params |-> book.params[k]]
    /\ \A k \in DOMAIN book.params : book.params[k] # NoParent

SoundScenario(id, s) ==
    /\ {"parent", "params", "items", "added", "removed", "events"} \subseteq DOMAIN s
    /\ StructurallyConsistent(id, s)
    /\ \A i \in DOMAIN s.items : DOMAIN s.items[i] \in (SUBSET OverlayFields) \ {{}}
    /\ IsFiniteSet(DOMAIN s.added) /\ \A i \in DOMAIN s.added : EveryField(s.added[i])
    /\ \A k \in DOMAIN s.params : s.params[k] # NoParent

Ranks(set, rank) ==
    \A s \in DOMAIN set.scenarios :
        LET parent == set.scenarios[s].parent IN
        parent # NoParent => parent \in DOMAIN set.scenarios /\ rank[parent] < rank[s]

SoundSet(set) ==
    /\ {"book", "scenarios"} \subseteq DOMAIN set
    /\ SoundBook(set.book)
    /\ IsFiniteSet(DOMAIN set.scenarios) /\ DOMAIN set.scenarios \subseteq ScenarioIds
    /\ \A s \in DOMAIN set.scenarios : SoundScenario(s, set.scenarios[s])
    /\ Base \in DOMAIN set.scenarios /\ set.scenarios[Base] = EmptyScenario(NoParent)

IsCorrection(id) == DOMAIN id = {"corrects", "n"}
SoundLedger(k) ==
    /\ k.rows \in Seq(ToSet(k.rows))
    /\ \A n \in DOMAIN k.rows :
          /\ "id" \in DOMAIN k.rows[n]
          /\ IsCorrection(k.rows[n].id) => k.rows[n].id.n \in 0 .. (Len(k.rows) - 1)
          /\ \A m \in DOMAIN k.rows : k.rows[m].id = k.rows[n].id => m = n
    /\ k.voided \subseteq {k.rows[n].id : n \in DOMAIN k.rows}

Operations ==
    {"add_item", "set_amount", "shift_items", "scale_items", "add_event", "record_actual",
     "correct_actual", "fork_scenario", "set_cutover", "set_horizon", "set_opening_balance",
     "remove_event", "edit_schedule_date"}

ASSUME KitsAssumption ==
    \A k \in Kits :
        /\ {"set", "rows", "voided"} \subseteq DOMAIN k
        /\ SoundSet(k.set) /\ SoundLedger(k)
        /\ \E rank \in [DOMAIN k.set.scenarios -> 0 .. Cardinality(DOMAIN k.set.scenarios)] :
              Ranks(k.set, rank)
ASSUME InputsAssumption ==
    /\ \A item \in ItemValues : EveryField(item)
    /\ NoParent \notin ParamValues
    /\ \A card \in Cards :
          /\ DOMAIN card.ops = 1 .. Len(card.ops) /\ Len(card.ops) \in Nat
          /\ \A n \in DOMAIN card.ops :
                /\ "op" \in DOMAIN card.ops[n] /\ card.ops[n].op \in Operations
                /\ card.ops[n].op = "fork_scenario" => card.ops[n].name \in ScenarioIds

VARIABLES
    kit,     \* the CashKit: scenarios, ledger
    held,    \* RunRefs the caller keeps, in order
    frames,  \* kit.frames: the tables by run key
    shown,   \* the last comparison, a column for each run
    last,    \* the last step
    writes   \* how many verbs and cards there were

vars == <<kit, held, frames, shown, last, writes>>

NoStep == [verb |-> "none", scenario |-> NoParent]
Refusal == [verb |-> "refused", scenario |-> NoParent]
NoComparison == [keys |-> <<>>, table |-> Nothing]

Init ==
    /\ kit \in Kits
    /\ held = <<>> /\ frames = Nothing /\ shown = NoComparison
    /\ last = NoStep /\ writes = 0

-----------------------------------------------------------------------------
(* A verb: what it makes of the kit, and what the step is remembered by.   *)

Perform(step, result) ==
    /\ writes < MaxWrites /\ writes + Len(held) < MaxSteps
    /\ writes' = writes + 1
    /\ kit' = result.kit
    /\ last' = IF result.ok THEN step ELSE Refusal
    /\ UNCHANGED <<held, frames, shown>>

Step(verb, s) == [verb |-> verb, scenario |-> s]
OnItem(verb, s, i) == [verb |-> verb, scenario |-> s, item |-> i]

(* CashKit.set_item.                                                       *)
WriteItem(s, i, item) ==
    Perform([verb |-> "set_item", scenario |-> s, item |-> i, value |-> item],
            KitSetItem(kit, s, i, item))

(* The other verbs of one scenario refuse a scenario that is not there.    *)
Verb(s, set) == IF Exists(kit.set, s) THEN Wrote(kit, set) ELSE Refused(kit)

DropItem(s, i) == Perform(OnItem("remove_item", s, i), Verb(s, RemoveItem(kit.set, s, i)))
UnsetItem(s, i) == Perform(OnItem("unset", s, i), Verb(s, Unset(kit.set, s, i)))
WriteParam(s, key, value) ==
    Perform([verb |-> "set_param", scenario |-> s, key |-> key, value |-> value],
            Verb(s, SetParam(kit.set, s, key, value)))
RetagItems(s, selector, tags) ==
    Perform(Step("retag", s),
            KitMacro(kit, s, [op |-> "retag_items", selector |-> selector, tags |-> tags]))
FlattenScenario(s, new) ==
    Perform([verb |-> "flatten", scenario |-> s, new |-> new],
            IF Exists(kit.set, s) /\ ~Exists(kit.set, new) THEN Wrote(kit, Flatten(kit.set, s, new))
            ELSE Refused(kit))

(* A confirmed card: rehearsed on a copy, then applied.                    *)
RunCard(card) ==
    ApplyAll(kit, [n \in DOMAIN card.ops |-> ExpandMonths(card.ops[n], card.accounting)],
             card.scenario, card.context, card.today)
StaysInCalendar(card) ==
    \A n \in DOMAIN card.ops : card.ops[n].op = "shift_items" =>
        Shiftable(Resolve(kit.set, card.scenario).items, card.ops[n].by)

AcceptCard(card) ==
    /\ StaysInCalendar(card)
    /\ Perform([verb |-> "card", scenario |-> card.scenario, card |-> card],
               IF RunCard(card).ok THEN RunCard(card) ELSE Refused(kit))

(* CashKit.run: the resolved book with its columns, kept by the caller     *)
(* whatever is written later.                                              *)
Accruals(item) == [d \in Calendar |-> AccruesOn(item, d)]
RunRef(s) ==
    LET items == Resolve(kit.set, s).items IN
    [key |-> RunKey(s, "working", kit.set.book.cutover),
     run |-> RunOf(items, [i \in DOMAIN items |->
                              [m \in Measures |-> Accruals(items[i])]])]

Hold(s) ==
    /\ Len(held) < MaxHeld /\ writes + Len(held) < MaxSteps
    /\ Exists(kit.set, s)
    /\ held' = Append(held, RunRef(s))
    /\ last' = Step("run", s)
    /\ UNCHANGED <<kit, frames, shown, writes>>

Keys(refs) == DistinctKeys([n \in DOMAIN refs |-> refs[n].key])
Runs(refs) == [n \in DOMAIN refs |-> refs[n].run]

(* compare() of the runs held with one made now.                           *)
CompareWith(s) ==
    LET refs == Append(held, RunRef(s))
        tables == MaterializeAll(frames, Keys(refs), Runs(refs))
    IN
    /\ Len(held) < MaxHeld /\ writes + Len(held) < MaxSteps
    /\ Exists(kit.set, s)
    /\ held' = refs
    /\ frames' = tables
    /\ shown' = [keys |-> Keys(refs), table |-> Compare(tables, Keys(refs), "accrual", "month")]
    /\ last' = Step("compare", s)
    /\ UNCHANGED <<kit, writes>>

Next ==
    \/ \E s \in Written, i \in ItemIds :
          \/ \E item \in ItemValues : WriteItem(s, i, item)
          \/ DropItem(s, i)
          \/ UnsetItem(s, i)
    \/ \E s \in Written :
          \/ \E key \in ParamKeys, value \in ParamValues : WriteParam(s, key, value)
          \/ \E selector \in Selectors, tags \in TagChanges : RetagItems(s, selector, tags)
          \/ \E new \in ScenarioIds : FlattenScenario(s, new)
    \/ \E card \in Cards : AcceptCard(card)
    \/ \E s \in Read : Hold(s) \/ CompareWith(s)

Spec == Init /\ [][Next]_vars
-----------------------------------------------------------------------------
(* Properties.                                                             *)

View(s) == Resolve(kit.set, s)
After(s) == Resolve(kit'.set, s)
Stored == kit.set.scenarios
RowIds == {kit.rows[n].id : n \in DOMAIN kit.rows}

(* What the working tree can be loaded from again: scenarios.py writes only *)
(* consistent scenarios, on chains that lead to a root, whose overlays     *)
(* record something; the ledger has an id once and tombstones what it has. *)
WorkingTreeLoads ==
    /\ \A s \in DOMAIN Stored :
          /\ StructurallyConsistent(s, Stored[s])
          /\ ~ChainIsBroken(kit.set, s)
          /\ \A i \in DOMAIN Stored[s].items :
                DOMAIN Stored[s].items[i] \in (SUBSET OverlayFields) \ {{}}
    /\ Cardinality(RowIds) = Len(kit.rows) /\ kit.voided \subseteq RowIds

(* The scenarios between a scenario and one it is an ancestor of; the      *)
(* authored book is above every chain.                                     *)
IsAbove(set, s, t) == s = Base \/ s \in Ancestry(set, t)
Below(set, s, t) ==
    LET chain == Chain(set, t) IN
    {chain[n] : n \in {k \in DOMAIN chain : \A j \in k .. Len(chain) : chain[j] # s}}

TouchedBy(step) ==
    {step.scenario} \cup
        (IF step.verb = "card"
         THEN {TargetOf(step.card.ops[n], step.scenario) : n \in DOMAIN step.card.ops}
         ELSE {})

(* A write reaches the scenario it is addressed to and its descendants     *)
(* (scenarios.py, module docstring): no other scenario sees its items or   *)
(* events move.                                                            *)
WriteStaysBelow ==
    \A t \in DOMAIN Stored :
        (View(t).items # After(t).items \/ View(t).events # After(t).events)
            => \E s \in TouchedBy(last') : IsAbove(kit.set, s, t)

(* ADR-0009, rules 1 and 3: a write to an ancestor arrives in the fields of *)
(* an item that no scenario below it recorded, and in no other field.      *)
Follows(s, t, i) ==
    LET before == Provenance(kit.set, t, i) IN
    \A field \in OverlayFields :
        After(t).items[i][field] =
            IF before.fields[field].scenario \in Below(kit.set, s, t)
            THEN View(t).items[i][field] ELSE After(s).items[i][field]

CorrectionPropagates ==
    last'.verb = "set_item" =>
        \A t \in DOMAIN Stored :
            /\ IsAbove(kit.set, last'.scenario, t)
            /\ last'.item \in DOMAIN View(t).items \cap DOMAIN After(t).items
            => Follows(last'.scenario, t, last'.item)

(* What was written is what is read, through however many overlays: an     *)
(* item, a removal, a parameter, an unset.  Excepted is an addition whose  *)
(* ancestors have come to have the item too: set_item compares with them   *)
(* alone, and remove_item drops the addition alone.                        *)
CaughtUp(s, i) ==
    s # Base /\ i \in DOMAIN Stored[s].added /\ i \in DOMAIN ParentView(kit.set, s).items

WriteIsRead ==
    LET s == last'.scenario IN
    /\ last'.verb = "set_item" /\ ~CaughtUp(s, last'.item)
           => After(s).items[last'.item] = last'.value
    /\ last'.verb = "remove_item" /\ ~CaughtUp(s, last'.item)
           => last'.item \notin DOMAIN After(s).items
    /\ last'.verb = "set_param" => After(s).params[last'.key] = last'.value
    /\ last'.verb = "unset" =>
           Get(After(s).items, last'.item, Absent)
               = Get(ParentView(kit.set, s).items, last'.item, Absent)

(* All three, of every write: it is read where it was addressed to, reaches *)
(* what inherits it from there, and moves nothing else.                    *)
WritesReachTheirScenarios ==
    [][WriteIsRead /\ CorrectionPropagates /\ WriteStaysBelow]_vars

(* flatten(): "resolves to exactly the same Book", and shows the same      *)
(* ledger; diff() of the two finds nothing.                                *)
NoDifference ==
    [added |-> {}, removed |-> {}, changed |-> {}, params |-> {}, opening |-> FALSE, events |-> {}]

FlattenKeepsTheBook ==
    [][last'.verb = "flatten" =>
          LET old == View(last'.scenario)
              new == After(last'.new)
          IN /\ new.items = old.items /\ new.params = old.params /\ new.opening = old.opening
             /\ ResolveEvents(kit'.set, last'.new, kit.rows)
                    = ResolveEvents(kit.set, last'.scenario, kit.rows)
             /\ ScenarioDiff(kit'.set, last'.scenario, last'.new) = NoDifference]_vars

(* _set_amount keeps history: a change from a day on leaves what fell due  *)
(* before it, and everything that falls due from then on has the new       *)
(* amount.  (Of an item on explicit dates, the later dates stay beside it.) *)
Scheduled(item) == \E k \in DOMAIN item.segments : item.segments[k].schedule # Absent
AmountChange(step) ==
    step.verb = "card" /\ Len(step.card.ops) = 1 /\ step.card.ops[1].op = "set_amount"

ChangesKeepHistory ==
    [][AmountChange(last') =>
          LET op == last'.card.ops[1]
              from == IF op.from = Absent THEN 1 ELSE Boundary(op.from)
              old == View(last'.scenario).items[op.item]
              new == After(last'.scenario).items[op.item]
          IN /\ \A d \in Calendar : d < from => AccruesOn(new, d) = AccruesOn(old, d)
             /\ Scheduled(old) \/
                \A o \in ItemOccurrences(new) :
                    o.day >= from => o.amount = Signed(op.amount, old.direction)]_vars

(* compare() shows every run held in a column of its own, as it was when it *)
(* was run, whatever was written since and whatever key it has.            *)
MonthlyTotal(table, period) ==
    SumOf({r \in Frame(table, "month", {"accrual"}, Nothing, TRUE) : r.period = period})

ComparisonShowsItsRuns ==
    \A n \in DOMAIN shown.keys : \A p \in DOMAIN shown.table :
        shown.table[p][n] = IF held[n].run.columns = Nothing THEN Absent
                            ELSE MonthlyTotal(Table(held[n].run), p)

(* The views of a run agree with each other: a bucket is the sum or the    *)
(* last of its days, a pivot adds up to the frame as long as no two stocks *)
(* meet in a cell, an export is the frame, and a comparison shows its runs. *)
DayValue(table, i, d) ==
    (CHOOSE f \in table.facts : f.period = d /\ f.item = i /\ f.measure = "cash").value

BucketsAddUp(table) ==
    \A r \in Frame(table, "month", {"cash"}, Nothing, TRUE) :
        LET days == r.period .. LastOf(MonthOf(r.period)) IN
        /\ table.items[r.item].rule = "sum" =>
              r.value = MapThenSumSet(LAMBDA d : DayValue(table, r.item, d), days)
        /\ table.items[r.item].rule = "last" => r.value = DayValue(table, r.item, Max(days))

PivotAddsUp(table, tag) ==
    LET pivot == Pivot(table, "period", tag, "accrual", "month") IN
    \A p \in {c[1] : c \in DOMAIN pivot} :
        MapThenSumSet(LAMBDA c : pivot[c], {c \in DOMAIN pivot : c[1] = p})
            = MonthlyTotal(table, p)

OneLevelAtMost(table) == Cardinality({i \in DOMAIN table.items : table.items[i].rule # "sum"}) <= 1

ViewsAgree ==
    /\ ComparisonShowsItsRuns
    /\ held # <<>> =>
        LET table == Table(Last(held).run) IN
        /\ BucketsAddUp(table)
        /\ OneLevelAtMost(table) => PivotAddsUp(table, "kind")
        /\ Export(table, "month") = Frame(table, "month", Measures, Nothing, TRUE)
=============================================================================
