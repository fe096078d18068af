----------------------------- MODULE ImportRules -----------------------------
(***************************************************************************)
(* What apps/service/cashkit_service/imports/loop.py decides, without its  *)
(* awaits: where an import lands, what it may author, how its lines are    *)
(* named, and which of its operations reach the card.                      *)
(***************************************************************************)
EXTENDS Reconciliation

CONSTANTS MaxOperations  \* MAX_IMPORT_OPERATIONS

ASSUME CeilingIsANumber == MaxOperations \in Nat

(* An operation: set_horizon spans [from, until), as a line does; a line's *)
(* id is a name and the numbers it was renamed by, an event's is empty     *)
(* unless the model gave it one.                                           *)
Op(kind, id, amount, from, until) ==
    [op |-> kind, id |-> id, amount |-> amount, from |-> from, until |-> until,
     scenario |-> BaseScenario]
AddItem(id, amount, from, until) == Op("add_item", id, amount, from, until)
SetAmount(id, amount, from) == Op("set_amount", id, amount, from, 0)
AddEvent(amount, month) == Op("add_event", <<>>, amount, month, 0)
ForkScenario(name) == Op("fork_scenario", name, 0, 0, 0)
SetOpeningBalance(amount) == Op("set_opening_balance", <<>>, amount, 0, 0)
SetHorizon(from, until) == Op("set_horizon", <<>>, 0, from, until)

OpKinds == {"add_item", "set_amount", "add_event", "fork_scenario", "set_opening_balance", "set_horizon"}
IsList(s) == Len(s) \in Nat /\ s = [n \in 1..Len(s) |-> s[n]]
IsOperation(op) ==
    /\ DOMAIN op = {"op", "id", "amount", "from", "until", "scenario"}
    /\ op.op \in OpKinds
    /\ IsList(op.id)
    /\ op.amount \in Int
    /\ op.op = "set_horizon" => op.from..(op.until - 1) \subseteq AllMonths

(* A book of finitely many lines and scenarios.                            *)
IsBook(book) ==
    /\ book = [opening |-> book.opening, horizon |-> book.horizon, base |-> book.base,
               forks |-> book.forks, ledger |-> book.ledger]
    /\ IsFiniteSet(DOMAIN book.base) /\ IsFiniteSet(DOMAIN book.forks)
    /\ \A s \in DOMAIN book.forks : IsFiniteSet(DOMAIN book.forks[s])

(* Its amounts are numbers, in the months there are.                       *)
IsCounted(book) ==
    /\ book.opening \in Int
    /\ book.horizon \subseteq AllMonths
    /\ \A i \in DOMAIN book.base : book.base[i] \in Series
    /\ BaseScenario \notin DOMAIN book.forks
    /\ \A s \in DOMAIN book.forks : \A i \in DOMAIN book.forks[s] : book.forks[s][i] \in Series
    /\ IsFiniteSet(book.ledger)
    /\ \A e \in book.ledger : e.amount \in Int

-----------------------------------------------------------------------------
(* event_id_for: an event without an id has one made from its place in the *)
(* list and its payload.                                                   *)
EventId(op, place) == IF op.id # <<>> THEN <<0, op.id>> ELSE <<place, op>>
Entry(op, place) == [id |-> EventId(op, place), amount |-> op.amount, month |-> op.from]
EventIds(book) == {e.id : e \in book.ledger}

(* apply_op, on the books of this model, of the operation at a place of a  *)
(* list: refused, it leaves the book alone.                                *)
Refused(book, op, place) ==
    \/ op.op = "fork_scenario" /\ op.id \in Scenarios(book)
    \/ op.op \in {"add_item", "set_amount"} /\ op.scenario \notin Scenarios(book)
    \/ op.op = "set_amount" /\ op.id \notin DOMAIN Lines(book, op.scenario)
    \/ op.op = "add_event" /\ EventId(op, place) \in EventIds(book)

Amended(line, op) ==
    [m \in AllMonths |-> IF m >= op.from /\ line[m] # 0 THEN op.amount ELSE line[m]]

WithLine(book, scenario, id, line) ==
    IF scenario = BaseScenario THEN [book EXCEPT !.base = Put(@, id, line)]
    ELSE [book EXCEPT !.forks[scenario] = Put(@, id, line)]

ApplyOp(book, op, place) ==
    IF Refused(book, op, place) THEN book
    ELSE CASE op.op = "add_item" ->
                 WithLine(book, op.scenario, op.id, Constantly(op.amount, op.from, op.until))
           [] op.op = "set_amount" ->
                 WithLine(book, op.scenario, op.id, Amended(Lines(book, op.scenario)[op.id], op))
           [] op.op = "add_event" -> [book EXCEPT !.ledger = @ \cup {Entry(op, place)}]
           [] op.op = "fork_scenario" -> [book EXCEPT !.forks = Put(@, op.id, <<>>)]
           [] op.op = "set_opening_balance" -> [book EXCEPT !.opening = op.amount]
           [] op.op = "set_horizon" -> [book EXCEPT !.horizon = op.from..(op.until - 1)]

(* The books along the operations: the loop goes on past a refusal.        *)
Outcomes(book, ops) ==
    LET after[n \in 0..Len(ops)] == IF n = 0 THEN book ELSE ApplyOp(after[n - 1], ops[n], n)
    IN  [book |-> after[Len(ops)],
         ok |-> [n \in 1..Len(ops) |-> ~Refused(after[n - 1], ops[n], n)]]

(* dry_run: numbers the operations it is given anew, stops at the first    *)
(* refusal, and keeps what it tried.                                       *)
DryRun(book, ops) ==
    LET ok == Outcomes(book, ops).ok
        bad == {n \in 1..Len(ops) : ~ok[n]}
    IN  IF bad = {} THEN [ok |-> TRUE, ops |-> ops]
        ELSE [ok |-> FALSE, ops |-> SubSeq(ops, 1, Min(bad))]

(* Some event has the place, in this list, of one the book has already.    *)
TakenPlaces(book, ops) ==
    \E n \in DOMAIN ops : ops[n].op = "add_event" /\ EventId(ops[n], n) \in EventIds(book)

-----------------------------------------------------------------------------
(* The target rule.                                                        *)
BookIsEmpty(book) == DOMAIN book.base = {} /\ book.ledger = {} /\ DOMAIN book.forks = {}

ForkNameFor(slug, taken) ==
    LET stem == IF slug = "base" THEN "base-import" ELSE slug
        free == {n \in 1..(Cardinality(taken) + 1) : <<stem, n>> \notin taken}
    IN  <<stem, Min(free)>>

DecideTarget(book, slug) ==
    IF BookIsEmpty(book) THEN [scenario |-> BaseScenario, createdFork |-> FALSE]
    ELSE [scenario |-> ForkNameFor(slug, Scenarios(book)), createdFork |-> TRUE]

(* existing_items: the lines the book had when the run read it.            *)
ExistingItems(book, target) ==
    DOMAIN Lines(book, IF target.scenario \in Scenarios(book) THEN target.scenario ELSE BaseScenario)

(* The book-level operations: the fork and nothing else, or the sheet's    *)
(* opening balance and horizon.  A cell that was named and holds no number *)
(* gives nothing, whatever amount was given beside it.                     *)
OpeningBalance(sheet, opening) ==
    LET value == IF opening.cell # None THEN ReadNumber(sheet, opening.cell) ELSE opening.amount
    IN  IF value = None THEN <<>> ELSE <<SetOpeningBalance(value)>>

PreludeFrom(sheet, target, plan) ==
    IF target.createdFork THEN <<ForkScenario(target.scenario)>>
    ELSE OpeningBalance(sheet, plan.opening) \o
         (IF plan.horizon = None THEN <<>>
          ELSE IF plan.horizon[2] > plan.horizon[1]
               THEN <<SetHorizon(plan.horizon[1], plan.horizon[2])>> ELSE <<>>)

-----------------------------------------------------------------------------
(* What an import may author.  guard() drops what the model may not name,  *)
(* and a span that ends before it starts.                                  *)
ImportOps == {"add_item", "set_amount", "add_event"}
ForkSafeOps == {"add_item", "set_amount"}
Guarded(op) == op.op \in ImportOps /\ (op.op = "add_item" => op.until > op.from)

FreeId(existing, original) ==
    Append(original, Min({n \in 1..(Cardinality(existing) + 1) : Append(original, n) \notin existing}))

(* Mutant: a line the book has is taken over.                              *)
NameAsGiven(naming, existing, op) ==
    [naming EXCEPT !.authored = IF op.op = "add_item" THEN @ \cup {op.id} ELSE @,
                   !.accepted = Append(@, op)]

(* _name_safely: a new line keeps off the lines the book had, and a change *)
(* is to a line this import authored.                                      *)
NameSafely(naming, existing, op) ==
    LET renamed == IF op.id \in DOMAIN naming.renames THEN naming.renames[op.id]
                   ELSE FreeId(existing, op.id)
        id == IF op.op = "add_item" /\ op.id \in existing THEN renamed
              ELSE IF op.op = "set_amount" /\ op.id \in DOMAIN naming.renames
                   THEN naming.renames[op.id]
              ELSE op.id
    IN  IF op.op = "set_amount" /\ id \notin naming.authored THEN naming
        ELSE [renames |-> IF op.op = "add_item" /\ op.id \in existing
                          THEN Put(naming.renames, op.id, renamed) ELSE naming.renames,
              authored |-> IF op.op = "add_item" THEN naming.authored \cup {id} ELSE naming.authored,
              accepted |-> Append(naming.accepted, [op EXCEPT !.id = id])]

(* _accept: guard, keep what is allowed, stamp the target, name safely.    *)
Accept(names, existing, target, intents) ==
    LET allowed == IF target.createdFork THEN ForkSafeOps ELSE ImportOps
        Take(naming, op) ==
            IF Guarded(op) /\ op.op \in allowed
            THEN NameSafely(naming, existing, [op EXCEPT !.scenario = target.scenario]) ELSE naming
    IN  FoldLeft(Take, [renames |-> names.renames, authored |-> names.authored, accepted |-> <<>>],
                 intents)

(* The operations authored so far, and the checks followed to new names.   *)
Operations(prelude, sections) ==
    LET all == prelude \o FlattenSeq(sections)
    IN  SubSeq(all, 1, Min({Len(all), MaxOperations}))

EffectiveChecks(checks, renames) ==
    [n \in DOMAIN checks |->
        [checks[n] EXCEPT !.items = {IF i \in DOMAIN renames THEN renames[i] ELSE i : i \in @}]]

(* _reconcile: everything authored on a scratch copy, against the sheet.   *)
FiguresFor(book, target) ==
    IF target.createdFork
    THEN Added(FiguresOf(book, target.scenario), FiguresOf(book, BaseScenario))
    ELSE FiguresOf(book, target.scenario)

Reconciled(book, target, ops, sheet, checks) ==
    LET outcome == Outcomes(book, ops)
    IN  [ok |-> outcome.ok, rows |-> Evaluate(FiguresFor(outcome.book, target), sheet, checks)]

(* The place of a section's operations among all of them, and those of     *)
(* them the engine refused.                                                *)
Offset(prelude, sections, k) ==
    Len(prelude) + Len(FlattenSeq(SubSeq(sections, 1, k - 1)))
BrokenOperations(prelude, sections, k, ok) ==
    {n \in DOMAIN sections[k] : LET place == n + Offset(prelude, sections, k)
                                IN  place \in DOMAIN ok /\ ~ok[place]}
Without(ops, places) ==
    FoldLeftDomain(LAMBDA kept, n : IF n \in places THEN kept ELSE Append(kept, ops[n]), <<>>, ops)
DropRefused(prelude, sections, k, ok) ==
    [sections EXCEPT ![k] = Without(@, BrokenOperations(prelude, sections, k, ok))]

(* Mutant: the card carries what was refused, too.                         *)
CarryAll(ops, ok) == ops

(* _applied_cleanly: what the card carries.                                *)
AppliedCleanly(ops, ok) == Without(ops, {n \in DOMAIN ok : ~ok[n]})
=============================================================================
