--------------------------- MODULE Reconciliation ---------------------------
(***************************************************************************)
(* apps/service/cashkit_service/imports/checks.py: the sheet's own totals  *)
(* against the engine's figures.  Both sides are computed; the model only  *)
(* says which cell is a total and of what.                                 *)
(*                                                                         *)
(* Amounts are in cents.  A book here is what the figures are made of: the *)
(* opening balance, the months of its horizon, the lines of the base, the  *)
(* lines each scenario sets over them, and the ledger's entries, which     *)
(* every scenario shares.  A line is its amount in every month.            *)
(***************************************************************************)
EXTENDS Integers, Sequences, FiniteSets, FiniteSetsExt, SequencesExt, Functions

CONSTANTS
    MaxMonth,    \* the months of the instance are 1..MaxMonth
    ParityTolerance,  \* PARITY_TOLERANCE, in cents
    None,        \* Python's None
    Text         \* what a cell that holds no number holds

ASSUME ToleranceIsACent == ParityTolerance \in Nat
ASSUME MonthsAreFinite == MaxMonth \in Nat

(* A scenario is a name and the number that told it from its namesakes.   *)
BaseScenario == <<"base", 1>>
AllMonths == 1..MaxMonth
Series == [AllMonths -> Int]
Constantly(amount, from, until) ==
    [m \in AllMonths |-> IF from <= m /\ m < until THEN amount ELSE 0]

(* f over g, and f with one more key, as @@ and :> have them.              *)
Over(f, g) == [x \in DOMAIN f \cup DOMAIN g |-> IF x \in DOMAIN f THEN f[x] ELSE g[x]]
Put(f, key, value) == Over([x \in {key} |-> value], f)

Lines(book, scenario) ==
    IF scenario \in DOMAIN book.forks THEN Over(book.forks[scenario], book.base) ELSE book.base
Scenarios(book) == {BaseScenario} \cup DOMAIN book.forks

(* The carrier of the events that belong to no line: one column.           *)
Unattached(book) ==
    [m \in AllMonths |-> MapThenSumSet(LAMBDA e : e.amount, {e \in book.ledger : e.month = m})]

-----------------------------------------------------------------------------
(* Figures.of: columns of the run, split by sign; the balance is the       *)
(* opening balance and everything since the first month.                   *)
FiguresOf(book, scenario) ==
    LET lines == Lines(book, scenario)
        Up(n) == IF n > 0 THEN n ELSE 0
        In(m) == Up(Unattached(book)[m]) + MapThenSumSet(LAMBDA i : Up(lines[i][m]), DOMAIN lines)
        Out(m) == -Up(-Unattached(book)[m]) - MapThenSumSet(LAMBDA i : Up(-lines[i][m]), DOMAIN lines)
        Net(m) == In(m) + Out(m)
    IN  [basis |-> "absolute", months |-> book.horizon,
         inflow |-> [m \in book.horizon |-> In(m)],
         outflow |-> [m \in book.horizon |-> Out(m)],
         net |-> [m \in book.horizon |-> Net(m)],
         closing |-> [m \in book.horizon |->
                         book.opening + MapThenSumSet(Net, {n \in book.horizon : n <= m})],
         perItem |-> lines]

(* Mutant: what the import added is what the scenario holds.               *)
AddedNothing(target, baseline) == [target EXCEPT !.basis = "added"]

(* Figures.added: what the import adds to a scenario that has a plan; a    *)
(* balance cannot be compared there.                                       *)
Added(target, baseline) ==
    LET Minus(f, g) == [m \in target.months |-> f[m] - (IF m \in DOMAIN g THEN g[m] ELSE 0)]
    IN  [target EXCEPT
            !.basis = "added",
            !.inflow = Minus(@, baseline.inflow),
            !.outflow = Minus(@, baseline.outflow),
            !.net = Minus(@, baseline.net),
            !.perItem = [i \in DOMAIN @ |->
                IF i \in DOMAIN baseline.perItem
                THEN [m \in AllMonths |-> @[i][m] - baseline.perItem[i][m]] ELSE @[i]]]

(* CheckSpec; a single item is a set of one.                               *)
Measures == {"closing", "total_in", "total_out", "net", "items_total"}
IsCheck(check) ==
    /\ DOMAIN check = {"ref", "measure", "period", "items", "since", "until"}
    /\ check.measure \in Measures

(* value_for: the engine's figure, or None when there is none to compare.  *)
Window(figures, since, until) ==
    {m \in figures.months : (since # None => m >= since) /\ (until # None => m <= until)}

ValueFor(figures, check) ==
    LET known == check.items \subseteq DOMAIN figures.perItem
        span == IF check.period # None THEN figures.months \cap {check.period}
                ELSE Window(figures, check.since, check.until)
        Column(m) == CASE check.measure = "closing"   -> figures.closing[m]
                       [] check.measure = "total_in"  -> figures.inflow[m]
                       [] check.measure = "total_out" -> figures.outflow[m]
                       [] check.measure = "net"       -> figures.net[m]
    IN  IF check.measure = "items_total" THEN
            IF check.items = {} \/ ~known \/ span = {} THEN None
            ELSE MapThenSumSet(LAMBDA i : MapThenSumSet(LAMBDA m : figures.perItem[i][m], span),
                               check.items)
        ELSE IF \/ check.measure = "closing" /\ figures.basis = "added"
                \/ check.period \notin figures.months THEN None
        ELSE Column(check.period)

-----------------------------------------------------------------------------
(* _one: a row of the report.  A sheet that writes outflows as positive    *)
(* numbers is compared with its sign turned, when that comes closer; a     *)
(* cent of difference is labelled and stays a mismatch.                    *)
SignFlexible == {"total_out", "items_total"}
Abs(n) == IF n < 0 THEN -n ELSE n

Verdict(check, basis, status, sheet, engine, delta) ==
    [ref |-> check.ref, basis |-> basis, status |-> status, sheet |-> sheet,
     engine |-> engine, delta |-> delta,
     parity |-> status = "mismatched" /\ Abs(delta) <= ParityTolerance]

(* Mutant: a difference of a cent is a match.                              *)
Forgiven(figures, check, sheet, engine) ==
    LET plain == engine - sheet
        flipped == engine + sheet
        delta == IF check.measure \in SignFlexible /\ Abs(flipped) < Abs(plain) THEN flipped ELSE plain
    IN  Verdict(check, figures.basis, IF Abs(delta) <= ParityTolerance THEN "matched" ELSE "mismatched",
                sheet, engine, delta)

Compared(figures, check, sheet, engine) ==
    LET plain == engine - sheet
        flipped == engine + sheet
        delta == IF check.measure \in SignFlexible /\ Abs(flipped) < Abs(plain) THEN flipped ELSE plain
    IN  Verdict(check, figures.basis, IF delta = 0 THEN "matched" ELSE "mismatched", sheet, engine, delta)

(* read_number: a cell that holds no number gives nothing to compare with. *)
ReadNumber(sheet, ref) == IF ref \in DOMAIN sheet /\ sheet[ref] # Text THEN sheet[ref] ELSE None

One(figures, sheet, check) ==
    LET value == ReadNumber(sheet, check.ref)
        engine == ValueFor(figures, check)
    IN  IF value = None \/ engine = None
        THEN Verdict(check, figures.basis, "skipped", value, None, 0)
        ELSE Compared(figures, check, value, engine)

Evaluate(figures, sheet, checks) == [n \in DOMAIN checks |-> One(figures, sheet, checks[n])]

(* tally and ReconciliationReport.partial.                                 *)
CountOf(rows, status) == Cardinality({n \in DOMAIN rows : rows[n].status = status})
Tally(rows) ==
    [matched |-> CountOf(rows, "matched"), mismatched |-> CountOf(rows, "mismatched"),
     skipped |-> CountOf(rows, "skipped"),
     parityNotes |-> Cardinality({n \in DOMAIN rows : rows[n].parity})]

(* evidence_for: the lines behind the months that do not agree.            *)
EvidenceFor(book, scenario, checks, rows) ==
    LET lines == Lines(book, scenario)
        months == {checks[n].period : n \in {k \in DOMAIN rows : rows[k].status = "mismatched"}} \cap book.horizon
        cells == {c \in months \X DOMAIN lines : lines[c[2]][c[1]] # 0}
    IN  {[month |-> c[1], item |-> c[2], value |-> lines[c[2]][c[1]]] : c \in cells}
=============================================================================
