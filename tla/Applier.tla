------------------------------ MODULE Applier ------------------------------
(***************************************************************************)
(* One operation onto one kit: apps/service/cashkit_service/ops (applier,  *)
(* months), the write verbs of cashkit/sdk/kit.py and the macros.  A kit   *)
(* is [set, rows, voided]: the scenarios, the ledger rows in order and the *)
(* ids of the rows that are tombstoned.  Every operator takes a kit to     *)
(* [kit, ok]; one that is refused gives back the kit it was given.         *)
(*                                                                         *)
(* Days are numbered from 1, in months of the lengths of MonthLengths, over *)
(* and over.  An item has a direction, segments, tags and an agg_rule; a   *)
(* segment a window, an anchor, and either an amount or a schedule.        *)
(***************************************************************************)
EXTENDS Scenarios

CONSTANTS
    MonthLengths, \* days of the months of a year
    LastMonth,    \* bound: the months the calendar goes up to
    Absent,       \* Python's None in an optional field
    Eom           \* EOM: the last day of the month, whichever day that is

ASSUME CalendarAssumption ==
    /\ MonthLengths \in Seq(Nat \ {0}) /\ MonthLengths # <<>>
    /\ LastMonth \in Nat \ {0}
ASSUME FieldsAssumption == OverlayFields = {"direction", "segments", "tags", "agg_rule"}

-----------------------------------------------------------------------------
(* The calendar.                                                           *)

LengthOf(m) == MonthLengths[((m - 1) % Len(MonthLengths)) + 1]
FirstDays == [m \in 1 .. (LastMonth + 1) |-> 1 + MapThenSumSet(LengthOf, 1 .. (m - 1))]
FirstOf(m) == FirstDays[m]
LastOf(m) == FirstDays[m + 1] - 1
MonthOf(day) == CHOOSE m \in 1 .. LastMonth : day \in FirstOf(m) .. LastOf(m)
Calendar == 1 .. LastOf(LastMonth)

(* Months clamp the day to the end of the month.                           *)
AddMonths(day, n) ==
    LET m == MonthOf(day) IN Min({FirstOf(m + n) + day - FirstOf(m), LastOf(m + n)})

(* An operation comes with days, [day], or with months that name no day,   *)
(* [month].  A month is its first for a boundary and the book's accounting *)
(* day for the start of a line; "eom" also anchors the line to month ends. *)
IsMonth(slot) == slot # Absent /\ "month" \in DOMAIN slot
Boundary(slot) == CASE slot = Absent -> Absent
                    [] IsMonth(slot) -> FirstOf(slot.month)
                    [] OTHER         -> slot.day
ParseAccountingDay(stored) == IF stored = Eom THEN Eom ELSE Min({Max({stored, 1}), 28})
AccountingDate(month, day) ==
    IF day = Eom THEN LastOf(month) ELSE Min({FirstOf(month) + day - 1, LastOf(month)})

ExpandMonths(op, stored) ==
    LET day == ParseAccountingDay(stored) IN
    CASE op.op = "add_item" ->
             IF IsMonth(op.start)
             THEN [op EXCEPT !.start = AccountingDate(@.month, day), !.end = Boundary(@),
                             !.anchor = IF day = Eom THEN Eom ELSE @]
             ELSE [op EXCEPT !.start = Boundary(@), !.end = Boundary(@)]
      [] op.op = "set_amount"  -> [op EXCEPT !.from = Boundary(@)]
      [] op.op = "set_cutover" -> [op EXCEPT !.date = Boundary(@)]
      [] OTHER                 -> op

-----------------------------------------------------------------------------
(* Items.                                                                  *)

SegmentAmounts(segment) ==
    IF segment.schedule = Absent THEN {segment.amount}
    ELSE {segment.schedule[k].amount : k \in DOMAIN segment.schedule}

(* sign_conflict: the problem isolated_problems refuses a write for.       *)
Agrees(amount, direction) ==
    amount = 0 \/ direction = Absent \/ (amount > 0) = (direction = "in")
SignConflict(item) ==
    \E k \in DOMAIN item.segments : \E a \in SegmentAmounts(item.segments[k]) :
        ~Agrees(a, item.direction)

Signed(amount, direction) == IF Agrees(amount, direction) THEN amount ELSE -amount

(* A window is valid when it ends after it starts: Segment's validator,    *)
(* which model_copy() does not run.                                        *)
Loadable(segment) ==
    /\ segment.end # Absent => segment.end > segment.start
    /\ segment.schedule # <<>>

InWindow(segment, day) == segment.start <= day /\ (segment.end = Absent \/ day < segment.end)

(* The days a segment falls due: month by month from its start, or at the  *)
(* end of each month; a schedule's dates are its occurrences, whatever the *)
(* window says.                                                            *)
Anchors(segment) ==
    LET months == MonthOf(segment.start) .. LastMonth IN
    {d \in {IF segment.anchor = Eom THEN LastOf(m)
            ELSE AddMonths(segment.start, m - MonthOf(segment.start)) : m \in months} :
        InWindow(segment, d)}

Occurrences(segment) ==
    IF segment.schedule = Absent
    THEN {[day |-> d, amount |-> segment.amount, nth |-> 1] : d \in Anchors(segment)}
    ELSE {[day |-> segment.schedule[k].day, amount |-> segment.schedule[k].amount, nth |-> k] :
              k \in DOMAIN segment.schedule}

ItemOccurrences(item) == UNION {Occurrences(item.segments[k]) : k \in DOMAIN item.segments}
AccruesOn(item, day) ==
    MapThenSumSet(LAMBDA k : MapThenSumSet(LAMBDA o : o.amount,
                      {o \in Occurrences(item.segments[k]) : o.day = day}), DOMAIN item.segments)

-----------------------------------------------------------------------------
(* The macros.                                                             *)

ShiftSegment(segment, months) ==
    [segment EXCEPT
        !.start = AddMonths(@, months),
        !.end = IF @ = Absent THEN Absent ELSE AddMonths(@, months),
        !.schedule = IF @ = Absent THEN Absent
                     ELSE [k \in DOMAIN @ |-> [@[k] EXCEPT !.day = AddMonths(@, months)]]]

ScaleSegment(segment, factor) ==
    IF segment.schedule = Absent THEN [segment EXCEPT !.amount = @ * factor]
    ELSE [segment EXCEPT !.schedule = [k \in DOMAIN @ |-> [@[k] EXCEPT !.amount = @ * factor]]]

(* A selector is a conjunction of key:value terms.                         *)
Matches(selector, item) == \A k \in DOMAIN selector : Get(item.tags, k, Absent) = selector[k]
Retag(item, tags) == [item EXCEPT !.tags = Over(tags, @)]

(* What a macro makes of an item.                                          *)
Rewritten(macro, item) ==
    IF macro.op = "retag_items" THEN Retag(item, macro.tags)
    ELSE [item EXCEPT !.segments = [k \in DOMAIN @ |->
             IF macro.op = "shift_items" THEN ShiftSegment(@[k], macro.by)
             ELSE ScaleSegment(@[k], macro.factor)]]

(* A macro is expanded at once: every item it matches in the resolved      *)
(* scenario is rewritten and written back through SetItem.                 *)
Rewrite(set, id, i, macro, item) ==
    IF Rewritten(macro, item) = item THEN set ELSE SetItem(set, id, i, Rewritten(macro, item))

RewriteAll(set, id, macro, items, matched) ==
    FoldLeft(LAMBDA done, i : Rewrite(done, id, i, macro, items[i]), set, matched)

ApplyMacro(set, id, macro) ==
    LET items == Resolve(set, id).items IN
    RewriteAll(set, id, macro, items,
               SetToSeq({i \in DOMAIN items : Matches(macro.selector, items[i])}))

(* Where a shift would leave the calendar of the model.                    *)
Shiftable(items, months) ==
    \A i \in DOMAIN items : \A k \in DOMAIN items[i].segments :
        LET s == items[i].segments[k]
            days == {s.start} \cup ({s.end} \ {Absent}) \cup
                    (IF s.schedule = Absent THEN {}
                     ELSE {s.schedule[n].day : n \in DOMAIN s.schedule})
        IN \A d \in days : MonthOf(d) + months <= LastMonth

-----------------------------------------------------------------------------
(* The verbs of the kit: what is wrong with an item by itself is refused,  *)
(* and what the scenarios recorded is written to the working tree.         *)

Done(kit) == [kit |-> kit, ok |-> TRUE]
Refused(kit) == [kit |-> kit, ok |-> FALSE]
Wrote(kit, set) == Done([kit EXCEPT !.set = set])

KitSetItem(kit, scenario, i, item) ==
    IF ~Exists(kit.set, scenario) \/ SignConflict(item) THEN Refused(kit)
    ELSE Wrote(kit, SetItem(kit.set, scenario, i, item))

KitMacro(kit, scenario, macro) ==
    IF ~Exists(kit.set, scenario) THEN Refused(kit)
    ELSE Wrote(kit, ApplyMacro(kit.set, scenario, macro))

KitFork(kit, parent, new) ==
    IF ~Exists(kit.set, parent) \/ Exists(kit.set, new) THEN Refused(kit)
    ELSE Wrote(kit, Fork(kit.set, parent, new))

InLedger(kit, id) == \E n \in DOMAIN kit.rows : kit.rows[n].id = id
Row(kit, id) == kit.rows[CHOOSE n \in DOMAIN kit.rows : kit.rows[n].id = id]

KitAddEvent(kit, row) ==
    IF InLedger(kit, row.id) THEN Refused(kit)
    ELSE Done([kit EXCEPT !.rows = Append(@, row)])

KitVoid(kit, id) ==
    IF id \in kit.voided THEN Refused(kit) ELSE Done([kit EXCEPT !.voided = @ \cup {id}])

KitCorrect(kit, id, row) ==
    IF id \in kit.voided THEN Refused(kit)
    ELSE Done([kit EXCEPT !.voided = @ \cup {id}, !.rows = Append(@, row)])

-----------------------------------------------------------------------------
(* The operations.                                                         *)

BuildItem(op) ==
    [direction |-> op.direction, tags |-> op.tags, agg_rule |-> "sum",
     segments |-> <<[start |-> op.start, end |-> op.end, anchor |-> op.anchor,
                     amount |-> Signed(op.amount, op.direction), schedule |-> Absent]>>]

(* A new amount from a day on: a segment that starts later takes it, one   *)
(* that reaches past the day is split there.                               *)
Restate(segment, amount) == [segment EXCEPT !.amount = amount, !.schedule = Absent]
(* Mutant: the segment is rewritten, not split.                            *)
Overwritten(segment, from, amount) ==
    IF segment.end # Absent /\ segment.end <= from THEN <<segment>>
    ELSE <<Restate(segment, amount)>>

SplitAt(segment, from, amount) ==
    IF segment.end # Absent /\ segment.end <= from THEN <<segment>>
    ELSE IF segment.start >= from THEN <<Restate(segment, amount)>>
    ELSE <<[segment EXCEPT !.end = from], Restate([segment EXCEPT !.start = from], amount)>>

Amended(item, from, amount) ==
    [item EXCEPT !.segments =
        IF from = Absent THEN [k \in DOMAIN @ |-> Restate(@[k], amount)]
        ELSE FlattenSeq([k \in DOMAIN @ |-> SplitAt(@[k], from, amount)])]

SetAmount(kit, op, scenario) ==
    LET items == Resolve(kit.set, scenario).items IN
    IF op.item \notin DOMAIN items THEN Refused(kit)
    ELSE KitSetItem(kit, scenario, op.item,
                    Amended(items[op.item], op.from, Signed(op.amount, items[op.item].direction)))

(* One date of the first segment that has dates.                           *)
WithoutDate(schedule, day) == SelectSeq(schedule, LAMBDA e : e.day # day)
WithDate(schedule, entry) == SortSeq(Append(schedule, entry), LAMBDA a, b : a.day < b.day)
Redated(schedule, day, new, amount) ==
    SortSeq([k \in DOMAIN schedule |->
                IF schedule[k].day # day THEN schedule[k]
                ELSE [day |-> IF new = Absent THEN day ELSE new,
                      amount |-> IF amount = Absent THEN schedule[k].amount ELSE amount]],
            LAMBDA a, b : a.day < b.day)

Edited(schedule, op, direction) ==
    CASE op.action = "remove" -> WithoutDate(schedule, op.date)
      [] op.action = "add"    -> WithDate(schedule, [day |-> op.date,
                                                     amount |-> Signed(op.amount, direction)])
      [] OTHER                -> Redated(schedule, op.date, op.new,
                                         IF op.amount = Absent THEN Absent
                                         ELSE Signed(op.amount, direction))

EditScheduleDate(kit, op, scenario) ==
    LET items == Resolve(kit.set, scenario).items
        item == items[op.item]
        dated == {k \in DOMAIN item.segments : item.segments[k].schedule # Absent}
        schedule == item.segments[Min(dated)].schedule
        edited == Edited(schedule, op, item.direction)
        named == \E k \in DOMAIN schedule : schedule[k].day = op.date
    IN IF \/ op.item \notin DOMAIN items
          \/ dated = {}
          \/ op.action = "add" /\ op.amount = Absent
          \/ op.action = "change" /\ ~named
          \/ edited = <<>>
       THEN Refused(kit)
       ELSE KitSetItem(kit, scenario, op.item,
                       [item EXCEPT !.segments[Min(dated)].schedule = edited])

(* An entry is an actual only on the flow that records actuals, and only   *)
(* when its day has come; without a day nobody guesses.                    *)
OnRecordFlow(op, context) == op.op = "record_actual" \/ context = "actuals_record"
EventStatus(op, context, today) ==
    IF OnRecordFlow(op, context) /\ op.date <= today THEN "actual" ELSE "forecast"

(* The id of an entry is made of the operation, so that applying it again  *)
(* is not a second entry.                                                  *)
EventId(op, seq) == [digest |-> op, seq |-> seq]

AddEvent(kit, op, context, today, seq) ==
    IF op.date = Absent THEN Refused(kit)
    ELSE KitAddEvent(kit, [id |-> EventId(op, seq), date |-> op.date,
                           amount |-> Signed(op.amount, op.direction),
                           status |-> EventStatus(op, context, today)])

(* A correction keeps the status of what it corrects.                      *)
CorrectActual(kit, op) ==
    LET original == Row(kit, op.event) IN
    IF ~InLedger(kit, op.event) THEN Refused(kit)
    ELSE KitCorrect(kit, op.event,
            [original EXCEPT !.id = [corrects |-> op.event, n |-> Len(kit.rows)],
                             !.amount = op.amount,
                             !.date = IF op.date = Absent THEN @ ELSE op.date])

RemoveEvent(kit, op) ==
    IF ~InLedger(kit, op.event) \/ Row(kit, op.event).status = "actual" THEN Refused(kit)
    ELSE KitVoid(kit, op.event)

SetHorizon(kit, op) ==
    IF op.end <= op.start THEN Refused(kit)
    ELSE Wrote(kit, SetBook(kit.set, "horizon", [start |-> op.start, end |-> op.end]))

(* apply_op: never an exception, whatever the operation.                   *)
ApplyOp(kit, op, scenario, context, today, seq) ==
    CASE op.op = "add_item"     -> KitSetItem(kit, scenario, op.item, BuildItem(op))
      [] op.op = "set_amount"   -> SetAmount(kit, op, scenario)
      [] op.op \in {"shift_items", "scale_items"} -> KitMacro(kit, scenario, op)
      [] op.op \in {"add_event", "record_actual"} -> AddEvent(kit, op, context, today, seq)
      [] op.op = "correct_actual" -> CorrectActual(kit, op)
      [] op.op = "fork_scenario"  -> KitFork(kit, IF op.parent = Absent THEN scenario ELSE op.parent,
                                             op.name)
      [] op.op = "set_cutover"    -> Wrote(kit, SetBook(kit.set, "cutover", op.date))
      [] op.op = "set_horizon"    -> SetHorizon(kit, op)
      [] op.op = "set_opening_balance" -> Wrote(kit, SetBook(kit.set, "opening", op.amount))
      [] op.op = "remove_event"   -> RemoveEvent(kit, op)
      [] op.op = "edit_schedule_date" -> EditScheduleDate(kit, op, scenario)

(* A list of operations stops at the first that is refused.                *)
TargetOf(op, scenario) == Get(op, "scenario", scenario)
ApplyNext(done, ops, n, scenario, context, today) ==
    IF ~done.ok THEN done
    ELSE ApplyOp(done.kit, ops[n], TargetOf(ops[n], scenario), context, today, n)

ApplyAll(kit, ops, scenario, context, today) ==
    FoldLeft(LAMBDA done, n : ApplyNext(done, ops, n, scenario, context, today), Done(kit),
             [n \in DOMAIN ops |-> n])
=============================================================================
