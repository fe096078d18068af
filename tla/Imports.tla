------------------------------- MODULE Imports -------------------------------
(***************************************************************************)
(* One import of a workbook: POST /import (routers/imports.py), its        *)
(* background task (imports/runner.py and the awaits of imports/loop.py),  *)
(* the listeners of its progress (imports/jobs.py), and the user, who goes *)
(* on using the book meanwhile and may accept the card at any time.        *)
(*                                                                         *)
(* Coroutines of one event loop: a step is what lies between two awaits.   *)
(* The model is asked in steps of their own, in which nothing is held.     *)
(***************************************************************************)
EXTENDS ImportRules

CONSTANTS
    Listeners,   \* clients of the stream
    Books,       \* the books an instance starts from
    Moves,       \* what the user does to the book besides: an operation and its place
    Slug,        \* the file's name, as a scenario name
    Sheet,       \* the workbook: cells and what they hold
    Plans,       \* answers to the planning prompt
    Answers,     \* answers to an authoring or revising prompt
    Attempts,    \* llm_json_retries + 1
    MaxCalls,    \* import_max_llm_calls
    ReviseRounds,  \* import_revise_rounds
    Faults,      \* the faults an instance has: "database", "book", "shutdown"
    MaxMoves     \* bound: moves of the user

ASSUME BooksAreBooks == \A b \in Books : IsBook(b) /\ IsCounted(b)
ASSUME MovesAreOperations == \A move \in Moves : IsOperation(move.op) /\ move.place \in Nat
ASSUME AnswersAreOperations ==
    \A answer \in Answers : IsList(answer) /\ \A op \in ToSet(answer) : IsOperation(op)
ASSUME PlansAreReadable ==
    \A plan \in Plans :
       /\ plan.sections \in Nat
       /\ IsList(plan.checks) /\ \A check \in ToSet(plan.checks) : IsCheck(check)
       /\ plan.opening.amount \in Int \cup {None}
       /\ plan.horizon # None => plan.horizon[1]..(plan.horizon[2] - 1) \subseteq AllMonths
ASSUME SheetHoldsNumbers == \A ref \in DOMAIN Sheet : Sheet[ref] # Text => Sheet[ref] \in Int

VARIABLES
    book,    \* the book
    run,     \* the task: where it is and what ImportLoop holds
    events,  \* ImportJob.events
    done,    \* ImportJob.finished
    row,     \* the import_jobs row's status
    card,    \* the proposal, as committed
    ears,    \* the streams: what each was sent and what waits in its queue
    moves    \* bound: how often the user moved the book

vars == <<book, run, events, done, row, card, ears, moves>>

At(place) == run.at = place
Working == run.at \notin {"off", "over", "dead"}
Deaf == [at |-> "off", seen |-> <<>>, queue |-> <<>>]
End == "end of stream"   \* the None that finish() queues
NoCard == [status |-> "none", ops |-> <<>>, stamp |-> None, ok |-> FALSE]

Init ==
    /\ book \in Books
    /\ run = [at |-> "off", target |-> None, existing |-> {}, checks |-> <<>>, prelude |-> <<>>,
              sections |-> <<>>, renames |-> <<>>, authored |-> {}, k |-> 0, round |-> 0,
              ok |-> <<>>, calls |-> 0, incomplete |-> FALSE, rows |-> <<>>, status |-> "running",
              carried |-> <<>>, reported |-> None]
    /\ events = <<>> /\ done = FALSE /\ row = "none" /\ card = NoCard
    /\ ears = [l \in Listeners |-> Deaf]
    /\ moves = 0

(* ImportJob.emit: recorded, and handed to every listener.                 *)
Heard(batch, l) == IF ears[l].at = "on" THEN [ears[l] EXCEPT !.queue = @ \o batch] ELSE ears[l]
(* Mutant: handed to the listeners there are, and not recorded.            *)
EmitUnrecorded(batch) ==
    /\ UNCHANGED events
    /\ ears' = [l \in Listeners |-> Heard(batch, l)]
Emit(batch) ==
    /\ events' = events \o batch
    /\ ears' = [l \in Listeners |-> Heard(batch, l)]

(* POST /import: the target is decided under the lock, and the row is      *)
(* committed before the task starts.                                       *)
Post ==
    /\ At("off")
    /\ run' = [run EXCEPT !.at = "opening", !.target = DecideTarget(book, Slug)]
    /\ row' = "running"
    /\ UNCHANGED <<book, events, done, card, ears, moves>>

(* TurnJournal.open, outside the runner's try: if it raises nobody is told.*)
Open ==
    /\ At("opening")
    /\ \/ run' = [run EXCEPT !.at = "reading"] /\ Emit(<<"parsing", "parsed">>)
       \/ "database" \in Faults /\ run' = [run EXCEPT !.at = "dead"] /\ UNCHANGED <<events, ears>>
    /\ UNCHANGED <<book, done, row, card, moves>>

(* The book is read once, before the first call.                           *)
ReadBook ==
    /\ At("reading")
    /\ run' = [run EXCEPT !.at = "planning", !.existing = ExistingItems(book, run.target)]
    /\ Emit(<<"target", "planning">>)
    /\ UNCHANGED <<book, done, row, card, moves>>

-----------------------------------------------------------------------------
(* ask_json: a call is made again while its answer is unreadable, and none *)
(* past the ceiling.                                                       *)
Asking == {"planning", "authoring", "revising"}
Answered(calls) == calls \in (run.calls + 1)..(run.calls + Attempts) /\ calls <= MaxCalls
Spent == Min({run.calls + Attempts, MaxCalls})

(* No answer: at the ceiling or unreadable, the import goes on to its      *)
(* report with what it has.                                                *)
StopAsking ==
    /\ run.at \in Asking
    /\ run' = [run EXCEPT !.at = "finishing", !.calls = Spent, !.incomplete = TRUE]
    /\ UNCHANGED <<book, events, done, row, card, ears, moves>>

(* No provider, a row that cannot be written, a book that cannot be had    *)
(* (kit_lock: BUSY): the import has failed.                                *)
Fails ==
    /\ \/ run.at \in Asking /\ run.calls + Attempts <= MaxCalls
       \/ run.at \in Asking \cup {"proposing", "answering"} /\ "database" \in Faults
       \/ run.at \in {"reading", "reconciling", "finishing", "proposing", "answering"} /\ "book" \in Faults
    /\ run' = [run EXCEPT !.at = "writing", !.status = "failed"]
    /\ UNCHANGED <<book, events, done, row, card, ears, moves>>

(* On to the section after the k-th, or to the report.                     *)
AfterSection(state) ==
    IF state.k < Len(state.sections) THEN [state EXCEPT !.at = "authoring", !.k = @ + 1]
    ELSE [state EXCEPT !.at = "finishing"]
SectionOpens(state) == IF state.k < Len(state.sections) THEN <<"section">> ELSE <<>>

PlanSections ==
    /\ At("planning")
    /\ \E plan \in Plans, calls \in 1..MaxCalls :
          /\ Answered(calls)
          /\ run' = [run EXCEPT !.at = "authoring", !.calls = calls, !.checks = plan.checks,
                                !.sections = [n \in 1..plan.sections |-> <<>>], !.k = 1,
                                !.prelude = PreludeFrom(Sheet, run.target, plan)]
    /\ Emit(<<"planned", "section">>)
    /\ UNCHANGED <<book, done, row, card, moves>>

Author ==
    /\ At("authoring")
    /\ \E answer \in Answers, calls \in 1..MaxCalls :
          LET taken == Accept(run, run.existing, run.target, answer) IN
          /\ Answered(calls)
          /\ run' = [run EXCEPT !.at = "reconciling", !.calls = calls, !.round = 0,
                                !.sections[run.k] = taken.accepted,
                                !.renames = taken.renames, !.authored = taken.authored]
    /\ Emit(<<"authored">>)
    /\ UNCHANGED <<book, done, row, card, moves>>

Reconcile ==
    LET checks == EffectiveChecks(run.checks, run.renames)
        ops == Operations(run.prelude, run.sections)
        result == Reconciled(book, run.target, ops, Sheet, checks)
        broken == BrokenOperations(run.prelude, run.sections, run.k, result.ok)
        clean == broken = {} /\ CountOf(result.rows, "mismatched") = 0
        told == <<"checks">>   \* one event per row, in one step
        dropped == [run EXCEPT !.sections = DropRefused(run.prelude, @, run.k, result.ok)]
    IN  /\ At("reconciling")
        /\ IF clean
           THEN run' = AfterSection(run) /\ Emit(told \o SectionOpens(run))
           ELSE IF run.round >= ReviseRounds
           THEN /\ run' = AfterSection(dropped)
                /\ Emit(told \o (IF broken = {} THEN <<>> ELSE <<"dropped">>) \o SectionOpens(run))
           ELSE /\ run' = [run EXCEPT !.at = "revising", !.ok = result.ok]
                /\ Emit(told \o <<"revising">>)
        /\ UNCHANGED <<book, done, row, card, moves>>

(* A revision replaces the section; an empty one ends it.                  *)
Revise ==
    /\ At("revising")
    /\ \E answer \in Answers, calls \in 1..MaxCalls :
          LET taken == Accept(run, run.existing, run.target, answer)
              named == [run EXCEPT !.renames = taken.renames, !.authored = taken.authored,
                                   !.calls = calls, !.ok = <<>>]
              broken == BrokenOperations(run.prelude, run.sections, run.k, run.ok)
          IN  /\ Answered(calls)
              /\ IF taken.accepted # <<>>
                 THEN /\ run' = [named EXCEPT !.at = "reconciling", !.round = @ + 1,
                                              !.sections[run.k] = taken.accepted]
                      /\ UNCHANGED <<events, ears>>
                 ELSE /\ run' = AfterSection([named EXCEPT
                                    !.sections = DropRefused(run.prelude, @, run.k, run.ok)])
                      /\ Emit((IF broken = {} THEN <<>> ELSE <<"dropped">>) \o SectionOpens(run))
    /\ UNCHANGED <<book, done, row, card, moves>>
-----------------------------------------------------------------------------
(* _finish: the report, of everything the engine took.                     *)
Finish ==
    LET ops == Operations(run.prelude, run.sections)
        result == Reconciled(book, run.target, ops, Sheet, EffectiveChecks(run.checks, run.renames))
        carried == AppliedCleanly(ops, result.ok)
        partial == run.incomplete \/ CountOf(result.rows, "mismatched") > 0
    IN  /\ At("finishing")
        /\ run' = [run EXCEPT !.at = IF carried = <<>> THEN "answering" ELSE "proposing",
                              !.rows = result.rows, !.reported = book,
                              !.status = IF partial THEN "partial" ELSE "done",
                              !.carried = carried]
        /\ UNCHANGED <<book, events, done, row, card, ears, moves>>

(* proposals.create, on a connection of its own and under the lock again.  *)
Propose ==
    LET dry == DryRun(book, run.carried) IN
    /\ At("proposing")
    /\ card' = [status |-> "pending", ops |-> dry.ops, stamp |-> book, ok |-> dry.ok]
    /\ run' = [run EXCEPT !.at = "answering"]
    /\ UNCHANGED <<book, events, done, row, ears, moves>>

Answer ==
    /\ At("answering")
    /\ run' = [run EXCEPT !.at = "writing"]
    /\ UNCHANGED <<book, events, done, row, card, ears, moves>>

(* The row; if it cannot be written the stream still gets the answer.      *)
WriteRow ==
    /\ At("writing")
    /\ run' = [run EXCEPT !.at = "closing"]
    /\ row' = run.status \/ ("database" \in Faults /\ UNCHANGED row)
    /\ UNCHANGED <<book, events, done, card, ears, moves>>

(* job.finish: the end, to every listener.                                 *)
Terminal(status) == IF status = "failed" THEN "failed" ELSE "done"
(* Mutant: finish() tells nobody.                                          *)
FinishSilently(batch) == done' = TRUE /\ Emit(batch)
FinishJob(batch) ==
    /\ done' = TRUE
    /\ events' = events \o batch
    /\ ears' = [l \in Listeners |-> Heard(batch \o <<End>>, l)]

(* journal.close, outside the try again; then the terminal event.          *)
CloseJournal ==
    /\ At("closing")
    /\ \/ run' = [run EXCEPT !.at = "over"] /\ FinishJob(<<Terminal(run.status)>>)
       \/ "database" \in Faults /\ run' = [run EXCEPT !.at = "dead"] /\ UNCHANGED <<events, ears, done>>
    /\ UNCHANGED <<book, row, card, moves>>

(* ImportRegistry.close_all: CancelledError is no Exception.               *)
Shutdown ==
    /\ "shutdown" \in Faults /\ Working
    /\ run' = [run EXCEPT !.at = "dead"]
    /\ UNCHANGED <<book, events, done, row, card, ears, moves>>

-----------------------------------------------------------------------------
(* ImportRegistry.stream: the buffer, then what arrives; a client may go   *)
(* away and come back.                                                     *)
Listen(l) ==
    /\ ~At("off") /\ ears[l].at = "off"
    /\ ears' = [ears EXCEPT ![l] =
           [at |-> "on", seen |-> <<>>, queue |-> IF done THEN Append(events, End) ELSE events]]
    /\ UNCHANGED <<book, run, events, done, row, card, moves>>

Delivered(ear) ==
    IF Head(ear.queue) = End THEN [ear EXCEPT !.at = "ended", !.queue = <<>>]
    ELSE [ear EXCEPT !.seen = Append(@, Head(ear.queue)), !.queue = Tail(@)]
Deliver(l) ==
    /\ ears[l].at = "on" /\ ears[l].queue # <<>>
    /\ ears' = [ears EXCEPT ![l] = Delivered(@)]
    /\ UNCHANGED <<book, run, events, done, row, card, moves>>

HangUp(l) ==
    /\ ears[l].at = "on" /\ moves < MaxMoves
    /\ ears' = [ears EXCEPT ![l] = Deaf]
    /\ moves' = moves + 1
    /\ UNCHANGED <<book, run, events, done, row, card>>

(* The user: a change to the book by some other card, at a place of it.    *)
Move(op, place) ==
    /\ moves < MaxMoves /\ ~At("off") /\ ~Refused(book, op, place)
    /\ book' = ApplyOp(book, op, place)
    /\ moves' = moves + 1
    /\ UNCHANGED <<run, events, done, row, card, ears>>

(* POST /proposals/{id}: refreshed when the book moved, refused when the   *)
(* rehearsal fails.                                                        *)
RefreshCard ==
    LET dry == DryRun(book, card.ops) IN
    /\ card.status = "pending" /\ card.stamp # book
    /\ card' = [status |-> "pending", ops |-> dry.ops, stamp |-> book, ok |-> dry.ok]
    /\ UNCHANGED <<book, run, events, done, row, ears, moves>>

AcceptCard ==
    /\ card.status = "pending" /\ card.stamp = book /\ DryRun(book, card.ops).ok
    /\ card' = [card EXCEPT !.status = "accepted"]
    /\ book' = Outcomes(book, card.ops).book
    /\ UNCHANGED <<run, events, done, row, ears, moves>>

Work ==
    \/ Open \/ ReadBook \/ StopAsking \/ Fails \/ PlanSections \/ Author \/ Reconcile \/ Revise
    \/ Finish \/ Propose \/ Answer \/ WriteRow \/ CloseJournal

Next ==
    \/ Post \/ Work \/ Shutdown \/ RefreshCard \/ AcceptCard
    \/ \E move \in Moves : Move(move.op, move.place)
    \/ \E l \in Listeners : Listen(l) \/ Deliver(l) \/ HangUp(l)

(* The event loop runs the task, answers come or time out, and every       *)
(* listener's socket is written to.  A task that is neither over nor dead  *)
(* always has a step, so the first conjunct is WF_vars(Work), written      *)
(* without ENABLED.                                                        *)
WorkGoesOn == []<>~Working \/ []<><<run' # run>>_vars
Spec == Init /\ [][Next]_vars /\ WorkGoesOn /\ \A l \in Listeners : WF_vars(Deliver(l))
-----------------------------------------------------------------------------
(* SPEC 7.3: an import into a book that has a plan is a new scenario and   *)
(* nothing else.  Whatever the model answered and whatever happened to the *)
(* book meanwhile, accepting a card that forks leaves the base, the other  *)
(* scenarios and the shared ledger alone, and the lines the book had when  *)
(* the import read it are in the fork as they are in the base.             *)
ForkImportsOnlyAdd ==
    [][(/\ card.status = "pending" /\ card'.status = "accepted"
        /\ ForkScenario(run.target.scenario) \in ToSet(card.ops)) =>
          /\ [book' EXCEPT !.forks = book.forks] = book
          /\ \A s \in DOMAIN book.forks : book'.forks[s] = book.forks[s]
          /\ \A i \in run.existing \cap DOMAIN book.base :
                Lines(book', run.target.scenario)[i] = book.base[i]]_vars

(* SPEC 7.5: what the report says is what the card does.  A matched row    *)
(* agrees to the cent, a difference of one cent is labelled and stays one, *)
(* and the card, if it was made for the book that was reported on, gives   *)
(* the figures of the report: what was refused is in neither.  It applies  *)
(* in full unless one of its events now has the place of one the book has: *)
(* the card numbers anew what was left, and an event's id is its place.    *)
(* Against a plan that already had lines, a monthly total is that of the   *)
(* lines the card adds, unless the user has added one of the same name     *)
(* meanwhile: the report takes that one off.                               *)
ReportIsHonest ==
    run.reported # None =>
        /\ \A n \in DOMAIN run.rows : LET r == run.rows[n] IN
              /\ r.status = "matched" => r.engine \in {r.sheet, -r.sheet}
              /\ r.parity => r.status = "mismatched"
        /\ run.status = "done" => Tally(run.rows).mismatched = 0
        /\ card.stamp = run.reported =>
              /\ card.ok <=> ~TakenPlaces(run.reported, run.carried)
              /\ card.ok => run.rows = Evaluate(FiguresFor(Outcomes(card.stamp, card.ops).book, run.target),
                                               Sheet, EffectiveChecks(run.checks, run.renames))
        /\ ForkScenario(run.target.scenario) \in ToSet(run.carried) =>
              LET imported == Outcomes(run.reported, run.carried).book.forks[run.target.scenario]
                  Sum(m) == MapThenSumSet(LAMBDA i : imported[i][m], DOMAIN imported)
              IN  DOMAIN imported \cap DOMAIN run.reported.base = {} =>
                    \A n \in DOMAIN run.rows :
                       run.checks[n].measure = "net" /\ run.rows[n].engine # None =>
                          run.rows[n].engine = Sum(run.checks[n].period)

(* "A listener that arrives late, or reconnects, sees the whole run": what *)
(* a stream was sent and has waiting is everything that was emitted, in    *)
(* order, whenever it came, and the end once the job is finished; it ends  *)
(* with everything sent, the terminal event last, and there is one.        *)
StreamsSeeEverything ==
    /\ \A l \in Listeners :
          /\ ears[l].at = "on" =>
                ears[l].seen \o ears[l].queue = IF done THEN Append(events, End) ELSE events
          /\ ears[l].at = "ended" => done /\ ears[l].seen = events
    /\ \A n \in DOMAIN events : events[n] \in {"done", "failed"} => n = Len(events) /\ done

(* A listener is not kept waiting for ever, unless the task was cancelled  *)
(* or the journal could not be opened or closed: those two lie outside the *)
(* runner's try (run_job: "nothing raises out of here").                   *)
StreamsEnd ==
    \A l \in Listeners : ears[l].at = "on" ~> (ears[l].at # "on" \/ At("dead"))

(* loop.py: "a non-empty book always gets a fresh fork ... never base".    *)
(* Refuted: the name may be taken while the import runs; the fork is then  *)
(* dropped as refused and the lines go to the scenario that took it.       *)
FreshForkOrNothing ==
    [][card.status = "none" /\ card'.status = "pending" /\ run.target.createdFork =>
          ForkScenario(run.target.scenario) \in ToSet(card'.ops)]_vars

(* loop.py: "Whatever the engine still refuses is dropped rather than      *)
(* carried into a card that cannot be applied."  Refuted: an event that    *)
(* comes after a dropped one takes the place, and so the id, of another.   *)
CardsCanBeApplied == run.reported # None /\ card.stamp = run.reported => card.ok

(* run_job: "every failure becomes an emitted failed event and a stored    *)
(* job row".  Refuted by a shutdown, and by a journal that cannot be       *)
(* written.                                                                *)
EveryRunIsAnswered == At("opening") ~> done

(* "so nothing was imported": a failed import leaves no card.  Refuted when*)
(* the card is stored and reading it back fails.                           *)
FailedImportLeavesNoCard == run.status = "failed" => card = NoCard
=============================================================================
