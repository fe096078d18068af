# CashKit: a TLA+ development

CashKit is a deterministic cash-flow engine with a file-backed store (`cashkit/`), a
FastAPI service that serves one book per user over it (`apps/service/cashkit_service/`), and
clients of that service. This directory holds TLA+ modules of its stateful parts, TLC
configurations that check them on small instances, and proofs of the results that matter most
for every instance. Paths below are relative to the repository.

Contents: [the system](#1-the-system), [the modules](#2-the-modules-and-the-code),
[the runs](#3-the-runs), [fairness](#4-fairness), [what is proved](#5-what-is-proved),
[divergences](#6-where-code-and-documents-part), [what is left out](#7-what-is-not-modelled),
[the plan](#8-plan).

## 1. The system

| part | state it keeps | operations | hard behaviour |
|---|---|---|---|
| Ledger store `stores/ledger.py` | two SQLite tables: `ledger_entries` (append-only; events and tombstones), `import_log` | `add_event`, `import_events`, `void_event`, `correct_event`, `facts`, `watermark` | several connections share the file and no ledger write takes the writer lock: every operation is a run of SELECTs and then a transaction |
| Writer lock `stores/lock.py` | the file `.cashkit/lock` | `acquire`, reclaim of a stale lock, `release` | system calls of several processes interleave; a holder may die; a body is written after the file is created |
| Book store `sdk/kit.py`, `stores/config.py`, `git_store.py`, `revisions.py` | the working tree, the revision history, the kit's state in memory | `open`, edits (each ends in `_save`), `add_event`, `commit`, `discard`, `status` | a kit keeps a copy of the tree; `commit` reads the ledger several times while others append; crash between two writes |
| Proposals `proposals.py`, `routers/book_edits.py`, `books.py` | the `proposals` table, the open book behind a per-book `asyncio.Lock` | create a card, accept, discard a card, save, discard, activate a scenario, sweep pending cards, expire | the card is read before the lock is taken, written inside it, committed after it; the book is on disk and the card in Postgres |
| Operation applier `ops/applier.py`, `dryrun.py`, `months.py` | none (works on a kit or on a copy) | apply one operation, rehearse a list | idempotent by construction of values and ids; an amount from a date on splits a segment; a macro rewrites what a selector matches |
| Scenario overlays `sdk/scenarios.py`, `sdk/macros.py`, `model/scenario.py` | overrides per scenario by field, removals, additions, chain of parents | set, remove, unset, parameters, macros, fork, flatten, resolve, provenance, diff | what a scenario does not record follows its parents, now and later |
| Engine `engine/*.py` | per `Engine`: the compiled book, the facts, a column cache and the diagnostics per item | construction, `run`, `delta` (replace items and recompute what depends on them) | what a partial recomputation may keep; feedback loops folded day by day; rounding, calendars, escalation, the cutover, a credit carried over returns |
| Formulas `engine/formula.py`, `columns.py`, `fold.py` | none | parse, render, evaluate by columns or cell by cell | two evaluators and an oracle that must agree to the minor unit and on every flag |
| Reference engine `reference/engine.py` | none | the repository's own oracle for the engine | exact decimals against minor units |
| Introspection `sdk/introspection.py` | none (reads a run) | `trace`, `why_zero`, `depends_on`, `dependents_of`, `describe_book` | explains columns that `delta()` kept |
| Frame store `stores/frames.py`, `sdk/execution.py` | duckdb tables by run key | materialize, frame, pivot, compare, export | stocks collapse by a rule of their own; runs share the store |
| Turn pipeline `agent/*.py`, `routers/turns.py` | `turns`, `llm_calls` in Postgres | run one conversational turn | a budget read before what it admits is charged, two connections per request, a provider that answers anything |
| Import jobs `imports/*.py`, `routers/imports.py` | one background task and one event buffer per job, its row | start, author section by section, reconcile, revise, propose, stream, cancel | the book moves under the import; a late listener; a task cancelled halfway |
| Accounts and retention `auth.py`, `retention.py`, `routers/me.py`, `ops/backup` | users, links, sessions, books, receipts, directories, the bucket | sign in, make a book, delete the account, back up, prune, sweep | requests race at every statement; directories and the bucket know no transaction; jobs are missed |
| Command line `cli/main.py` | none | wraps the kit | |
| Clients `apps/client` | view state | call the API | duplicated and late answers |

How they interact. A request of the service opens (or finds) the user's kit in `BookManager`,
holds that book's lock for the time it works with the kit, and has a database transaction of
its own. The kit writes through to the working tree and the ledger; only `commit()` takes the
writer lock, because a CLI or another process may be at the same directory. The engine is
called with the kit's state and the facts the ledger gives, and touches neither.

What makes each part correct:

* **ledger** - an actual is never destroyed, only restated; an event is voided or corrected at
  most once; an import is idempotent and logged truthfully; a read cut at a watermark is
  reproducible for ever;
* **lock** - at most one commit at a time; a lock does not outlive its owner; an acquire is
  always answered;
* **book store** - every revision can be recomputed from its own configuration and watermark;
  nothing disappears that nobody removed; what status calls clean is on disk;
* **proposals** - what is applied is what the user saw and confirmed; a card is resolved once;
  a card recorded as accepted did reach the book; every request ends;
* **engine** - a partial recomputation gives what a full one gives; the columns solve the
  formulas; legs add up to the amount they split and so does the VAT on them; nothing is counted
  twice at the cutover; the tax account closes;
* **formulas** - a text is worth the same to all three evaluators, and an explanation is in the columns;
* **overlays** - what is written is read where it was written and below; resolution is the same
  whether a scenario is flattened or not; the tree of a book always loads again;
* **turns** - what the provider charged is in the journal; the budget is overrun by a bound; no change
  the user asked for disappears;
* **imports** - an import that forks only adds; its report says what its card does; a stream misses nothing;
* **accounts** - a link opens one session; what a deletion says is gone is gone, from the backups as well.

## 2. The modules and the code

### Ledger, FactBook (`stores/ledger.py`)

`Ledger` is the table as a sequence, `log`; the AUTOINCREMENT number of an entry is its
position. One action stands for the Python between two SQL statements that matter, and `task`
holds the locals of the frame: `AddEvent` (both lookups) / `InsertEvent`; `ImportEvents` /
`ScanRow` (one lookup per row) / `ImportStaged` (one transaction) / `RecordImport` (another);
`VoidEvent` / `InsertVoid`; `CorrectEvent` / `ChooseCorrectionId` / `InsertCorrection`
(tombstone and replacement in one transaction); `HashRows` / `StampMaxSeq`; `ReadVoided` /
`ReadEvents`; `Crash`. The unique indexes are `Collides`. An event is its id, key
`(source, ext)`, status, `corrects` and an abstract payload; a digest is the event without its
id. Ids keep their structure: `e1~c1~c2` is `<<e1, 1, 2>>`, because the free-suffix search is
where two sessions meet.

The checks `AddEvent` and `VoidEvent` make before they write are two or three SELECTs taken as
one step; the model splits a handler only where what was read is used in a later transaction.

`FactBook` is what a reader may assume of a ledger: a name is absent, stands for one fact, or
is retired; a fact may be restated with its status kept, only what is not an actual may be
retired, and what is retired stays so.

### WriterLock (`stores/lock.py`)

One action per system call: `Acquire` (O_EXCL create), `WriteBody` / `FailBody`,
`ReadHolder`, `Refuse` / `Condemn` (the probe of the pid), `Unlink`, `CreateAgain`, `Release`,
`Die`. `noted` is the note CK-W010 a reclaimer leaves. `reclaimed` is a history variable.

### BookStore, RevisionReads, SnapshotHistory (`sdk/kit.py` and the stores under it)

`BookStore` EXTENDS `WriterLock`: the lock of a commit is the lock module's, call by call. A
book's configuration is its items, its parameters and one committed summary per scenario; the
ledger is its length, which `Ledger`'s `ReproducibleRead` justifies. `SetItem`, `RemoveItem` and
`SetParam` stand for every authoring call of the kit, all of which have the same shape: change the
state in memory, then `_save` the whole of it over the tree. The tree is written as
`write_working_tree` writes it: `Pass` gives every file its moment, the files of the state in the order
of their paths, then the removals; `WriteFile` is the next file that changes; `SaveDone` the return of the call. A file is emptied when it is
opened, so `Crash` may leave the file in the way in `torn`; `Loads` and `Loaded` are what
`load_state` makes of such a tree: every empty file is refused but `params.yaml`. `commit()` is
`EnterCommit`, `GetLock`, `ReadWatermark`, `RunScenario` (one per scenario, each with its own
read of the ledger), `BuildState` (the second watermark), `WriteTree`, `WriteRevision`,
`LeaveCommit`. `Discard` and `DiscardItem` restore from HEAD. The release of the lock and the
adoption of the watermark are one step: the latter touches only memory no other process sees.

`RevisionReads` is what a kit reads of the history, as operators on the same state: refs, the log
of a file and of a field, a past kit, `reproduce()`, `diff_revisions()`, `status()`. A revision is
its place in the history, a log is a set of places, and a run is what it was made from. The map to
`SnapshotHistory` (`Picture`) is here.

`SnapshotHistory` is ADR-0006 as a specification: a revision is a picture of the configuration
and the whole ledger at one moment.

### Proposals (`proposals.py`, `routers/book_edits.py`, `books.py`)

The service is one process with one event loop, so a step is what runs between two awaits. A
request has its own writes (`req[r].writes`), which the others do not see until `Commit`,
and which lock their rows. The actions are the route handlers cut at the awaits: `Arrive` /
`Resolve` (the card is read here), `MarkExpired` (on a second connection), `TakeLock`,
`Propose`, `DiscardCard`, `Refresh`, `Clarify`, `RefuseApply`, `Apply` / `MarkAccepted`,
`Save`, `DiscardOverlay`, `Activate`, `StartSweep` / `SupersedeNext` / `SweepDone`
(`supersede_pending`, an UPDATE that picks its rows when it starts and locks them one by one),
`Leave` (the book's lock) and `Commit` (the session dependency, after the response). `Fail` is
any exception and the 30-second wait for the book, `BreakDeadlock` is Postgres, `Crash` the
process, which may die between two operations of one apply. A change is a member of `Plans` or
of `Facts`; applying one twice is applying it once, as in `ops/applier.py`, where plan edits
write values and events take ids made of their operation.

### Money, Settlement, Graph, Engine (`engine/`)

Four layers, each EXTENDS the one before. The first three are operators, the last a state
machine.

* `Money` is `numeric.py`: one rounding, on the magnitude, under a policy. A rate is its
  numerator over `RateScale`.
* `Settlement` is the half of `expand.py`, `vat.py` and `calendars.py` that turns one accrued
  line into cash and VAT. `Settle` yields *postings* (column, day, amount); `Posted` scatters
  them and drops what falls outside the horizon. `Classify`, `ShareLegs`, `FixedLegs`, `NetLegs`,
  `LegTarget`, `LineVat`, `Allocate` are the functions of the same names in the code;
  `LinePostings` is a batch of lines, `Account` the credit and the payments of a regime from what is
  due at its returns, one `Assess` after the other.
* `Graph` is `compile_book` with the planning half of `tax.py`. A formula is a set of terms, each
  a reference (`it`, `prev`, `agg`, `cum`) with a measure and a rate, added up: what it reads
  and when is kept, its arithmetic is not. `Compile` = `Bind` (per item: the bound formula, its
  same-day and lagged dependencies, or its problems), `Link`, `Refuse` (a cycle without `prev`, or one
  through a tax item, disables its members).
* `Engine` is `run.py`, `facts.py`, `tax.py`, the occurrences of `expand.py`. Its variables are the
  fields of the class: `events`, `factset`, `compiled`, `columns` (`accrual`, `cash`, `vat`),
  `notes` (`item_diagnostics`); `regime` is the book's. `Init` is `__post_init__`; `Run` and
  `Delta` are the two methods, whole: an engine belongs to one caller and no step of another
  falls between. `Evaluated` is `_evaluate`: prepare, classify, expand, join the facts, then the
  components in order, each as a tax item, one column, or a fold.

Kept to one case each: the base grain is the day; a recurrence steps in days from its segment's
anchor; `prev` looks one day back; there is one tax regime, over every item with a VatSpec, whose
first return opens with the horizon; unattached events of a ledger have one shape, so there is one
synthetic item, `Loose`.

### Reference (`reference/engine.py`)

The oracle's own arithmetic on the compiled book of the engine, as in the code: occurrences one day
at a time, amounts as exact decimals quantized where `_settle` and `_vat_split` quantize, its own
splits, VAT and tax returns. `OracleAgrees` compares its columns with the engine's in every state.

### Formula, ColumnEvaluator, StagedCell, FormulaOracle, Introspection

`Formula` takes the tree Python's parser makes of a text to an expression of the closed node set or
to the code that refuses it, with the bounds on depth, lag and literals, and renders an expression
back. `ColumnEvaluator` is `columns.py`, `StagedCell` the compiler of `fold.py` (what is constant is
computed while compiling), `FormulaOracle` the reference's evaluator. They carry a division-by-zero
flag with every cell. `Introspection` is `trace` (`Trace`, `Landings`, `Bindings`), `why_zero`
(`Causes`, `WhyZero`) and the breadth-first walks (`Walk`). The trees are recursive, so these
modules are for TLC only; no module with a theorem reaches them.

### Scenarios, Applier, Frames, Authoring (`sdk/scenarios.py`, `ops/applier.py`, `stores/frames.py`)

`Scenarios` is the set of scenarios as a value and each method of `ScenarioSet` as an operator:
an overlay is a function on the fields it records (`Over`, `With`). `Chain` climbs to the root
(`Climb`); `Overlaid` is the loop of `_resolve_chain` over the chain, `Opened` what it does behind the
loop. `Applier` is `apply_op` for every operation of
the schema, over the write verbs of the kit and the macros; `SplitAt` and `SetAmount` are the split
of a segment at a date. `Frames` is the frame store's views: `Materialize`, `Pivot`, `Compare`, the rule
that collapses a bucket. `Authoring` composes them: the kit, the runs a caller holds, and the verbs and
cards in any order. A kit is a plain object of one process, so a verb is one step.

### Reconciliation, ImportRules, Imports (`imports/`)

`Reconciliation` is `checks.py`; `ImportRules` what `loop.py` decides between its awaits (target,
naming, which operations reach the card, the dry run); `Imports` the coroutines: `Post`, `Open`,
`ReadBook`, `PlanSections`, `Author`, `Reconcile`, `Revise`, `Finish`, `Propose`, `WriteRow`, `FinishJob`,
`CloseJournal`, `Shutdown`, and per listener `Listen`, `Deliver`, `HangUp`; `Fails` is a provider that is gone, a
row that cannot be written or a book that cannot be had in time (`kit_lock`). The user's own writes are
`Move`, `RefreshCard` and `AcceptCard`. The model behind the import answers anything in `Answers`.
An event without an id has one made from its payload and its place in the list it is applied from
(`EventId`), so the same one-off twice is two entries of the ledger, and the ledger refuses an event by its id
alone. The report tries every operation of the import at its place, the card those that were left at new
places (`DryRun`); what follows from that is in section 6.

### Turns (`agent/`, `routers/turns.py`)

A request walks the phases of `run_turn`: `Arrive`, `Renew`, `CheckTurn`, `Snapshot`, `OpenJournal`,
`Ask` / `Complete` / `RecordCall` for each call with its retries, the interpretation
(`FollowedUp`, `Read`, `Dry`, `Repaired`, `Verified`), `TakeBook`, `InsertCard`, `CloseJournal`,
`Respond`, `Commit`. Connections come from one pool of `PoolSize`, the session's row may be locked,
the book may be held by `OtherTakes`.

### Accounts (`auth.py`, `routers/`, `retention.py`, `ops/backup`)

One action per statement that others can see: `Consume`, `FindUser`, `InsertUser`, `OpenSession`,
`CommitSession`; `MakeDirectory`, `InsertBook`, `CommitBook`; `RevokeSessions`, `BurnLinks`, `Forget`,
`DropUser`, `CommitDeletion`; `Dump`, `Upload`, `Prune`, `Sweep` for the nightly jobs, of which any may be missed
or die between two of its steps; `Tick`. A link goes `LinkDays` (`login_token_retention_days`) after it has
expired. Row locks and foreign keys are guards.

## 3. The runs

Bounds are in the guards (`MaxLog`, `MaxImports`, `MaxLedger`, `MaxRevisions`, `MaxOpen`, `MaxRev`,
`MaxDeltas`, `MaxSteps`, `MaxWrites`, `MaxHeld`, `MaxMoves`, `MaxCalls`, `MaxDay`, `DaysOfUse`, `Kinds`) or in
the sizes of the constant sets; every one is a constant of its module.

| run | checks | instance | why that is enough |
|---|---|---|---|
| `LedgerOneWriter` | `CorrectionChainsAreLinear`, `ImportLogNeverOverclaims`, refinement `ImplementsFactBook` | one session, batches of up to two of four rows (a row, the same row again, the same key amended, a plan row), two imports, no write begun once the log has four entries, crashes | each lookup, each conflict, a chain of two corrections and an aborted batch occur |
| `LedgerSessions` | `ActualsSurvive`, `ReproducibleRead` | two sessions, one of which also reads and stamps; five entries | both may correct or void one event at once, and append between the two statements of a read |
| `LockWriters` | `ExclusiveUntilReclaimed`, `AcquireAnswers`, `DeadLockGoes` | three writers, any of which may die anywhere | a dead holder and two reclaimers, or two live writers and a bystander |
| `BookOneProcess` | `RevisionsReproduce`, `DiffsAreAccountedFor`, `CleanIsOnDisk`, refinement `ImplementsSnapshotHistory` | one process at a time, which may die and be followed by another; an item, a parameter, a scenario, two ledger entries, two revisions; writers symmetric | a crash at each file of a save and at each step of a commit, recovered by the next process, or a book that does not open again |
| `BookTwoProcesses` | `SnapshotsWithinWatermark` | two processes at once, commits of any subset of scenarios | every order of two commits and an append |
| `ProposalsSafety` | `ConfirmedIsApplied`, `AcceptedMeansApplied` | two requests, two cards, edits of a plan with and without an actual, save, discard, failures and crashes | two handlers interleave at every await; a third would meet one of the two at the lock |
| `ProposalsLiveness` | `RequestsAnswer` | two requests, accept, activate and discard of a card | the cross-wait of an accept's sweep and an activation's, which Postgres breaks |
| `EngineDelta` | `DeltaIsRun`, `ColumnsSolveTheirFormulas`, `VatIsConserved`, `OracleAgrees`, `EvaluatorsAgree`, `ExplanationsAreTrue` | six days, one of them closed, cutover on day 2, months of three days, rates in quarters; sales, costs, interest and a balance in a feedback loop; three ledgers, two regimes; every sequence of two replacements, full runs before, between and after; every text of a small language | replacements move dependencies by tag, by tax base, by formula and by breaking an item; refunds, credits, payments inside and outside the horizon, refused cycles, a share split with withholding, a clamped remainder, reverse charge, escalation and schedules occur; formulas have every node, constants beside columns, divisions by zero |
| `Authoring` | `WorkingTreeLoads`, `ViewsAgree`, `WritesReachTheirScenarios`, `FlattenKeepsTheBook`, `ChangesKeepHistory` | two books, two items, four scenarios two deep and one to flatten into; three steps, of which two write; two runs held | each verb in each place of a chain, before and after each other one; a split at, before and inside a segment; stocks beside flows in a table |
| `Imports` | `ForkImportsOnlyAdd`, `ReportIsHonest`, `StreamsSeeEverything`, `StreamsEnd` | one import, three calls of a model that answers anything in a small set, one move of the user's (a line, a payment from a card that begins with the same one, a scenario of the import's name), an accept at any time, a failing database, a book that cannot be had, a shutdown, a listener that comes and goes | plans that fork or not, names that are taken, a report with and without a mismatch, a revision round, the same one-off twice and beside it in the ledger, an opening balance from a cell or as an amount; a listener before, during and after the end |
| `Turns` | `ClosedTurnsCount`, `SpendIsBounded`, `CardsHaveTheirTurn`, `NoChangeIsLost`, `TurnsEnd` | two requests of one session, a pool of two, three calls, two attempts each, a budget of one and two turns an hour | both may wait for the other's connection or row; a change may arrive beside a question, a read, or in a repair |
| `Accounts` | `LinkOpensOneSession`, `ErasedIsGone`, `ClosedWindowsAreTrue`, `NothingIsOverdue` | three requests, two links, one day of use and one of the jobs alone, a retention of one day; requests and links symmetric | two verifications of one link, a deletion against a creation and a sign-in, each nightly job missed or dead before and after the deletion |

Deadlock is not checked in these runs: the bounds stop the system, and so does the death of
every writer. (An engine can always run again.)

What the passing runs say, beyond the formulas. One connection alone keeps its ledger in the
order ADR-0012 asks for, and several keep at least the part that loses no money history:
an actual never goes without its replacement. The lock is exclusive for as long as nobody
reclaims one, so every breach of it goes through a reclaim. A book with one process
reproduces every revision, whatever crashes between two files, and loses no committed item without
an author's word; with two, a revision can have seen less than it claims, but never more. The stamp
taken at the dry run notices every way a book can move, so a confirmed card is applied to the very
state it was rehearsed on. An engine's partial recomputation is an optimisation, for whatever moves
a dependency, and engine, oracle and explanations tell one story, with the exceptions of section 6.
A scenario is what its parents are, but for what it records. Whatever a model says, a turn accounts for
what it cost, an import into a new scenario only adds, and its report is about the card it made. A
deletion that was committed has taken with it what it could see.

## 4. Fairness

* `FairLockSpec` has weak fairness of `Proceed(w)` for each writer: a process inside
  `acquire()` or `release()` runs on unless it dies. Beginning an acquire and dying are not
  fair. Nothing else waits: `acquire()` has no retry loop.
* `Proposals!FairSpec` has strong fairness of `Proceed(r)`. A coroutine that can run is run
  (the event loop's ready queue), and what it waits for is handed out in order:
  `asyncio.Lock` and Postgres row locks are FIFO, so a waiter that can go on again and again is
  not passed over for ever. `BreakDeadlock` is inside `Proceed` because Postgres detects
  cycles by itself. Arrivals, failures and crashes are not fair, and liveness is not helped by
  them.
* `Imports!Spec`: the task's next step is always taken while it has one (`WorkGoesOn`: awaits of the
  model and of the database end, both have timeouts), and what waits in a connected listener's queue is
  sent. The user's moves, the accept, faults, and coming and going are not fair.
* `Turns!Spec`: strong fairness of each request's own steps, for the reasons above (the pool, too,
  hands connections out in order, and gives up after its timeout), and weak fairness of
  `OtherGives`: whoever holds the book lets it go. Arrivals, the book being busy and failing commits are not fair.
* `Accounts` states only safety: nothing in the code makes a nightly job run.

## 5. What is proved

`LedgerProofs`, `BookProofs` (the lock included), `ProposalsProofs`, `TurnsProofs`, `ImportsProofs`,
`AccountsProofs` and `KitProofs` (authoring, and the engine's settlements), checked by TLAPS for any values of
the constants; what a theorem assumes of them beyond the modules' own ASSUMEs is in its statement. `Sums` holds lemmas several of them cite.

### How the proofs go

A state property is proved from an inductive invariant that TLC has checked on the run of that
property. The invariant is a conjunction of named parts, there is a lemma per action or per group of
actions that leave the same things alone, and one that puts the parts together.

The prover takes no induction over an operator, but it takes the least element of a set it is given:
`LeastNatural` and `SmallestSubset` (`Sums`) say that a non-empty set of naturals, or of finite
sets, has a smallest member. A claim about a recursive function is then proved of its smallest
counterexample. `Sums` does so once for the sums of the community modules: `TotalOf(f, S)` is the
total of a function over a finite set, `MapThenSumSet` has it, and the lemmas say what a change of
one summand, an added one, or a bound on each does to the total.

### The ledger

* `TypeCorrect == Spec => []TypeOK`. One lemma per action.
* `ActualsAlwaysSurvive == Spec => []ActualsSurvive`. `ActualsSurvive` is not
  inductive: an `InsertCorrection` is only faithful if the replacement the session prepared
  is, and stays so while other sessions append. `SurvivalInv` adds `UniqueIds`
  (what the index on `event_id` gives, and without which an id could come to name an actual
  after its tombstone was prepared) and `PendingWrites` (a prepared tombstone names something
  that may be voided; a prepared replacement copies status and source). The argument: entries are
  only appended, so what a session read of an id stays true of it; a prepared write therefore
  stays justified until its transaction.
* `TruncatedReadsReproduce == Spec => []ReproducibleRead` (any sessions), if `None` is no
  number. `ReadInv` says of what a session holds of the past (its watermark, the tombstones of a
  truncated read between its two SELECTs, and what the read gave) that it is what the log says up to
  that number; `PastIsFixed` is the append-only argument, that no step changes what the log says up
  to a number it has reached.
* `OneSessionKeepsChainsLinear == Spec => []CorrectionChainsAreLinear`, for one session whose
  callers hand in no corrections of their own: both hypotheses are needed, and section 6 has what
  the code does without the first. `LinearInv` carries the checks of `void_event` and `correct_event`
  to the transaction that relies on them: until then the target is neither retired nor restated.
* `OneSessionImplementsFactBook == Spec => ImplementsFactBook`, under the same two hypotheses: the
  refinement. A name of `FactBook` is the root of a chain of corrections, and its fact the one live entry of
  that root. `FactInv` is `SurvivalInv` and `LinearInv` with `Rooted` (a name that was ever used has its
  root entry in the log), `OneLive` (at most one entry of a root is live, so the CHOOSE of the map picks
  it) and `Named` (what a session is about to write keeps the root of what it corrects). Every step is then
  a batch of facts recorded at once, a fact restated or retired, or a stutter.
* `ImportLogIsHonest == Spec => []ImportLogNeverOverclaims` (any finite set of sessions). Rows and their
  `import_log` row are two transactions, so the property is not inductive: `TallyInv` adds to what the
  log claims what the sessions between the two hold, `Claimed + Planned <= |Held|`. The log is kept
  in one sum and the sessions in another; a step moves an amount from one to the other, raises the
  right side by as much, or (a crash) drops it.

### The writer lock and the book store

* `LockTypeCorrect` and `LockIsExclusive == LockSpec => []ExclusiveUntilReclaimed`,
  by `ExclusionInv`: until the first reclaim nobody stands between the test of a holder and
  the second create, the file at the path names whoever created it, and a create finds the path
  taken.
* `BookLockIsExclusive == Spec => []ExclusiveUntilReclaimed`
  carries the lock's invariant over: every action of a book is one of the
  lock's or leaves the lock alone (`BookMovesLock`).
* `SnapshotsStayWithinWatermark == Spec => []SnapshotsWithinWatermark`, for any number of processes. The
  property is not inductive: a revision is
  made of a state that was in a kit, in the locals of a commit, in the files being written and in the
  tree before. `BookInv` says of every such place that no summary in it saw more than the ledger
  holds, or less than its mark, and of a commit past `BuildState` that its watermark covers its
  summaries; the ledger only grows, so each stays true of what was read (`SoundGrows`), and a tree
  half rewritten has each summary from one sound state or the other (`FilesAreSound`).
* `OneProcessReproduces`, `CleanSurvives`, `DiffsAreExplained` and `OneProcessImplementsSnapshotHistory`
  state `RevisionsReproduce`, `CleanIsOnDisk`, `DiffsAreAccountedFor` and the refinement of
  `SnapshotHistory` under `OneProcess`: one process has the book open at a time, and commits are asked for every
  scenario. Both halves are needed: section 6 has the configurations that refute the first and the
  third property without them. Processes still die at every step and between any two files, and
  others open what they left. One invariant carries the four, `SoloInv`: whoever does not have the book open is in the middle of
  nothing (`Alone`); during a commit the ledger and the kit's plan stand still and what has been run is a picture of now
  (`Committing`); the tree is the kit's plan, or every file up to the pass the save has reached is
  (`OnDisk`, with the order of the passes from `LayoutIsComplete`); what a revision has is missing from
  a later one, the tree or a kit only if somebody took it out (`Kept`); every revision is a picture of one moment
  (`Pictures`). An emptied `params.yaml` is the case that makes it hard: it reads as no parameters,
  so `OnDisk` speaks of the tree as `load_state` reads it and `Kept` of items only. The diff
  theorem also needs that a file which differs between two revisions was touched by one between them: the least such
  revision, by `LeastNatural`.

### Proposals and turns

* `ConfirmedCardsApply == Spec => []ConfirmedIsApplied` and
  `AcceptsAreApplied == Spec => []AcceptedMeansApplied` (Proposals, any requests, edits and failures),
  if no row is taken for `None`. `CardsInv` says where a row may be: in the table, or in a transaction,
  where it is a new status of a card of the table (`SameCard`: same stamp, same operations) or a card
  nobody else has and that is on its way out. So a card keeps what it promised from the dry
  run to the accept, the stamp compared under the lock says the book is the one it was promised
  for, and a row says accepted only after `Apply`.
* `ClosedTurnsAreAccounted == Spec => []ClosedTurnsCount` (Turns, any requests). `JournalInv`: while a
  turn is within its transaction its row is open and the calls kept for it add up to what it was charged;
  the call about to be recorded has no row yet; a closed row has the sum.
* `CardsComeFromTurns == Spec => []CardsHaveTheirTurn` and `ChangesAreCarried == Spec => []NoChangeIsLost`,
  by `CarryInv`: at every phase of a turn, what the model named while it was asked what is wanted is in the
  list the turn carries, or the turn was repaired, or it is about to answer with a reason; and a card that can be seen is
  the one its turn was closed with. The lists are sequences filtered and cut at the first refusal; their
  lemmas come first in the module.
* `DaysStayWithinBudget == Spec => []SpendIsBounded`: the budget is read once per turn, before what it
  admits is charged, so the bound has a term for the turns that are open beside each other. `SpendInv`
  bounds what the rows of today say by the budget and by the calls of the turns that were let past it: each
  holds a connection, and one that closes its row finds another one free, so of a pool only so many can do it
  beside each other. The property is a sum over all requests and `SpentToday` one over the closed ones:
  `Sums` relates them.

### Imports

* `LateListenersSeeEverything == Spec => []StreamsSeeEverything`, for any books, plans, answers, faults and
  listeners. A listener has two parts of the buffer, what it was sent and what waits; `StreamInv` says of
  both together that they are the buffer, with the end behind it once the job is finished, and that
  `finish()` comes once, after the last stage: the task is over when it is done, and what it emits
  before is never a terminal event. The buffer grows by batches and a listener's queue by the same ones, so
  the steps of the task are one lemma (`EmitKeeps`); a delivery moves the head of a queue (`DeliverKeeps`),
  and is the end only if nothing is behind it (`EndIsLast`).
* `ForkedImportsOnlyAdd == Spec => ForkImportsOnlyAdd`, for any workbook, answers of the model and moves of the user
  at any point of the import. Nothing but what the card holds and the book at the accept decide it, so the
  invariant is about the lists. `ForkInv`: every list an import keeps, and the card, hold only what is
  `Offered` to it: the fork itself, or an intent of the model that an import into a fork may carry, stamped with
  the fork and named off the lines that were read. A new name is one of `Cardinality + 1` candidates
  (`OneIsFree`), so one is free, and a name once given is kept under a name of the book's (`Renamings`). An answer is
  taken in a fold: that it computes anything, and stays within what each step keeps, is `FoldsExist`. An accepted card has
  no refused operation, so the books along it are a path whose every step touches the fork alone
  (`ForkPathsAddOnly`); that the fork is created in it says that no scenario of the book had its name.
* `ReportsAreHonest == Spec => []ReportIsHonest`, for any sheet, plan, answers and moves of the user. The report is
  of the book the import had under the lock at its end, and the book may be another when the card is made, so
  `HonestInv` relates three books: the one reported on, today's and the card's. The book only grows (`Reaches`), and
  a card carries what was reported and applies to it, or it was cut short: because one of its events has the place of
  one in the book (`TakenPlaces`), or because the book had gained a scenario or an entry since (`Moved`), in which
  case it is for another book for good. What the engine refused on the way to the report is not in the
  card, and the rest, at new places, leads to a book with the same lines whose events have other ids
  (`CleanPaths`, by the least place where it would not). Along the two lists the two books stay `Beside` each other: what
  the second has in its ledger was there before, or has one of the places gone through, or an id of its own, so
  the next place is free and nothing but a taken place can refuse an event (`OnlyPlacesFail`); and each
  event that is taken in both adds its amount to its month in both (`EventLands`), so the same lines and
  the same months make the same figures (`FiguresAlike`) although the ledgers differ. What only a
  taken place can refuse on a book, only a taken place refuses on one that has more of the same lines
  (`PlacesStay`). The figures of the report are sums over the lines of a book: that each is a number
  (`FiguresCount`) is what makes a zero difference an agreement, and the totals of a fork are those of its own lines because a
  total over disjoint sets is the sum of both (`TotalOfBoth`) and the shared lines and the ledger cancel (`NetOfFork`).

### Accounts and retention

* `AccountsInvariant == Spec => []AccountsInv`, and from it `LinksAreSingleUse`, `DeletionsErase`,
  `ClosedWindowsHold` and `WindowsCloseOnTime`, which state the four properties of the run. Its parts: where a request
  stands and what it holds there (`Stages`); a link in a transaction is locked by it (`LinksLocked`); sessions, books and
  directories have owners who are there, or whose deletion is under way (`Owned`, `OneByOne`, `Erased`); snapshots
  are dated by the clock and taken at the hour of the job (`Clocked`), hold an account only if it was there (`Covered`), and after a
  prune are no older than the retention (`Pruned`); a receipt closed by a sweep with a marker has no snapshot left (`Closed`), one that is open
  is not past its term after a night's jobs (`Due`). The last is arithmetic on the hours of a day, and is
  where the two-step crash of a prune, a missed sweep and the marker meet.

### Authoring

`KitProofs`. The invariant is `KitInv == SoundKit(kit)`: every scenario records only what `Scenario`
accepts and is below its parent (`IsForest`: there is a rank that rises along `parent`, so chains end at a
root), the base scenario records nothing but the book, and the rows of the ledger have ids of their own.
Each method of `ScenarioSet`, each write verb of the kit and each of the thirteen operations of a card
has its lemma, and all say the same two things (`Outcome`): the kit is still sound, and the write `Touches`
only the records of the scenarios it was addressed to. A card is a fold of operations over the kit and a macro one
over items; that such a fold computes anything is shown once, by the least place where it would not.

* `TreeAlwaysLoads == Spec => []WorkingTreeLoads`. From the invariant. What is left is the map from
  chains to ways up the tree: `ChainIsTheWay` says that `Chain`, a fold as long as there are scenarios, has
  climbed to a root by its end, because along a rank it meets no scenario twice.
* `WritesAlwaysReach == Spec => WritesReachTheirScenarios`, an action property of three parts. *Nothing
  else moves*: a resolution depends on the records along its chain and on the book, and those of a scenario that is not below
  the one written to were not touched. *It is read where it was written*: what `set_item` records is the
  difference from the parent's view, and an overlay of a difference gives back the item. *It arrives below*: a
  descendant's chain is the chain of the scenario written to and a rest; going down the rest, a field either was
  recorded by one of its scenarios, and then is what it was and its origin says so (`Originates`), or is what
  came from above (`Shows`); `Arrives` is kept by each scenario of the rest. This is where provenance and
  resolution, two computations of the code, are shown to be about the same thing.
* `FlattenAlwaysKeeps == Spec => FlattenKeepsTheBook`, for chains of any length: the collapsed record is the
  difference between the view and the authored book, item by item, field by field, parameter by parameter
  (`Collapses`), and what a difference gives over what it was taken of is what it was taken to; the same for the
  overrides of events, and then `diff()` compares equal views.

What is refuted without the precondition `CaughtUp` stays refuted; the theorem is of the property as the run
checks it.

### The engine

`KitProofs` too, from the ASSUMEs of `Money` and `Settlement` only (a scale and a horizon that are positive).

* `RoundMagnitudeIsNearest`, `RoundDivIsOdd`, `MulRateIsNearest` (Money): a rounded quotient is
  within half a unit, under either policy, and rounding does not depend on the sign. From the
  division theorem alone.
* `LegsAddUp` (Settlement): however many legs, in shares or in fixed amounts with a remainder, and however each
  is rounded, they add up to the amount they split, unless the fixed ones are more than it, which is CK-W001.
  `VatIsSpreadWhole`: `Allocate` spreads the VAT of a line over its legs without losing a unit. The last
  leg takes what is left, so both are a claim about a partial sum, taken at the least leg for which it fails.
* `LineIsConserved`: a line that accrues, posted to any columns, with its legs on days of the horizon: VAT
  on cash is VAT on the invoice, on either side, and a line that is paid in full (nothing withheld, no CK-W001)
  moves the cash by its amount and the VAT paid with it. `LinesAreConserved`: the same of a batch of lines, however
  many, whose postings interleave. `Posted` is a fold of additions into columns; `PostingsMove` says that a
  column's total moves by the postings that land in it, and the rest is sums of sums (`Sums`).
* `ReturnBalances`: in one return, whatever the credit and the amount due, due + movement + change
  of credit is 0 without a surcharge and at most 0 with one, the credit stays a natural number, money
  only comes in as a refund. `AccountCloses`: the same of an account over any returns: on every day, what
  was due so far, moved so far and is carried is 0 without a surcharge and at most 0 with one. The account is
  a recursive function on days; that there is one is part of the proof.

`VatIsConserved` of the run is these theorems put together by the engine: which lines an item has, on
which days they fall, which items a return is over. That part, the order of evaluation and the
formulas between, stays with TLC.

### What the proofs assume

The modules' ASSUMEs, which TLC evaluates in every run: the sets of sessions and requests are finite
(`SessionsAreFinite`, `RequestsAreFinite`: a sum over them is a number; a service and a file have finitely
many); bounds, budget, retention and calls are numbers of the right sign; the rows an import is handed and the changes
of an answer are what the code's schemas make them (`RowsAreEvents`, `AnswersAreLists`, `EditsAreChanges`; in an import
`AnswersAreOperations`, `MovesAreOperations`, `PlansAreReadable`, `CeilingIsANumber`); a cell that is not text holds
a number (`SheetHoldsNumbers`: `read_number` gives nothing else); a book has finitely many lines and
scenarios, with whole cents in them and months of the calendar (`BooksAreBooks`, `MonthsAreFinite`); the paths of a tree are
distinct and sorted once each (`FilesAreDistinct`, `LayoutIsComplete`: ids are unique and `sorted` keeps
what it sorts); the kits a history starts from were loaded by the code's own checks, the items of callers have every
field, and the operations of a card are those of the schema (`KitsAssumption`, `InputsAssumption`,
`FieldsAssumption`); a horizon and a month have days (`HorizonAssumption`); a pool has two connections at least (`PoolIsUsable`). The rest (`HoldersAreDistinct`,
`NoRowIsMissing`, `NoneIsNoValue`, `NoneIsNoRow`, `NoneIsNoReason`) say that the value standing for
Python's `None`, or for a missing row, is none of the values beside it; TLA+ does not know that of a
CONSTANT.

### Only model-checked

* The formulas and what explains them (`EvaluatorsAgree`, `ExplanationsAreTrue`): a formula is a tree and the operators
  over it RECURSIVE, for which the prover has no backend, so `Formula`, `ColumnEvaluator`, `StagedCell`,
  `FormulaOracle` and `Introspection` are for TLC only.
* The engine's evaluation (`DeltaIsRun`, `ColumnsSolveTheirFormulas`, `OracleAgrees`, `VatIsConserved`): that a partial
  recomputation is a full one needs that the cone of a change is closed under the dependencies of a compiled
  book and that components come in an order of them, which is an induction over both the graph and the order of evaluation.
* `ViewsAgree`: sums over the rows of a frame grouped by period, level and collapse rule, for
  every table that can be held.
* `ChangesKeepHistory` holds on the run and not of every constant: a change of amount addressed to a scenario whose
  addition an ancestor has caught up with is written through the wrong branch (section 6, `CaughtUp`) and
  need not be read back. With that precondition it would be a statement about how `SplitAt` cuts the
  occurrences of a segment, with the calendar of months underneath.
* All liveness (`AcquireAnswers`, `DeadLockGoes`, `RequestsAnswer`, `StreamsEnd`, `TurnsEnd`: fairness and ENABLED
are beyond this prover).

## 6. Where code and documents part

Where a comment, a document or a test of the repository says more than the code does, the module states
what is said as a formula of its own, under the properties. Each is refuted when the formula is
added to the configuration named, with the change given.

| formula | says | configuration |
|---|---|---|
| `CorrectionChainsAreLinear` (Ledger) | an event is corrected once; the referential checks are SELECTs outside the transaction that writes, so two sessions may both correct one and its amount counts twice | `LedgerSessions` |
| `FactsReadIsSnapshot` (Ledger) | `facts()` gives the facts of some moment; it reads tombstones and events in two statements | `LedgerSessions` |
| `WatermarkDescribesOneLedger` (Ledger) | the fields of a watermark describe one ledger; they come from two statements | `LedgerSessions` |
| `NeverRaises` (Ledger) | `import_events` "never raises on row content"; it looks rows up by key and the id is unique too | `LedgerOneWriter` with `Rows <- ClashingRows` |
| `CorrectorsAreReferential` (Ledger) | a corrector names a voided event of the ledger; `add_event` does not look at `corrects` | `LedgerOneWriter` with `Rows <- CorrectingRows` |
| `OneReclaimerWins` (WriterLock) | "two reclaimers racing still produce exactly one winner" (`lock.py:155-156`); a slow reclaimer unlinks the file the fast one has just created | `LockWriters` |
| `LiveLockIsNeverReclaimed` (WriterLock) | a file without a body is corrupt; it is also the file of a writer that has not written it yet | `LockWriters` |
| `UnreadableIsRefused` (WriterLock) | an unreadable file is refused; it is reclaimed | `LockWriters` |
| `RevisionsReproduce` (RevisionReads) | a difference is CK-E028, "something outside (...) reached the computation"; after `commit(scenarios=[...])` the other summaries are kept under the new watermark | `BookOneProcess` with `Targets <- AnyScenarios` |
| `RevisionsReproduce` (RevisionReads) | the lock covers "the ledger watermark and the snapshots" (`kit.py:1187`); an event takes no lock, and may come between a scenario's run and the second watermark | `BookOneProcess` with `MaxOpen = 2` |
| `DiffsAreAccountedFor` (RevisionReads) | "fails loudly, never merges silently"; a kit opened earlier writes its own state over the tree | `BookOneProcess` with `MaxOpen = 2` |
| `BookOpensAgain` (RevisionReads) | a book survives a crash; an emptied item, header or summary is refused by `load_state`, and nothing repairs it | `BookOneProcess` |
| `ParametersNeverRevert` (RevisionReads) | as for items; an emptied `params.yaml` is read as no parameters (`config.py:352`, `or {}`) and committed as such. An emptied `config.toml` resets the rounding policy in the same way | `BookOneProcess` |
| `ResolvedIsFinal` (Proposals) | a card is resolved once; its status is read before the book's lock is taken, and not again | `ProposalsSafety` |
| `AppliedIsResolved` (Proposals) | an applied card is not left pending; the database may fail after the book was written | `ProposalsSafety` |
| `NeverHalfApplied` (Proposals) | a crash in the middle of an apply leaves half of the card | `ProposalsSafety` |
| `PendingIsFresh` (Proposals) | a sweep supersedes all pending cards; it cannot see one whose transaction has not committed | `ProposalsSafety` with `Kinds` having `"activate"` |
| `CaughtUp`, dropped from `WriteIsRead` (Authoring) | a write to a scenario is read there; an addition an ancestor has caught up with is overwritten through the wrong branch of `set_item` / `remove_item` | `Authoring` |
| `StaysInCalendar`, dropped from `AcceptCard` (Authoring) | the tree loads again; a clamped shift can make a segment end on its start | `Authoring` |
| `OneLevelAtMost`, dropped from `PivotAddsUp` (Authoring) | a pivot's cells add up; two `last` items in one cell leave only one | `Authoring` |
| `FreshForkOrNothing` (Imports) | an import forks into a scenario of its own; the fork is dropped when the name was taken meanwhile, and the lines land in the user's scenario | `Imports` |
| `CardsCanBeApplied` (Imports) | "Whatever the engine still refuses is dropped rather than carried into a card that cannot be applied" (`loop.py:483-484`); an event behind a dropped one takes its place, and with it the id of an entry the book has | `Imports` |
| `EveryRunIsAnswered` (Imports) | "Nothing raises out of here" (`runner.py`); the journal is opened and closed outside the `try`, and a cancelled task is not an `Exception` | `Imports` |
| `FailedImportLeavesNoCard` (Imports) | a failed import offers nothing; the card is committed before what may still fail | `Imports` |
| `EveryTurnIsClosed`, `OneCallOneRow` (Turns) | a turn's row carries its cost; a cancelled request or a lost connection leaves it running, and its spend outside the budget | `Turns` |
| `ProposedHasCard`, `ShownCardIsStored` (Turns) | the card the user sees is stored; the response is sent before the request's transaction commits | `Turns` |
| `ClosedMeansGone`, `BooksHaveDirectories` (Accounts) | a closed window means no copy is left, a book has its directory; `DELETE /me` removes the directory before it commits, and reads `deleted_at` before that | `Accounts` |
| `DirectoriesHaveRows` (Accounts) | a directory belongs to a book; the loser of two `POST /books` leaves one | `Accounts` |

In the engine, preconditions mark real differences; without them `EngineDelta` refutes the
property:

* `DeltaIsRun` without `factset = facts`: `delta()` does not resolve the facts again
  (`run.py:136-164`). An event keeps the settlement and VAT its item had at construction, and an event
  refused because its item was a stock stays refused when the item becomes a flow.
* `DeltaIsRun` without the equality of the domains: when the last item with a VatSpec loses it, the
  regime is refused (CK-E019) but its two `_tax:` items, which the earlier book adopted, stay in the
  book as ordinary items, the credit with a CK-E003 of its own.
* `DeltaIsRun` without `primed`: `delta()` on an engine that never ran evaluates only the cone and
  reports zero for the rest.
* `ColumnsSolveTheirFormulas` without `NoLegLandsEarlier`: a leg with `adjust="prev"` of a member
  of a feedback loop can land on a day the fold has passed; who read that day did not see it.

* `OracleAgrees` without its precondition on events: an event that gives VAT to an item without any is
  settled with it by the engine and without it by `_settle` of the reference.
* `ExplanationsAreTrue` without its preconditions: the cash leg of a ledger fact of another period, or
  VAT in a cash cell, makes `reconciles` false (ADR-0035 acknowledges the VAT).

In the imports, `ReportIsHonest` has preconditions of the same kind. A card for the book that was reported on applies
unless `TakenPlaces`: `_reconcile` numbers all operations (`loop.py:623-633`), `dry_run` those that are left
(`dryrun.py:156-159`), and the id of an event is made from its number (`applier.py:119-127`). And a monthly total of the report is that
of the imported lines only if the base has no line of one of their names by then. `Figures.added`
(`checks.py`) takes off the base's lines by id, and the names an import keeps off (`existing_items`) were read when it
began; a line the user added to the base meanwhile, and the import to its fork, is in neither.

And some the reading met that no property is about: the credit stock carries the tag `cat:tax`
(`tax.py:208-232`), so `agg(tag="cat:tax")`, which DECISIONS.md:794-796 calls the way to pull
every tax outflow into a cash balance, adds a level to a movement; `occurrence_dates` stops at the first
bucket that opens after the window and loses an anchor before that bucket's start
(`calendars.py:403`); the overflow test of `scatter_add` sums magnitudes in int64 (`expand.py:339`);
the last leg of a share split absorbs the rounding of the others and may change sign; the oracle's
rates have eighty digits where the engine's are exact, so a rate such as 1/12 can part them where
`run.py` says byte-identical; an escalation exponent above 200 raises in one and is capped in the
other; `render_expr` does not parenthesise a `not` under an operator; `prev(init=not 5)` is accepted
and its `init` is visited at depth zero; `RunResult.value(stock, "cash")` is 0 where formulas read the
level; `dependents_of` hides the readers refused for a cycle, which `delta()` still follows. In
authoring: `set_amount` from a date counts twice on an item with a schedule, and moves the phase of a
recurrence; `correct_actual` may date an actual in the future; identical entries at one place of two cards have
one event id; a negative factor stores items `set_item` refuses; a flattened scenario still follows the
base for what nobody recorded; `params.opening_balance` shadows a later `set_opening_balance`;
`frames.materialize` leaves its BEGIN open on an exception; dry-run deltas show one scenario only.
In the service: `retry_after` names the next clock hour while the window slides; a refreshed card keeps
only the operations tried before the first refusal; `check_import` checks and inserts in two
statements; `_free_id` avoids the ids of the book and not those being authored; a missing marker file
looks like an empty bucket to the sweep (`prune.sh:74`), and an incomplete snapshot is kept for ever.

## 7. What is not modelled

* Wording, logging, formatting, and figures: a payload is an abstract amount, a dry run's figures
  are not there.
* Process ids are not reused (`WriterLock`): a name stands for a pid used once.
* The git store's own failures; a reader that opens the book between two files of another process's
  save reads the tree in one step; migrations of older layouts; the value of an item or a parameter
  in the book store, where it is there or not.
* Timeouts other than as a choice of any moment: the 30 seconds a request waits for a book, the
  pool's, the provider's.
* In the engine: currencies, coarser grains and the `period_end` basis, overflow of int64, selectors of
  a regime's base, several regimes or synthetic items, returns not aligned with the horizon, rollups;
  of the authoring checks only those that disable an item. In formulas: a text is the tree Python's
  own parser makes of it.
* `describe_book()`, `query_events()` and `reconcile()`: listings over what the modules have.
* duckdb's SQL and files; the FX and locale columns of an export.
* What the model behind a turn or an import would say: it says anything of a small set. Prompts.
* What imports spend: their calls are in the same table as the turns' and outside the sum of `SpendIsBounded`.
* The command line (it wraps the kit), the mobile and desktop clients, metrics and alarms, the design
  data sets.

## 8. Plan

Done: `Ledger`, `WriterLock`, `BookStore` with `RevisionReads`, `Proposals`, `Turns`, `Accounts`, `Imports`
(streams, forks and reports), authoring and the engine's settlements and tax accounts, with proofs; both refinements
(`FactBook`, `SnapshotHistory`); the engine with its oracle, formulas and explanations, and the frame views, model-checked.

What is left, in the order in which it is worth most:

1. Theorems: that the cone of a replacement is closed under the dependencies of the compiled book, the first
   half of `DeltaIsRun`.
2. The engine at a coarser grain, where a recurrence's anchor is not the start of a bucket, and in
   two currencies.
3. A client that retries: duplicated accepts and turns against the idempotence the service offers.
4. Open, in `BookStore`, file by file against another process's save.
