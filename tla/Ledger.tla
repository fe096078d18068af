------------------------------- MODULE Ledger -------------------------------
(***************************************************************************)
(* The ledger store, cashkit/stores/ledger.py: one SQLite table to which   *)
(* every operation only appends.  An event is an "event" entry, voiding    *)
(* one appends a "void" entry naming it, correcting one appends a "void"   *)
(* and a replacement "event" in one transaction.                           *)
(*                                                                         *)
(* Several sessions (a SqliteLedger connection each: a CLI run, a script,  *)
(* the service) share the file.  No ledger write takes the writer lock, so *)
(* an operation is a run of SELECTs followed by a transaction, and another *)
(* session's transaction may fall between any two of them.  The AUTO-      *)
(* INCREMENT sequence number of an entry is its position in log: nothing   *)
(* is deleted and a rolled-back insert gives its numbers back.             *)
(***************************************************************************)
EXTENDS Naturals, Sequences, FiniteSets, FiniteSetsExt

CONSTANTS
    Sessions,   \* open connections
    Readers,    \* the sessions that also read facts and watermarks
    Names,      \* the ids callers give their events
    Rows,       \* the events a caller may hand to add_event or import_events
    Sources,    \* the source names import_events is called with
    Exts,       \* the external ids
    Amounts,    \* the payloads an event or a correction may carry
    None,       \* Python's None
    MaxLog,     \* bound: no write starts once the log has this many rows
    MaxBatch,   \* bound: rows in one import
    MaxImports  \* bound: rows of import_log

VARIABLES
    log,        \* ledger_entries, in seq order
    imports,    \* import_log, in seq order
    task,       \* what each session is in the middle of
    report,     \* the code of the report each session last received
    stamp,      \* the watermark each session last took
    seen        \* the facts each session last read, and up to where

vars == <<log, imports, task, report, stamp, seen>>

(***************************************************************************)
(* An event's id is a sequence: the caller's name, then one number per     *)
(* correction ("e1~c1~c2" is <<e1, 1, 2>>).                                *)
(***************************************************************************)
EventIds == Seq(Names \cup Nat)
Statuses == {"actual", "committed", "forecast"}

Events == [kind : {"event"}, id : EventIds, source : Sources \cup {None},
           ext : Exts \cup {None}, status : Statuses, amount : Amounts,
           corrects : EventIds \cup {None}]
Voids == [kind : {"void"}, id : EventIds]
Entries == Events \cup Voids

ASSUME RowsAreEvents == Rows \subseteq Events
ASSUME SessionsAreFinite == IsFiniteSet(Sessions)
ASSUME BoundsAreNat == {MaxLog, MaxBatch, MaxImports} \subseteq Nat

-----------------------------------------------------------------------------
(* Reading the log.  A sequence number stands for the entry it numbers.    *)

EventSeqs == {i \in DOMAIN log : log[i].kind = "event"}
RowsById(id) == {i \in EventSeqs : log[i].id = id}
RowsByKey(source, ext) ==
    {i \in EventSeqs : /\ source # None /\ ext # None
                       /\ log[i].source = source /\ log[i].ext = ext}
CorrectorsOf(id) == {i \in EventSeqs : log[i].corrects = id}

(* Mutant: a truncated read that applies the tombstones of today.          *)
VoidedUncut(n) == {log[i].id : i \in {j \in DOMAIN log : log[j].kind = "void"}}

VoidedUpTo(n) == {log[i].id : i \in {j \in DOMAIN log : j <= n /\ log[j].kind = "void"}}
Voided == VoidedUpTo(Len(log))
LiveUpTo(n, voided) == {i \in EventSeqs : i <= n /\ log[i].id \notin voided}
FactsUpTo(n) == LiveUpTo(n, VoidedUpTo(n))
Facts == FactsUpTo(Len(log))

(* Two payloads are the same when they differ in nothing but the id.       *)
Digest(e) == [e EXCEPT !.id = None]

SameKey(e, f) == e.source # None /\ e.ext # None /\ e.source = f.source /\ e.ext = f.ext

(* What the two unique indexes refuse: a taken id, or a taken key, among   *)
(* the stored rows or among the rows being inserted together.              *)
Collides(rows) ==
    \E i \in DOMAIN rows :
        \/ RowsById(rows[i].id) # {}
        \/ RowsByKey(rows[i].source, rows[i].ext) # {}
        \/ \E j \in 1..(i - 1) : rows[j].id = rows[i].id \/ SameKey(rows[j], rows[i])

-----------------------------------------------------------------------------
(* Sessions.  A task holds what the Python frame holds between two calls   *)
(* into SQLite.                                                            *)

Idle == [op |-> "idle"]
NoStamp == [max_rowid |-> 0, row_count |-> 0, facts |-> {}]
NothingSeen == [upto |-> 0, facts |-> {}]

Init ==
    /\ log = <<>>
    /\ imports = <<>>
    /\ task = [s \in Sessions |-> Idle]
    /\ report = [s \in Sessions |-> "none"]
    /\ stamp = [s \in Sessions |-> NoStamp]
    /\ seen = [s \in Sessions |-> NothingSeen]

(* The session goes on to t, with no answer for its caller yet.            *)
Continue(s, t) == task' = [task EXCEPT ![s] = t] /\ report' = [report EXCEPT ![s] = "none"]
(* The session answers its caller and is free again.                       *)
Answer(s, code) == task' = [task EXCEPT ![s] = Idle] /\ report' = [report EXCEPT ![s] = code]
Starts(s) == task[s].op = "idle" /\ Len(log) < MaxLog

NoWrite == UNCHANGED <<log, imports>>
NoRead == UNCHANGED <<stamp, seen>>

-----------------------------------------------------------------------------
(* add_event                                                               *)

AddEvent(s, e) ==
    LET known == RowsByKey(e.source, e.ext) IN
    /\ Starts(s)
    /\ \/ /\ \E k \in known : Digest(log[k]) = Digest(e)
          /\ Answer(s, "CK-I002")
       \/ /\ \E k \in known : Digest(log[k]) # Digest(e)
          /\ Answer(s, "CK-E010")
       \/ /\ known = {} /\ RowsById(e.id) # {}
          /\ Answer(s, "CK-E015")
       \/ /\ known = {} /\ RowsById(e.id) = {}
          /\ Continue(s, [op |-> "add", row |-> e])
    /\ NoWrite /\ NoRead

(* The insert: refused by an index, it raises out of add_event.            *)
InsertEvent(s) ==
    /\ task[s].op = "add"
    /\ \/ /\ Collides(<<task[s].row>>)
          /\ Answer(s, "raised") /\ UNCHANGED log
       \/ /\ ~Collides(<<task[s].row>>)
          /\ log' = log \o <<task[s].row>>
          /\ Answer(s, "ok")
    /\ UNCHANGED imports /\ NoRead

-----------------------------------------------------------------------------
(* import_events: each row of the batch is looked up on its own, the rows  *)
(* to insert go in one transaction, and the import_log row in another.     *)

Scanning(source, rest, staged, skipped, conflicted) ==
    [op |-> "scan", source |-> source, rest |-> rest, staged |-> staged, skipped |-> skipped,
     conflicted |-> conflicted]

ImportEvents(s, source, batch) ==
    /\ Starts(s)
    /\ Len(imports) < MaxImports
    /\ Continue(s, Scanning(source, batch, <<>>, 0, 0))
    /\ NoWrite /\ NoRead

(* The digests the next row's key is known by: the stored row's, or else   *)
(* the one of the row this batch staged under that key.                    *)
PriorDigests(t, e) ==
    LET known == RowsByKey(t.source, e.ext) IN
    IF known # {} THEN {Digest(log[k]) : k \in known}
    ELSE {Digest(t.staged[k]) : k \in {j \in DOMAIN t.staged : t.staged[j].ext = e.ext}}

ScanRow(s) ==
    LET t == task[s]
        e == [Head(t.rest) EXCEPT !.source = t.source]
        prior == PriorDigests(t, e)
        Scanned(staged, skipped, conflicted) ==
            Continue(s, Scanning(t.source, Tail(t.rest), staged, skipped, conflicted))
    IN /\ t.op = "scan" /\ t.rest # <<>>
       /\ \/ /\ e.ext = None                                   \* CK-E017
             /\ Scanned(t.staged, t.skipped, t.conflicted + 1)
          \/ /\ e.ext # None /\ Digest(e) \in prior
             /\ Scanned(t.staged, t.skipped + 1, t.conflicted)
          \/ /\ e.ext # None /\ prior # {} /\ Digest(e) \notin prior  \* CK-E010
             /\ Scanned(t.staged, t.skipped, t.conflicted + 1)
          \/ /\ e.ext # None /\ prior = {}
             /\ Scanned(Append(t.staged, e), t.skipped, t.conflicted)
       /\ NoWrite /\ NoRead

(* Mutant: an aborted batch is logged with the inserts it had planned.     *)
LoggingPlanned(t, inserted) ==
    [op |-> "tally", source |-> t.source, inserted |-> Len(t.staged), skipped |-> t.skipped,
     conflicted |-> t.conflicted]

Logging(t, inserted) ==
    [op |-> "tally", source |-> t.source, inserted |-> inserted, skipped |-> t.skipped,
     conflicted |-> t.conflicted]

(* Any conflict aborts the whole batch.                                    *)
ImportStaged(s) ==
    LET t == task[s] IN
    /\ t.op = "scan" /\ t.rest = <<>>
    /\ \/ /\ t.conflicted > 0
          /\ Continue(s, Logging(t, 0)) /\ UNCHANGED log
       \/ /\ t.conflicted = 0 /\ Collides(t.staged)
          /\ Answer(s, "raised") /\ UNCHANGED log
       \/ /\ t.conflicted = 0 /\ ~Collides(t.staged)
          /\ log' = log \o t.staged
          /\ Continue(s, Logging(t, Len(t.staged)))
    /\ UNCHANGED imports /\ NoRead

RecordImport(s) ==
    LET t == task[s] IN
    /\ t.op = "tally"
    /\ imports' = Append(imports, [at_seq |-> Len(log), source |-> t.source,
                                   inserted |-> t.inserted, skipped |-> t.skipped,
                                   conflicted |-> t.conflicted])
    /\ Answer(s, IF t.conflicted > 0 THEN "aborted"
                 ELSE IF t.inserted = 0 /\ t.skipped > 0 THEN "CK-I002" ELSE "ok")
    /\ UNCHANGED log /\ NoRead

-----------------------------------------------------------------------------
(* void_event and correct_event                                            *)

(* Mutant: the tombstone rule is forgotten.                                *)
ProblemButVoid(id) ==
    IF RowsById(id) = {} THEN "CK-E014" ELSE IF CorrectorsOf(id) # {} THEN "CK-E015" ELSE "none"

(* _referential_problem: the target exists, nobody corrected it, and it is *)
(* not void; the code of the first rule it breaks, or "none".              *)
ReferentialProblem(id) ==
    IF RowsById(id) = {} THEN "CK-E014"
    ELSE IF CorrectorsOf(id) # {} \/ id \in Voided THEN "CK-E015" ELSE "none"

VoidEvent(s, id, blankNote) ==
    /\ Starts(s)
    /\ \/ /\ ReferentialProblem(id) # "none"
          /\ Answer(s, ReferentialProblem(id))
       \/ /\ ReferentialProblem(id) = "none"
          /\ \/ /\ \E k \in RowsById(id) : log[k].status = "actual"
                /\ Answer(s, "CK-E016")
             \/ /\ \A k \in RowsById(id) : log[k].status # "actual"
                /\ IF blankNote THEN Answer(s, "CK-E015")
                   ELSE Continue(s, [op |-> "void", target |-> id])
    /\ NoWrite /\ NoRead

InsertVoid(s) ==
    /\ task[s].op = "void"
    /\ log' = log \o <<[kind |-> "void", id |-> task[s].target]>>
    /\ Answer(s, "ok")
    /\ UNCHANGED imports /\ NoRead

CorrectEvent(s, id, amount, blankNote) ==
    /\ Starts(s)
    /\ \/ /\ ReferentialProblem(id) # "none"
          /\ Answer(s, ReferentialProblem(id))
       \/ /\ ReferentialProblem(id) = "none"
          /\ IF blankNote THEN Answer(s, "CK-E015")
             ELSE Continue(s, [op |-> "correct", target |-> id, amount |-> amount])
    /\ NoWrite /\ NoRead

(* _free_correction_id looks for the first free "~cN", after the checks    *)
(* above and in reads of its own.                                          *)
FreeCorrectionId(id, n) ==
    /\ RowsById(Append(id, n)) = {}
    /\ \A m \in 1..(n - 1) : RowsById(Append(id, m)) # {}

(* Mutant: the status is not copied.                                       *)
ReplacementForecast(original, id, amount) ==
    [original EXCEPT !.id = id, !.amount = amount, !.corrects = original.id, !.ext = None,
                     !.status = "forecast"]
(* The correction keeps the original's status and source and leaves it the *)
(* idempotency key.                                                        *)
Replacement(original, id, amount) ==
    [original EXCEPT !.id = id, !.amount = amount, !.corrects = original.id, !.ext = None]

ChooseCorrectionId(s) ==
    LET t == task[s] IN
    /\ t.op = "correct"
    /\ \E k \in RowsById(t.target), n \in 1..(Len(log) + 1) :
          /\ FreeCorrectionId(t.target, n)
          /\ Continue(s, [op |-> "replace", target |-> t.target,
                          row |-> Replacement(log[k], Append(t.target, n), t.amount)])
    /\ NoWrite /\ NoRead

InsertCorrection(s) ==
    LET t == task[s] IN
    /\ t.op = "replace"
    /\ \/ /\ Collides(<<t.row>>)
          /\ Answer(s, "raised") /\ UNCHANGED log
       \/ /\ ~Collides(<<t.row>>)
          /\ log' = log \o <<[kind |-> "void", id |-> t.target], t.row>>
          /\ Answer(s, "ok")
    /\ UNCHANGED imports /\ NoRead

-----------------------------------------------------------------------------
(* watermark() and facts(): two SELECTs each.                              *)

HashRows(s) ==
    /\ s \in Readers /\ task[s].op = "idle"
    /\ Continue(s, [op |-> "stamping", row_count |-> Len(log)])
    /\ NoWrite /\ NoRead

StampMaxSeq(s) ==
    /\ task[s].op = "stamping"
    /\ stamp' = [stamp EXCEPT ![s] = [max_rowid |-> Len(log), row_count |-> task[s].row_count,
                                      facts |-> Facts]]
    /\ Answer(s, "ok")
    /\ NoWrite /\ UNCHANGED seen

(* A read of the live ledger, or of the ledger as it was at the watermark. *)
ReadVoided(s, upto) ==
    /\ s \in Readers /\ task[s].op = "idle"
    /\ Continue(s, [op |-> "reading", upto |-> upto,
                    voided |-> VoidedUpTo(IF upto = None THEN Len(log) ELSE upto)])
    /\ NoWrite /\ NoRead

ReadEvents(s) ==
    LET t == task[s]
        n == IF t.upto = None THEN Len(log) ELSE t.upto
    IN /\ t.op = "reading"
       /\ seen' = [seen EXCEPT ![s] = [upto |-> t.upto, facts |-> LiveUpTo(n, t.voided)]]
       /\ Answer(s, "ok")
       /\ NoWrite /\ UNCHANGED stamp

-----------------------------------------------------------------------------
(* The process dies, or SQLite answers "database is locked": an open       *)
(* transaction is rolled back, committed ones stay.                        *)
Crash(s) ==
    /\ task[s].op # "idle"
    /\ Answer(s, "none")
    /\ NoWrite /\ NoRead

Batches == UNION {[1..n -> Rows] : n \in 0..MaxBatch}
KnownIds == {log[i].id : i \in EventSeqs} \cup {r.id : r \in Rows}

Next ==
    \E s \in Sessions :
        \/ \E e \in Rows : AddEvent(s, e)
        \/ InsertEvent(s)
        \/ \E source \in Sources, batch \in Batches : ImportEvents(s, source, batch)
        \/ ScanRow(s)
        \/ ImportStaged(s)
        \/ RecordImport(s)
        \/ \E id \in KnownIds, blank \in BOOLEAN : VoidEvent(s, id, blank)
        \/ InsertVoid(s)
        \/ \E id \in KnownIds, a \in Amounts, blank \in BOOLEAN : CorrectEvent(s, id, a, blank)
        \/ ChooseCorrectionId(s)
        \/ InsertCorrection(s)
        \/ HashRows(s)
        \/ StampMaxSeq(s)
        \/ ReadVoided(s, None)
        \/ ReadVoided(s, stamp[s].max_rowid)
        \/ ReadEvents(s)
        \/ Crash(s)

Spec == Init /\ [][Next]_vars
-----------------------------------------------------------------------------
(* Properties                                                              *)

Tasks ==
    {Idle}
    \cup [op : {"add"}, row : Events]
    \cup [op : {"scan"}, source : Sources, rest : Seq(Events), staged : Seq(Events),
          skipped : Nat, conflicted : Nat]
    \cup [op : {"tally"}, source : Sources, inserted : Nat, skipped : Nat, conflicted : Nat]
    \cup [op : {"void"}, target : EventIds]
    \cup [op : {"correct"}, target : EventIds, amount : Amounts]
    \cup [op : {"replace"}, target : EventIds, row : Events]
    \cup [op : {"stamping"}, row_count : Nat]
    \cup [op : {"reading"}, upto : Nat \cup {None}, voided : SUBSET EventIds]

Codes == {"none", "ok", "raised", "aborted", "CK-I002", "CK-E010", "CK-E014", "CK-E015", "CK-E016"}

(* Every variable holds what its SQLite table or Python frame can hold.    *)
TypeOK ==
    /\ log \in Seq(Entries)
    /\ imports \in Seq([at_seq : Nat, source : Sources, inserted : Nat, skipped : Nat,
                        conflicted : Nat])
    /\ task \in [Sessions -> Tasks]
    /\ report \in [Sessions -> Codes]
    /\ stamp \in [Sessions -> [max_rowid : Nat, row_count : Nat, facts : SUBSET Nat]]
    /\ seen \in [Sessions -> [upto : Nat \cup {None}, facts : SUBSET Nat]]

(* ADR-0012: an actual is never destroyed, only restated.  Whatever the    *)
(* sessions interleave, a tombstone that names an actual is followed, in   *)
(* the same transaction, by its replacement, which is an actual of the     *)
(* same source.                                                            *)
ActualsSurvive ==
    \A i \in DOMAIN log :
        log[i].kind = "void" =>
            /\ RowsById(log[i].id) # {}
            /\ \A k \in RowsById(log[i].id) :
                  log[k].status = "actual" =>
                      /\ (i + 1) \in CorrectorsOf(log[i].id)
                      /\ log[i + 1].status = "actual"
                      /\ log[i + 1].source = log[k].source

(* What makes ActualsSurvive inductive: an id names one event, and a       *)
(* session about to append a tombstone has already seen a target that may  *)
(* be tombstoned, or holds a replacement faithful to it.                   *)
UniqueIds == \A i, j \in EventSeqs : log[i].id = log[j].id => i = j

PendingWrites ==
    \A s \in Sessions :
        /\ task[s].op = "void" =>
              /\ RowsById(task[s].target) # {}
              /\ \A k \in RowsById(task[s].target) : log[k].status # "actual"
        /\ task[s].op = "replace" =>
              /\ task[s].row.corrects = task[s].target
              /\ \E k \in RowsById(task[s].target) :
                    /\ task[s].row.status = log[k].status
                    /\ task[s].row.source = log[k].source

SurvivalInv == TypeOK /\ UniqueIds /\ PendingWrites /\ ActualsSurvive

(* ADR-0012: "target exists, target is not already corrected, target is    *)
(* not a tombstone".  An event is tombstoned at most once and corrected at *)
(* most once, and a corrected event is tombstoned: no amount is ever       *)
(* counted twice because its record was corrected.                         *)
CorrectionChainsAreLinear ==
    /\ \A i, j \in DOMAIN log :
          (log[i].kind = "void" /\ log[j].kind = "void" /\ log[i].id = log[j].id) => i = j
    /\ \A i, j \in EventSeqs :
          log[i].corrects # None =>
              /\ log[i].corrects \in Voided
              /\ log[i].corrects = log[j].corrects => i = j

(* event.py: a correcting event names an event of the ledger, and that     *)
(* event is out of the fact union.                                         *)
CorrectorsAreReferential ==
    \A i \in EventSeqs :
        log[i].corrects # None =>
            /\ RowsById(log[i].corrects) # {}
            /\ log[i].corrects \in Voided

(* ADR-0006: a ledger read truncated at a watermark gives the facts as they *)
(* stood when the watermark was taken, whatever was imported, voided or    *)
(* corrected since, by any session.                                        *)
ReproducibleRead ==
    \A s \in Sessions :
        seen[s].upto = stamp[s].max_rowid => seen[s].facts = stamp[s].facts

(* The import log never claims an insert the ledger does not hold: per     *)
(* source, its inserted counts add up to no more than the keyed rows of    *)
(* that source.                                                            *)
ImportLogNeverOverclaims ==
    \A source \in Sources :
        LET claims == {k \in DOMAIN imports : imports[k].source = source}
            held == {i \in EventSeqs : log[i].source = source /\ log[i].ext # None}
        IN MapThenSumSet(LAMBDA k : imports[k].inserted, claims) <= Cardinality(held)

(* A name's fact, as a reader of the ledger sees it.                       *)
FactOf(n) ==
    LET live == {i \in Facts : log[i].id[1] = n} IN
    IF RowsById(<<n>>) = {} THEN [status |-> "absent"]
    ELSE IF live = {} THEN [status |-> "retired"]
    ELSE LET i == CHOOSE i \in live : TRUE IN [status |-> log[i].status, amount |-> log[i].amount]

Promise == INSTANCE FactBook WITH book <- [n \in Names |-> FactOf(n)]

(* With one writer the ledger implements the book of facts.                *)
ImplementsFactBook == Promise!Spec

(* A live read gives the facts of some moment of the ledger.               *)
FactsReadIsSnapshot ==
    \A s \in Sessions : seen[s].facts \in {FactsUpTo(n) : n \in 0..Len(log)}

(* watermark(): max_rowid, row_count and content_hash describe one ledger. *)
WatermarkDescribesOneLedger == \A s \in Sessions : stamp[s].row_count = stamp[s].max_rowid

(* import_events: "Never raises on row content".                           *)
NeverRaises == \A s \in Sessions : report[s] # "raised"
=============================================================================
