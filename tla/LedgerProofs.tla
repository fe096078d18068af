---------------------------- MODULE LedgerProofs ----------------------------
(***************************************************************************)
(* What holds of the ledger for every number of sessions, every set of     *)
(* rows and every bound: the types, the keys, the actuals; a read that is  *)
(* truncated at a watermark is reproducible; the records of one session    *)
(* restate and retire each fact once, and implement the book of facts; the *)
(* import log is honest.                                                   *)
(***************************************************************************)
EXTENDS Ledger, Sums, SequenceTheorems, TLAPS

-----------------------------------------------------------------------------
(* A task's fields have the types of the operation it belongs to.          *)
LEMMA TaskTypes ==
    ASSUME NEW t \in Tasks
    PROVE  /\ t.op = "add" => t.row \in Events
           /\ t.op = "scan" => /\ t.source \in Sources /\ t.rest \in Seq(Events)
                               /\ t.staged \in Seq(Events)
                               /\ t.skipped \in Nat /\ t.conflicted \in Nat
           /\ t.op = "tally" => /\ t.source \in Sources /\ t.inserted \in Nat
                                /\ t.skipped \in Nat /\ t.conflicted \in Nat
           /\ t.op = "void" => t.target \in EventIds
           /\ t.op = "correct" => t.target \in EventIds /\ t.amount \in Amounts
           /\ t.op = "replace" => t.target \in EventIds /\ t.row \in Events
           /\ t.op = "stamping" => t.row_count \in Nat
           /\ t.op = "reading" => t.upto \in Nat \cup {None} /\ t.voided \in SUBSET EventIds
  BY DEF Tasks, Idle

(* Every stored event is an event, and an id read from the log is an id.   *)
LEMMA StoredTypes ==
    ASSUME log \in Seq(Entries)
    PROVE  /\ \A i \in EventSeqs : log[i] \in Events
           /\ \A i \in DOMAIN log : log[i].id \in EventIds
           /\ \A n : VoidedUpTo(n) \in SUBSET EventIds
           /\ \A n, voided : LiveUpTo(n, voided) \in SUBSET Nat
           /\ Len(log) \in Nat
  BY DEF Entries, Events, Voids, EventSeqs, VoidedUpTo, LiveUpTo

(* Answering and continuing keep the two functions typed.                  *)
LEMMA ContinueTyped ==
    ASSUME TypeOK, NEW s \in Sessions, NEW t \in Tasks, Continue(s, t)
    PROVE  task' \in [Sessions -> Tasks] /\ report' \in [Sessions -> Codes]
  <1>1. "none" \in Codes
    BY DEF Codes
  <1> QED BY <1>1 DEF TypeOK, Continue

LEMMA AnswerTyped ==
    ASSUME TypeOK, NEW s \in Sessions, NEW code \in Codes, Answer(s, code)
    PROVE  task' \in [Sessions -> Tasks] /\ report' \in [Sessions -> Codes]
  <1>1. Idle \in Tasks
    BY DEF Tasks
  <1> QED BY <1>1 DEF TypeOK, Answer

LEMMA InitType == Init => TypeOK
  <1> SUFFICES ASSUME Init PROVE TypeOK
    OBVIOUS
  <1>1. Idle \in Tasks /\ "none" \in Codes
    BY DEF Tasks, Codes
  <1>2. NoStamp \in [max_rowid : Nat, row_count : Nat, facts : SUBSET Nat]
    BY DEF NoStamp
  <1>3. NothingSeen \in [upto : Nat \cup {None}, facts : SUBSET Nat]
    BY DEF NothingSeen
  <1> QED BY <1>1, <1>2, <1>3 DEF Init, TypeOK

-----------------------------------------------------------------------------
(* Appending events, or any entries, leaves a log of entries.              *)
LEMMA LogExtends ==
    ASSUME TypeOK, NEW rows \in Seq(Events) \cup Seq(Entries)
    PROVE  log \o rows \in Seq(Entries)
  <1>1. rows \in Seq(Entries)
    BY DEF Entries
  <1>2. log \in Seq(Entries)
    BY DEF TypeOK
  <1> QED BY <1>1, <1>2, ConcatProperties

(* The tasks each operation goes on to.                                    *)
LEMMA AddTyped ==
    ASSUME TypeOK, NEW s \in Sessions, NEW e \in Rows, AddEvent(s, e)
    PROVE  TypeOK'
  <1>1. [op |-> "add", row |-> e] \in Tasks
    BY RowsAreEvents DEF Tasks
  <1>2. {"CK-I002", "CK-E010", "CK-E015"} \subseteq Codes
    BY DEF Codes
  <1>3. task' \in [Sessions -> Tasks] /\ report' \in [Sessions -> Codes]
    BY <1>1, <1>2, ContinueTyped, AnswerTyped DEF AddEvent
  <1> QED BY <1>3 DEF AddEvent, NoWrite, NoRead, TypeOK

LEMMA InsertEventTyped ==
    ASSUME TypeOK, NEW s \in Sessions, InsertEvent(s)
    PROVE  TypeOK'
  <1>1. task[s].row \in Events
    BY TaskTypes DEF TypeOK, InsertEvent
  <1>2. {"raised", "ok"} \subseteq Codes
    BY DEF Codes
  <1>3. task' \in [Sessions -> Tasks] /\ report' \in [Sessions -> Codes]
    BY <1>2, AnswerTyped DEF InsertEvent
  <1>4. log' \in Seq(Entries)
    <2>1. <<task[s].row>> \in Seq(Events)
      BY <1>1
    <2> QED BY <2>1, LogExtends DEF InsertEvent, TypeOK
  <1> QED BY <1>3, <1>4 DEF InsertEvent, NoRead, TypeOK

LEMMA ImportTyped ==
    ASSUME TypeOK, NEW s \in Sessions, NEW source \in Sources, NEW batch \in Batches,
           ImportEvents(s, source, batch)
    PROVE  TypeOK'
  <1>1. batch \in Seq(Events)
    BY RowsAreEvents, BoundsAreNat DEF Batches
  <1>2. Scanning(source, batch, <<>>, 0, 0) \in Tasks
    BY <1>1 DEF Scanning, Tasks
  <1>3. task' \in [Sessions -> Tasks] /\ report' \in [Sessions -> Codes]
    BY <1>2, ContinueTyped DEF ImportEvents
  <1> QED BY <1>3 DEF ImportEvents, NoWrite, NoRead, TypeOK

LEMMA ScanTyped ==
    ASSUME TypeOK, NEW s \in Sessions, ScanRow(s)
    PROVE  TypeOK'
  <1> DEFINE t == task[s]
             e == [Head(t.rest) EXCEPT !.source = t.source]
  <1>1. /\ t.source \in Sources /\ t.rest \in Seq(Events) /\ t.staged \in Seq(Events)
        /\ t.skipped \in Nat /\ t.conflicted \in Nat /\ t.rest # <<>>
    BY TaskTypes DEF TypeOK, ScanRow
  <1>2. Head(t.rest) \in Events /\ Tail(t.rest) \in Seq(Events)
    BY <1>1, HeadTailProperties
  <1>3. e \in Events
    BY <1>1, <1>2 DEF Events
  <1>4. \A sk, co \in Nat, st \in Seq(Events) :
           Scanning(t.source, Tail(t.rest), st, sk, co) \in Tasks
    BY <1>1, <1>2 DEF Scanning, Tasks
  <1>5. t.conflicted + 1 \in Nat /\ t.skipped + 1 \in Nat /\ Append(t.staged, e) \in Seq(Events)
    BY <1>1, <1>3, AppendProperties
  <1>6. task' \in [Sessions -> Tasks] /\ report' \in [Sessions -> Codes]
    BY <1>1, <1>4, <1>5, ContinueTyped DEF ScanRow
  <1> QED BY <1>6 DEF ScanRow, NoWrite, NoRead, TypeOK

LEMMA StagedTyped ==
    ASSUME TypeOK, NEW s \in Sessions, ImportStaged(s)
    PROVE  TypeOK'
  <1>1. /\ task[s].source \in Sources /\ task[s].staged \in Seq(Events)
        /\ task[s].skipped \in Nat /\ task[s].conflicted \in Nat
    BY TaskTypes DEF TypeOK, ImportStaged
  <1>2. \A n \in Nat : Logging(task[s], n) \in Tasks
    BY <1>1 DEF Logging, Tasks
  <1>3. "raised" \in Codes
    BY DEF Codes
  <1>4. Len(task[s].staged) \in Nat
    BY <1>1
  <1>5. task' \in [Sessions -> Tasks] /\ report' \in [Sessions -> Codes]
    BY <1>2, <1>3, <1>4, ContinueTyped, AnswerTyped DEF ImportStaged
  <1>6. log' \in Seq(Entries)
    BY <1>1, LogExtends DEF ImportStaged, TypeOK
  <1> QED BY <1>5, <1>6 DEF ImportStaged, NoRead, TypeOK

LEMMA RecordTyped ==
    ASSUME TypeOK, NEW s \in Sessions, RecordImport(s)
    PROVE  TypeOK'
  <1>1. /\ task[s].source \in Sources /\ task[s].inserted \in Nat
        /\ task[s].skipped \in Nat /\ task[s].conflicted \in Nat
    BY TaskTypes DEF TypeOK, RecordImport
  <1>2. {"aborted", "CK-I002", "ok"} \subseteq Codes
    BY DEF Codes
  <1>3. task' \in [Sessions -> Tasks] /\ report' \in [Sessions -> Codes]
    BY <1>2, AnswerTyped DEF RecordImport
  <1>4. imports' \in Seq([at_seq : Nat, source : Sources, inserted : Nat, skipped : Nat,
                          conflicted : Nat])
    BY <1>1, StoredTypes, AppendProperties DEF RecordImport, TypeOK
  <1> QED BY <1>3, <1>4 DEF RecordImport, NoRead, TypeOK

LEMMA VoidTyped ==
    ASSUME TypeOK, NEW s \in Sessions, NEW id \in KnownIds, NEW blank \in BOOLEAN,
           VoidEvent(s, id, blank)
    PROVE  TypeOK'
  <1>1. id \in EventIds
    BY StoredTypes, RowsAreEvents DEF KnownIds, TypeOK, Events
  <1>2. [op |-> "void", target |-> id] \in Tasks
    BY <1>1 DEF Tasks
  <1>3. ReferentialProblem(id) \in Codes /\ {"CK-E015", "CK-E016"} \subseteq Codes
    BY DEF ReferentialProblem, Codes
  <1>4. task' \in [Sessions -> Tasks] /\ report' \in [Sessions -> Codes]
    BY <1>2, <1>3, ContinueTyped, AnswerTyped DEF VoidEvent
  <1> QED BY <1>4 DEF VoidEvent, NoWrite, NoRead, TypeOK

LEMMA InsertVoidTyped ==
    ASSUME TypeOK, NEW s \in Sessions, InsertVoid(s)
    PROVE  TypeOK'
  <1>1. task[s].target \in EventIds
    BY TaskTypes DEF TypeOK, InsertVoid
  <1>2. <<[kind |-> "void", id |-> task[s].target]>> \in Seq(Entries)
    BY <1>1 DEF Entries, Voids
  <1>3. log' \in Seq(Entries)
    BY <1>2, LogExtends DEF InsertVoid
  <1>4. "ok" \in Codes
    BY DEF Codes
  <1>5. task' \in [Sessions -> Tasks] /\ report' \in [Sessions -> Codes]
    BY <1>4, AnswerTyped DEF InsertVoid
  <1> QED BY <1>3, <1>5 DEF InsertVoid, NoRead, TypeOK

LEMMA CorrectTyped ==
    ASSUME TypeOK, NEW s \in Sessions, NEW id \in KnownIds, NEW a \in Amounts,
           NEW blank \in BOOLEAN, CorrectEvent(s, id, a, blank)
    PROVE  TypeOK'
  <1>1. id \in EventIds
    BY StoredTypes, RowsAreEvents DEF KnownIds, TypeOK, Events
  <1>2. [op |-> "correct", target |-> id, amount |-> a] \in Tasks
    BY <1>1 DEF Tasks
  <1>3. ReferentialProblem(id) \in Codes /\ "CK-E015" \in Codes
    BY DEF ReferentialProblem, Codes
  <1>4. task' \in [Sessions -> Tasks] /\ report' \in [Sessions -> Codes]
    BY <1>2, <1>3, ContinueTyped, AnswerTyped DEF CorrectEvent
  <1> QED BY <1>4 DEF CorrectEvent, NoWrite, NoRead, TypeOK

LEMMA ChooseTyped ==
    ASSUME TypeOK, NEW s \in Sessions, ChooseCorrectionId(s)
    PROVE  TypeOK'
  <1>1. task[s].target \in EventIds /\ task[s].amount \in Amounts
    BY TaskTypes DEF TypeOK, ChooseCorrectionId
  <1>2. ASSUME NEW k \in RowsById(task[s].target), NEW n \in 1..(Len(log) + 1)
        PROVE  [op |-> "replace", target |-> task[s].target,
                row |-> Replacement(log[k], Append(task[s].target, n), task[s].amount)] \in Tasks
    <2>1. log[k] \in Events
      BY StoredTypes DEF RowsById, TypeOK
    <2>2. n \in Names \cup Nat
      BY StoredTypes DEF TypeOK
    <2>3. Append(task[s].target, n) \in EventIds
      BY <1>1, <2>2, AppendProperties DEF EventIds
    <2>4. Replacement(log[k], Append(task[s].target, n), task[s].amount) \in Events
      BY <1>1, <2>1, <2>3 DEF Replacement, Events
    <2> QED BY <1>1, <2>4 DEF Tasks
  <1>3. task' \in [Sessions -> Tasks] /\ report' \in [Sessions -> Codes]
    BY <1>2, ContinueTyped DEF ChooseCorrectionId
  <1> QED BY <1>3 DEF ChooseCorrectionId, NoWrite, NoRead, TypeOK

LEMMA InsertCorrectionTyped ==
    ASSUME TypeOK, NEW s \in Sessions, InsertCorrection(s)
    PROVE  TypeOK'
  <1>1. task[s].target \in EventIds /\ task[s].row \in Events
    BY TaskTypes DEF TypeOK, InsertCorrection
  <1>2. <<[kind |-> "void", id |-> task[s].target], task[s].row>> \in Seq(Entries)
    BY <1>1 DEF Entries, Voids
  <1>3. log' \in Seq(Entries)
    BY <1>2, LogExtends DEF InsertCorrection, TypeOK
  <1>4. {"ok", "raised"} \subseteq Codes
    BY DEF Codes
  <1>5. task' \in [Sessions -> Tasks] /\ report' \in [Sessions -> Codes]
    BY <1>4, AnswerTyped DEF InsertCorrection
  <1> QED BY <1>3, <1>5 DEF InsertCorrection, NoRead, TypeOK

LEMMA ReaderTyped ==
    ASSUME TypeOK, NEW s \in Sessions,
           \/ HashRows(s) \/ StampMaxSeq(s) \/ ReadEvents(s)
           \/ ReadVoided(s, None) \/ ReadVoided(s, stamp[s].max_rowid)
    PROVE  TypeOK'
  <1>1. "ok" \in Codes
    BY DEF Codes
  <1>2. CASE HashRows(s)
    <2>1. [op |-> "stamping", row_count |-> Len(log)] \in Tasks
      BY StoredTypes DEF TypeOK, Tasks
    <2>2. task' \in [Sessions -> Tasks] /\ report' \in [Sessions -> Codes]
      BY <1>2, <2>1, ContinueTyped DEF HashRows
    <2> QED BY <1>2, <2>2 DEF HashRows, NoWrite, NoRead, TypeOK
  <1>3. CASE StampMaxSeq(s)
    <2>1. task[s].row_count \in Nat
      BY <1>3, TaskTypes DEF TypeOK, StampMaxSeq
    <2>2. [max_rowid |-> Len(log), row_count |-> task[s].row_count, facts |-> Facts]
             \in [max_rowid : Nat, row_count : Nat, facts : SUBSET Nat]
      BY <2>1, StoredTypes DEF TypeOK, Facts, FactsUpTo
    <2>3. task' \in [Sessions -> Tasks] /\ report' \in [Sessions -> Codes]
      BY <1>1, <1>3, AnswerTyped DEF StampMaxSeq
    <2> QED BY <1>3, <2>2, <2>3 DEF StampMaxSeq, NoWrite, TypeOK
  <1>4. CASE ReadEvents(s)
    <2>1. task[s].upto \in Nat \cup {None}
      BY <1>4, TaskTypes DEF TypeOK, ReadEvents
    <2>2. \A n : [upto |-> task[s].upto, facts |-> LiveUpTo(n, task[s].voided)]
             \in [upto : Nat \cup {None}, facts : SUBSET Nat]
      BY <2>1, StoredTypes DEF TypeOK
    <2>3. task' \in [Sessions -> Tasks] /\ report' \in [Sessions -> Codes]
      BY <1>1, <1>4, AnswerTyped DEF ReadEvents
    <2> QED BY <1>4, <2>2, <2>3 DEF ReadEvents, NoWrite, TypeOK
  <1>5. CASE ReadVoided(s, None) \/ ReadVoided(s, stamp[s].max_rowid)
    <2>1. PICK upto \in Nat \cup {None} : ReadVoided(s, upto)
      BY <1>5 DEF TypeOK
    <2>2. \A n : [op |-> "reading", upto |-> upto, voided |-> VoidedUpTo(n)] \in Tasks
      BY StoredTypes DEF TypeOK, Tasks
    <2>3. task' \in [Sessions -> Tasks] /\ report' \in [Sessions -> Codes]
      BY <2>1, <2>2, ContinueTyped DEF ReadVoided
    <2> QED BY <2>1, <2>3 DEF ReadVoided, NoWrite, NoRead, TypeOK
  <1> QED BY <1>2, <1>3, <1>4, <1>5

LEMMA CrashTyped ==
    ASSUME TypeOK, NEW s \in Sessions, Crash(s)
    PROVE  TypeOK'
  <1>1. "none" \in Codes
    BY DEF Codes
  <1>2. task' \in [Sessions -> Tasks] /\ report' \in [Sessions -> Codes]
    BY <1>1, AnswerTyped DEF Crash
  <1> QED BY <1>2 DEF Crash, NoWrite, NoRead, TypeOK

LEMMA TypeStep == TypeOK /\ [Next]_vars => TypeOK'
  <1> SUFFICES ASSUME TypeOK, [Next]_vars PROVE TypeOK'
    OBVIOUS
  <1>1. CASE UNCHANGED vars
    BY <1>1 DEF vars, TypeOK
  <1>2. CASE Next
    BY <1>2, AddTyped, InsertEventTyped, ImportTyped, ScanTyped, StagedTyped, RecordTyped,
       VoidTyped, InsertVoidTyped, CorrectTyped, ChooseTyped, InsertCorrectionTyped,
       ReaderTyped, CrashTyped DEF Next
  <1> QED BY <1>1, <1>2

(* The ledger and its sessions always hold what their types allow.         *)
THEOREM TypeCorrect == Spec => []TypeOK
  BY InitType, TypeStep, PTL DEF Spec

-----------------------------------------------------------------------------
(* How a step changes the log.                                             *)
Appends(rows) == rows \in Seq(Entries) /\ log' = log \o rows

(* What was in the log stays where it was.                                 *)
LEMMA Grow ==
    ASSUME TypeOK, NEW rows, Appends(rows)
    PROVE  /\ Len(log) \in Nat /\ Len(rows) \in Nat
           /\ Len(log') = Len(log) + Len(rows)
           /\ DOMAIN log = 1..Len(log) /\ DOMAIN log' = 1..Len(log') /\ DOMAIN rows = 1..Len(rows)
           /\ \A i \in DOMAIN log : i \in DOMAIN log' /\ log'[i] = log[i]
           /\ \A j \in DOMAIN rows : log'[Len(log) + j] = rows[j]
           /\ \A i \in DOMAIN log' : i \in DOMAIN log \/ \E j \in DOMAIN rows : i = Len(log) + j
  <1>1. log \in Seq(Entries) /\ rows \in Seq(Entries)
    BY DEF TypeOK, Appends
  <1>2. /\ Len(log') = Len(log) + Len(rows)
        /\ \A i \in 1..(Len(log) + Len(rows)) :
              log'[i] = IF i <= Len(log) THEN log[i] ELSE rows[i - Len(log)]
    BY <1>1, ConcatProperties DEF Appends
  <1>3. log' \in Seq(Entries)
    BY <1>1, ConcatProperties DEF Appends
  <1>4. /\ Len(log) \in Nat /\ Len(rows) \in Nat
        /\ DOMAIN log = 1..Len(log) /\ DOMAIN log' = 1..Len(log') /\ DOMAIN rows = 1..Len(rows)
    BY <1>1, <1>3
  <1>5. ASSUME NEW i \in DOMAIN log', i \notin DOMAIN log
        PROVE  \E j \in DOMAIN rows : i = Len(log) + j
    <2>1. i - Len(log) \in DOMAIN rows /\ i = Len(log) + (i - Len(log))
      BY <1>2, <1>4, <1>5
    <2> QED BY <2>1
  <1>6. ASSUME NEW j \in DOMAIN rows PROVE log'[Len(log) + j] = rows[j]
    BY <1>2, <1>4
  <1>7. ASSUME NEW i \in DOMAIN log PROVE i \in DOMAIN log' /\ log'[i] = log[i]
    BY <1>2, <1>4
  <1> QED BY <1>2, <1>4, <1>5, <1>6, <1>7

(* The events of the longer log are the old ones and the appended ones.    *)
LEMMA GrowRows ==
    ASSUME TypeOK, NEW rows, Appends(rows)
    PROVE  /\ \A i \in EventSeqs : i \in EventSeqs' /\ log'[i] = log[i]
           /\ \A i \in EventSeqs' : i \in DOMAIN log => i \in EventSeqs
           /\ \A id : \A k \in RowsById(id) : k \in RowsById(id)' /\ log'[k] = log[k]
           /\ \A id : \A k \in RowsById(id)' : k \in DOMAIN log => k \in RowsById(id)
  BY Grow DEF EventSeqs, RowsById

(* Each step leaves the log alone, inserts events that collide with        *)
(* nothing, or appends what a pending void or correction holds.            *)
LEMMA LogSteps ==
    ASSUME TypeOK, Next
    PROVE  \/ log' = log
           \/ \E rows \in Seq(Events) : ~Collides(rows) /\ log' = log \o rows
           \/ \E s \in Sessions : InsertVoid(s)
           \/ \E s \in Sessions : InsertCorrection(s) /\ log' # log
  <1>1. PICK s \in Sessions :
           \/ \E e \in Rows : AddEvent(s, e)
           \/ InsertEvent(s)
           \/ \E source \in Sources, batch \in Batches : ImportEvents(s, source, batch)
           \/ ScanRow(s)
           \/ ImportStaged(s)
           \/ RecordImport(s)
           \/ \E id \in KnownIds, blank \in BOOLEAN : VoidEvent(s, id, blank)
           \/ InsertVoid(s)
           \/ \E id \in KnownIds, a \in Amounts, blank \in BOOLEAN : CorrectEvent(s, id, a, blank)
           \/ ChooseCorrectionId(s)
           \/ InsertCorrection(s)
           \/ HashRows(s) \/ StampMaxSeq(s)
           \/ ReadVoided(s, None) \/ ReadVoided(s, stamp[s].max_rowid) \/ ReadEvents(s)
           \/ Crash(s)
    BY DEF Next
  <1>2. CASE InsertEvent(s)
    <2>1. <<task[s].row>> \in Seq(Events)
      BY <1>2, TaskTypes DEF TypeOK, InsertEvent
    <2> QED BY <1>2, <2>1 DEF InsertEvent
  <1>3. CASE ImportStaged(s)
    <2>1. task[s].staged \in Seq(Events)
      BY <1>3, TaskTypes DEF TypeOK, ImportStaged
    <2> QED BY <1>3, <2>1 DEF ImportStaged
  <1> QED BY <1>1, <1>2, <1>3 DEF NoWrite, AddEvent, ImportEvents, ScanRow, RecordImport, VoidEvent,
          CorrectEvent, ChooseCorrectionId, HashRows, StampMaxSeq, ReadVoided, ReadEvents, Crash

-----------------------------------------------------------------------------
(* Inserted events collide with nothing, so ids stay unique; a void names  *)
(* no new event; a correction's id was checked like any other.             *)
LEMMA UniqueAfterInsert ==
    ASSUME TypeOK, UniqueIds, NEW rows \in Seq(Events), ~Collides(rows), log' = log \o rows
    PROVE  UniqueIds'
  <1>1. Appends(rows)
    BY DEF Appends, Entries
  <1>2. ASSUME NEW i \in DOMAIN rows PROVE RowsById(rows[i].id) = {}
    BY DEF Collides
  <1>3. ASSUME NEW i \in DOMAIN rows, NEW j \in DOMAIN rows, rows[i].id = rows[j].id PROVE i = j
    <2>1. DOMAIN rows = 1..Len(rows) /\ Len(rows) \in Nat
      BY <1>1, Grow
    <2>2. ~(j \in 1..(i - 1)) /\ ~(i \in 1..(j - 1))
      BY <1>3 DEF Collides
    <2> QED BY <2>1, <2>2
  <1> SUFFICES ASSUME NEW i \in EventSeqs', NEW j \in EventSeqs', log'[i].id = log'[j].id
               PROVE  i = j
    BY DEF UniqueIds
  <1>4. /\ i \in EventSeqs \/ \E k \in DOMAIN rows : i = Len(log) + k
        /\ j \in EventSeqs \/ \E k \in DOMAIN rows : j = Len(log) + k
    BY <1>1, Grow, GrowRows DEF EventSeqs
  <1>5. CASE i \in EventSeqs /\ j \in EventSeqs
    BY <1>1, <1>5, GrowRows DEF UniqueIds
  <1>6. ASSUME NEW m \in EventSeqs, NEW k \in DOMAIN rows PROVE log'[m].id # log'[Len(log) + k].id
    <2>1. log'[m] = log[m] /\ log'[Len(log) + k] = rows[k]
      BY <1>1, Grow, GrowRows
    <2>2. m \notin RowsById(rows[k].id)
      BY <1>2
    <2> QED BY <2>1, <2>2 DEF RowsById
  <1>7. ~(i \in EventSeqs /\ \E k \in DOMAIN rows : j = Len(log) + k)
        /\ ~(j \in EventSeqs /\ \E k \in DOMAIN rows : i = Len(log) + k)
    BY <1>6
  <1>8. CASE (\E k \in DOMAIN rows : i = Len(log) + k) /\ (\E k \in DOMAIN rows : j = Len(log) + k)
    BY <1>1, <1>3, <1>8, Grow
  <1> QED BY <1>4, <1>5, <1>7, <1>8

LEMMA VoidAppends ==
    ASSUME TypeOK, NEW s \in Sessions, InsertVoid(s)
    PROVE  /\ Appends(<<[kind |-> "void", id |-> task[s].target]>>)
           /\ EventSeqs' = EventSeqs
  <1> DEFINE rows == <<[kind |-> "void", id |-> task[s].target]>>
  <1>1. task[s].target \in EventIds
    BY TaskTypes DEF TypeOK, InsertVoid
  <1>2. Appends(rows)
    BY <1>1 DEF Appends, InsertVoid, Entries, Voids
  <1>3. DOMAIN rows = {1} /\ rows[1].kind = "void"
    OBVIOUS
  <1>4. ASSUME NEW i \in EventSeqs' PROVE i \in EventSeqs
    BY <1>2, <1>3, Grow, GrowRows DEF EventSeqs
  <1> QED BY <1>2, <1>4, GrowRows

LEMMA CorrectionAppends ==
    ASSUME TypeOK, NEW s \in Sessions, InsertCorrection(s), log' # log
    PROVE  /\ task[s].op = "replace"
           /\ task[s].target \in EventIds /\ task[s].row \in Events
           /\ Appends(<<[kind |-> "void", id |-> task[s].target], task[s].row>>)
           /\ RowsById(task[s].row.id) = {}
           /\ EventSeqs' = EventSeqs \cup {Len(log) + 2}
           /\ log'[Len(log) + 1] = [kind |-> "void", id |-> task[s].target]
           /\ log'[Len(log) + 2] = task[s].row
  <1> DEFINE rows == <<[kind |-> "void", id |-> task[s].target], task[s].row>>
  <1>1. task[s].op = "replace" /\ task[s].target \in EventIds /\ task[s].row \in Events
    BY TaskTypes DEF TypeOK, InsertCorrection
  <1>2. Appends(rows)
    BY <1>1 DEF Appends, InsertCorrection, Entries, Voids
  <1>3. DOMAIN rows = 1..2 /\ rows[1].kind = "void" /\ rows[2] = task[s].row
    OBVIOUS
  <1>4. task[s].row.kind = "event"
    BY <1>1 DEF Events
  <1>5. Len(log) \in Nat
    BY <1>2, Grow
  <1>6. log'[Len(log) + 1] = rows[1] /\ log'[Len(log) + 2] = rows[2] /\ Len(log) + 2 \in DOMAIN log'
    <2>1. 1 \in DOMAIN rows /\ 2 \in DOMAIN rows /\ Len(rows) = 2
      BY <1>3
    <2> HIDE DEF rows
    <2>2. log'[Len(log) + 1] = rows[1] /\ log'[Len(log) + 2] = rows[2]
      BY <1>2, <2>1, Grow
    <2>3. Len(log') = Len(log) + 2 /\ DOMAIN log' = 1..Len(log')
      BY <1>2, <2>1, Grow
    <2> QED BY <1>5, <2>2, <2>3
  <1>7. ASSUME NEW i \in EventSeqs', i \notin EventSeqs PROVE i = Len(log) + 2
    <2>1. PICK k \in DOMAIN rows : i = Len(log) + k
      BY <1>2, <1>7, Grow, GrowRows DEF EventSeqs
    <2>2. k # 1
      BY <1>3, <1>6, <1>7, <2>1 DEF EventSeqs
    <2> QED BY <1>3, <2>1, <2>2
  <1>8. EventSeqs' = EventSeqs \cup {Len(log) + 2}
    BY <1>2, <1>3, <1>4, <1>6, <1>7, GrowRows DEF EventSeqs
  <1>9. RowsById(task[s].row.id) = {}
    <2>1. ~Collides(<<task[s].row>>)
      BY DEF InsertCorrection
    <2> QED BY <2>1 DEF Collides
  <1> QED BY <1>1, <1>2, <1>6, <1>8, <1>9

LEMMA UniqueStep ==
    ASSUME TypeOK, UniqueIds, Next
    PROVE  UniqueIds'
  <1>1. CASE log' = log
    BY <1>1 DEF UniqueIds, EventSeqs
  <1>2. CASE \E rows \in Seq(Events) : ~Collides(rows) /\ log' = log \o rows
    BY <1>2, UniqueAfterInsert
  <1>3. ASSUME NEW s \in Sessions, InsertVoid(s) PROVE UniqueIds'
    BY <1>3, VoidAppends, GrowRows DEF UniqueIds
  <1>4. ASSUME NEW s \in Sessions, InsertCorrection(s), log' # log PROVE UniqueIds'
    <2>1. /\ RowsById(task[s].row.id) = {}
          /\ EventSeqs' = EventSeqs \cup {Len(log) + 2}
          /\ log'[Len(log) + 2] = task[s].row
          /\ \A i \in EventSeqs : log'[i] = log[i]
      BY <1>4, CorrectionAppends, GrowRows
    <2>2. \A i \in EventSeqs : log'[i].id # task[s].row.id
      BY <2>1 DEF RowsById
    <2> QED BY <2>1, <2>2 DEF UniqueIds
  <1> QED BY <1>1, <1>2, <1>3, <1>4, LogSteps

-----------------------------------------------------------------------------
(* Every step appends, and an id that names an event keeps naming it.      *)
LEMMA StepAppends ==
    ASSUME TypeOK, Next
    PROVE  log' = log \/ \E rows : Appends(rows)
  <1>1. \A rows \in Seq(Events) : log' = log \o rows => Appends(rows)
    BY DEF Appends, Entries
  <1> QED BY <1>1, LogSteps, VoidAppends, CorrectionAppends

LEMMA RowsKept ==
    ASSUME TypeOK, UniqueIds', Next, NEW id, RowsById(id) # {}
    PROVE  RowsById(id)' = RowsById(id) /\ \A k \in RowsById(id) : log'[k] = log[k]
  <1>1. CASE log' = log
    BY <1>1 DEF RowsById, EventSeqs
  <1>2. ASSUME NEW rows, Appends(rows)
        PROVE  RowsById(id)' = RowsById(id) /\ \A k \in RowsById(id) : log'[k] = log[k]
    <2>1. \A k \in RowsById(id) : k \in RowsById(id)' /\ log'[k] = log[k]
      BY <1>2, GrowRows
    <2>2. \A j, k \in RowsById(id)' : j = k
      BY DEF UniqueIds, RowsById
    <2> QED BY <2>1, <2>2
  <1> QED BY <1>1, <1>2, StepAppends

(* A session has a void or a replacement pending because it had it before, *)
(* or because it has just checked the target on an unchanged log.          *)
LEMMA PendingOrigin ==
    ASSUME TypeOK, Next, NEW r \in Sessions, task'[r].op \in {"void", "replace"}
    PROVE  \/ task'[r] = task[r]
           \/ \E id, blank : VoidEvent(r, id, blank) /\ task'[r] = [op |-> "void", target |-> id]
           \/ ChooseCorrectionId(r)
  <1>1. ASSUME NEW s \in Sessions, NEW t, Continue(s, t), t.op \notin {"void", "replace"}
        PROVE  task'[r] = task[r]
    BY <1>1 DEF Continue, TypeOK
  <1>2. ASSUME NEW s \in Sessions, NEW code, Answer(s, code)
        PROVE  task'[r] = task[r]
    BY <1>2 DEF Answer, Idle, TypeOK
  <1>3. PICK s \in Sessions :
           \/ \E e \in Rows : AddEvent(s, e)
           \/ InsertEvent(s)
           \/ \E source \in Sources, batch \in Batches : ImportEvents(s, source, batch)
           \/ ScanRow(s)
           \/ ImportStaged(s)
           \/ RecordImport(s)
           \/ \E id \in KnownIds, blank \in BOOLEAN : VoidEvent(s, id, blank)
           \/ InsertVoid(s)
           \/ \E id \in KnownIds, a \in Amounts, blank \in BOOLEAN : CorrectEvent(s, id, a, blank)
           \/ ChooseCorrectionId(s)
           \/ InsertCorrection(s)
           \/ HashRows(s) \/ StampMaxSeq(s)
           \/ ReadVoided(s, None) \/ ReadVoided(s, stamp[s].max_rowid) \/ ReadEvents(s)
           \/ Crash(s)
    BY DEF Next
  <1>4. CASE \E id \in KnownIds, blank \in BOOLEAN : VoidEvent(s, id, blank)
    <2>1. PICK id \in KnownIds, blank \in BOOLEAN : VoidEvent(s, id, blank)
      BY <1>4
    <2>2. (\E code : Answer(s, code)) \/ Continue(s, [op |-> "void", target |-> id])
      BY <2>1 DEF VoidEvent
    <2>3. CASE r # s
      BY <2>2, <2>3 DEF Answer, Continue, TypeOK
    <2>4. CASE r = s
      BY <1>2, <2>1, <2>2, <2>4 DEF Continue, TypeOK
    <2> QED BY <2>3, <2>4
  <1>5. CASE ChooseCorrectionId(s)
    BY <1>5 DEF ChooseCorrectionId, Continue, TypeOK
  <1>6. CASE \/ \E e \in Rows : AddEvent(s, e)
             \/ InsertEvent(s) \/ RecordImport(s) \/ InsertVoid(s) \/ InsertCorrection(s)
             \/ StampMaxSeq(s) \/ ReadEvents(s) \/ Crash(s)
    BY <1>1, <1>2, <1>6
       DEF AddEvent, InsertEvent, RecordImport, InsertVoid, InsertCorrection, StampMaxSeq,
           ReadEvents, Crash
  <1>7. CASE \/ \E source \in Sources, batch \in Batches : ImportEvents(s, source, batch)
             \/ ScanRow(s) \/ ImportStaged(s)
    <2>1. \A source, rest, staged, skipped, conflicted :
             Scanning(source, rest, staged, skipped, conflicted).op = "scan"
      BY DEF Scanning
    <2>2. \A t, n : Logging(t, n).op = "tally"
      BY DEF Logging
    <2> QED BY <1>1, <1>2, <1>7, <2>1, <2>2 DEF ImportEvents, ScanRow, ImportStaged
  <1>8. CASE \/ \E id \in KnownIds, a \in Amounts, blank \in BOOLEAN : CorrectEvent(s, id, a, blank)
             \/ HashRows(s) \/ ReadVoided(s, None) \/ ReadVoided(s, stamp[s].max_rowid)
    BY <1>1, <1>2, <1>8 DEF CorrectEvent, HashRows, ReadVoided
  <1> QED BY <1>3, <1>4, <1>5, <1>6, <1>7, <1>8

LEMMA PendingStep ==
    ASSUME TypeOK, UniqueIds, UniqueIds', PendingWrites, Next
    PROVE  PendingWrites'
  <1> SUFFICES ASSUME NEW r \in Sessions, task'[r].op \in {"void", "replace"}
      PROVE  /\ task'[r].op = "void" =>
                   /\ RowsById(task[r].target)' # {}
                   /\ \A k \in RowsById(task[r].target)' : log'[k].status # "actual"
             /\ task'[r].op = "replace" =>
                   /\ task'[r].row.corrects = task'[r].target
                   /\ \E k \in RowsById(task[r].target)' :
                         /\ task'[r].row.status = log'[k].status
                         /\ task'[r].row.source = log'[k].source
    BY DEF PendingWrites
  <1>1. CASE task'[r] = task[r]
    <2>1. RowsById(task[r].target) # {}
      BY <1>1 DEF PendingWrites
    <2>2. /\ RowsById(task[r].target)' = RowsById(task[r].target)
          /\ \A k \in RowsById(task[r].target) : log'[k] = log[k]
      <3>1. RowsById(task[r].target)' = {k \in EventSeqs' : log'[k].id = task[r].target}
        BY <1>1 DEF RowsById
      <3> DEFINE id == task[r].target
      <3>2. \A i : RowsById(i)' = {k \in EventSeqs' : log'[k].id = i'}
        BY DEF RowsById
      <3> QED BY <2>1, <3>1, RowsKept DEF RowsById
    <2> QED BY <1>1, <2>2 DEF PendingWrites
  <1>2. ASSUME NEW id, NEW blank, VoidEvent(r, id, blank), task'[r] = [op |-> "void", target |-> id]
        PROVE  /\ RowsById(task[r].target)' # {}
               /\ \A k \in RowsById(task[r].target)' : log'[k].status # "actual"
    <2>1. ReferentialProblem(id) = "none" /\ \A k \in RowsById(id) : log[k].status # "actual"
      <3>1. ~Answer(r, ReferentialProblem(id)) /\ ~Answer(r, "CK-E016") /\ ~Answer(r, "CK-E015")
        BY <1>2 DEF Answer, Idle, TypeOK
      <3> QED BY <1>2, <3>1 DEF VoidEvent
    <2>2. RowsById(id) # {}
      BY <2>1 DEF ReferentialProblem
    <2>3. log' = log
      BY <1>2 DEF VoidEvent, NoWrite
    <2> QED BY <1>2, <2>1, <2>2, <2>3 DEF RowsById, EventSeqs
  <1>3. CASE ChooseCorrectionId(r)
    <2>1. PICK k \in RowsById(task[r].target), n \in 1..(Len(log) + 1) :
             Continue(r, [op |-> "replace", target |-> task[r].target,
                          row |-> Replacement(log[k], Append(task[r].target, n), task[r].amount)])
      BY <1>3 DEF ChooseCorrectionId
    <2>2. /\ task'[r].op = "replace" /\ task'[r].target = task[r].target
          /\ task'[r].row = Replacement(log[k], Append(task[r].target, n), task[r].amount)
      BY <2>1 DEF Continue, TypeOK
    <2>3. log[k] \in Events /\ log[k].id = task[r].target
      BY StoredTypes DEF RowsById, TypeOK
    <2>4. /\ task'[r].row.corrects = log[k].id /\ task'[r].row.status = log[k].status
          /\ task'[r].row.source = log[k].source
      BY <2>2, <2>3 DEF Replacement, Events
    <2>5. log' = log
      BY <1>3 DEF ChooseCorrectionId, NoWrite
    <2> QED BY <2>2, <2>3, <2>4, <2>5 DEF RowsById, EventSeqs
  <1>4. CASE \E id, blank : VoidEvent(r, id, blank) /\ task'[r] = [op |-> "void", target |-> id]
    BY <1>2, <1>4
  <1> QED BY <1>1, <1>3, <1>4, PendingOrigin

-----------------------------------------------------------------------------
(* A tombstone already there keeps its target and its replacement.         *)
LEMMA OldVoidsKept ==
    ASSUME TypeOK, UniqueIds', ActualsSurvive, Next,
           NEW i \in DOMAIN log, log[i].kind = "void"
    PROVE  /\ i \in DOMAIN log' /\ log'[i] = log[i]
           /\ RowsById(log[i].id) # {} /\ RowsById(log[i].id)' = RowsById(log[i].id)
           /\ \A k \in RowsById(log[i].id) : log'[k] = log[k]
           /\ (i + 1) \in CorrectorsOf(log[i].id) =>
                 (i + 1) \in CorrectorsOf(log[i].id)' /\ log'[i + 1] = log[i + 1]
  <1>1. /\ i \in DOMAIN log' /\ log'[i] = log[i]
        /\ \A j \in EventSeqs : j \in EventSeqs' /\ log'[j] = log[j]
    BY StepAppends, Grow, GrowRows DEF EventSeqs
  <1>2. RowsById(log[i].id) # {}
    BY DEF ActualsSurvive
  <1>3. PICK id : id = log[i].id
    OBVIOUS
  <1>4. RowsById(id)' = RowsById(id) /\ \A k \in RowsById(id) : log'[k] = log[k]
    BY <1>2, <1>3, RowsKept
  <1>5. RowsById(log[i].id)' = RowsById(log[i].id)
    <2>1. RowsById(log[i].id)' = {k \in EventSeqs' : log'[k].id = id}
      BY <1>1, <1>3 DEF RowsById
    <2>2. RowsById(id)' = {k \in EventSeqs' : log'[k].id = id}
      BY DEF RowsById
    <2> QED BY <1>3, <1>4, <2>1, <2>2
  <1>6. ASSUME (i + 1) \in CorrectorsOf(log[i].id)
        PROVE  (i + 1) \in CorrectorsOf(log[i].id)' /\ log'[i + 1] = log[i + 1]
    <2>1. (i + 1) \in EventSeqs /\ log[i + 1].corrects = log[i].id
      BY <1>6 DEF CorrectorsOf
    <2> QED BY <1>1, <2>1 DEF CorrectorsOf
  <1> QED BY <1>1, <1>2, <1>3, <1>4, <1>5, <1>6

LEMMA SurviveStep ==
    ASSUME TypeOK, UniqueIds, UniqueIds', PendingWrites, ActualsSurvive, Next
    PROVE  ActualsSurvive'
  <1> DEFINE Safe(i) ==
        /\ RowsById(log[i].id) # {}
        /\ \A k \in RowsById(log[i].id) :
              log[k].status = "actual" =>
                  /\ (i + 1) \in CorrectorsOf(log[i].id)
                  /\ log[i + 1].status = "actual"
                  /\ log[i + 1].source = log[k].source
  <1> SUFFICES ASSUME NEW i \in DOMAIN log', log'[i].kind = "void" PROVE Safe(i)'
    BY DEF ActualsSurvive
  <1>1. CASE i \in DOMAIN log
    <2>1. log[i].kind = "void"
      BY <1>1, StepAppends, Grow
    <2>2. Safe(i)
      BY <1>1, <2>1 DEF ActualsSurvive
    <2> QED BY <1>1, <2>1, <2>2, OldVoidsKept
  <1>2. CASE i \notin DOMAIN log
    <2>1. log' # log
      BY <1>2
    <2>2. ASSUME NEW rows \in Seq(Events), log' = log \o rows PROVE FALSE
      <3>1. Appends(rows)
        BY <2>2 DEF Appends, Entries
      <3>2. PICK j \in DOMAIN rows : log'[i] = rows[j]
        BY <1>2, <3>1, Grow
      <3>3. rows[j] \in Events
        OBVIOUS
      <3> QED BY <3>2, <3>3 DEF Events
    <2>3. ASSUME NEW s \in Sessions, InsertVoid(s) PROVE Safe(i)'
      <3>1. PICK id : id = task[s].target
        OBVIOUS
      <3>2. RowsById(id) # {} /\ \A k \in RowsById(id) : log[k].status # "actual"
        BY <2>3, <3>1 DEF PendingWrites, InsertVoid
      <3>3. RowsById(id)' = RowsById(id) /\ \A k \in RowsById(id) : log'[k] = log[k]
        BY <3>2, RowsKept
      <3>4. log'[i] = [kind |-> "void", id |-> id]
        <4> DEFINE rows == <<[kind |-> "void", id |-> task[s].target]>>
        <4>1. PICK j \in DOMAIN rows : log'[i] = rows[j]
          BY <1>2, <2>3, VoidAppends, Grow
        <4> QED BY <3>1, <4>1
      <3> QED BY <3>2, <3>3, <3>4 DEF RowsById
    <2>4. ASSUME NEW s \in Sessions, InsertCorrection(s) PROVE Safe(i)'
      <3>1. PICK id : id = task[s].target
        OBVIOUS
      <3>2. PICK k \in RowsById(id) : task[s].row.status = log[k].status
                                    /\ task[s].row.source = log[k].source
        BY <2>1, <2>4, <3>1, CorrectionAppends DEF PendingWrites
      <3>3. task[s].row.corrects = id
        BY <2>1, <2>4, <3>1, CorrectionAppends DEF PendingWrites
      <3>4. RowsById(id)' = RowsById(id) /\ \A j \in RowsById(id) : log'[j] = log[j] /\ j = k
        BY <3>2, RowsKept DEF UniqueIds, RowsById
      <3>5. /\ log'[Len(log) + 1] = [kind |-> "void", id |-> id]
            /\ log'[Len(log) + 2] = task[s].row /\ (Len(log) + 2) \in EventSeqs'
            /\ task[s].row.kind = "event"
        BY <2>1, <2>4, <3>1, CorrectionAppends DEF Events
      <3>6. i = Len(log) + 1
        <4> DEFINE rows == <<[kind |-> "void", id |-> task[s].target], task[s].row>>
        <4>0. Appends(rows)
          BY <2>1, <2>4, CorrectionAppends
        <4>1. PICK j \in DOMAIN rows : i = Len(log) + j
          BY <1>2, <4>0, Grow
        <4>2. j = 1 \/ j = 2
          BY <4>1
        <4> QED BY <3>5, <4>1, <4>2
      <3>7. Len(log) \in Nat
        BY StoredTypes DEF TypeOK
      <3>8. i + 1 = Len(log) + 2
        BY <3>6, <3>7
      <3> QED BY <3>2, <3>3, <3>4, <3>5, <3>6, <3>8 DEF RowsById, CorrectorsOf
    <2> QED BY <2>1, <2>2, <2>3, <2>4, LogSteps
  <1> QED BY <1>1, <1>2

LEMMA SurvivalStart == Init => SurvivalInv
<1> SUFFICES ASSUME Init PROVE SurvivalInv
  OBVIOUS
<1>1. DOMAIN log = {} /\ \A s \in Sessions : task[s].op = "idle"
  BY DEF Init, Idle
<1> QED BY <1>1, InitType DEF SurvivalInv, UniqueIds, PendingWrites, ActualsSurvive, EventSeqs

LEMMA SurvivalStep == SurvivalInv /\ [Next]_vars => SurvivalInv'
<1> SUFFICES ASSUME SurvivalInv, [Next]_vars PROVE SurvivalInv'
  OBVIOUS
<1>1. CASE Next
  BY <1>1, TypeStep, UniqueStep, PendingStep, SurviveStep DEF SurvivalInv
<1>2. CASE UNCHANGED vars
  <2>1. TypeOK'
    BY <1>2 DEF vars, SurvivalInv, TypeOK
  <2>2. UniqueIds'
    BY <1>2 DEF vars, SurvivalInv, UniqueIds, EventSeqs
  <2>3. PendingWrites'
    BY <1>2 DEF vars, SurvivalInv, PendingWrites, RowsById, EventSeqs
  <2>4. ActualsSurvive'
    BY <1>2 DEF vars, SurvivalInv, ActualsSurvive, RowsById, CorrectorsOf, EventSeqs
  <2> QED BY <2>1, <2>2, <2>3, <2>4 DEF SurvivalInv
<1> QED BY <1>1, <1>2

(* ADR-0012 for any number of sessions writing without a lock: no actual   *)
(* is ever tombstoned without its replacement in the same transaction.     *)
THEOREM ActualsAlwaysSurvive == Spec => []ActualsSurvive
  <1>1. SurvivalInv => ActualsSurvive
    BY DEF SurvivalInv
  <1> QED BY <1>1, SurvivalStart, SurvivalStep, PTL DEF Spec

-----------------------------------------------------------------------------
(* The past does not change: up to a number the log has reached, the       *)
(* tombstones and the facts stay the same.                                 *)
LEMMA PastIsFixed ==
  ASSUME TypeOK, Next, NEW n \in Nat, n <= Len(log)
  PROVE  /\ n <= Len(log')
         /\ VoidedUpTo(n)' = VoidedUpTo(n)
         /\ FactsUpTo(n)' = FactsUpTo(n)
<1>1. CASE log' = log
  BY <1>1 DEF VoidedUpTo, FactsUpTo, LiveUpTo, EventSeqs
<1>2. ASSUME NEW rows, Appends(rows)
      PROVE  /\ n <= Len(log')
             /\ VoidedUpTo(n)' = VoidedUpTo(n)
             /\ FactsUpTo(n)' = FactsUpTo(n)
  <2>1. /\ n <= Len(log')
        /\ \A i : i <= n /\ i \in DOMAIN log' <=> i <= n /\ i \in DOMAIN log
        /\ \A i \in DOMAIN log : log'[i] = log[i]
    BY <1>2, Grow
  <2>2. VoidedUpTo(n)' = VoidedUpTo(n)
    BY <2>1 DEF VoidedUpTo
  <2>3. \A i : i <= n /\ i \in EventSeqs' <=> i <= n /\ i \in EventSeqs
    BY <2>1 DEF EventSeqs
  <2>4. FactsUpTo(n)' = FactsUpTo(n)
    <3>1. \A i : i \in FactsUpTo(n)' <=> i \in FactsUpTo(n)
      BY <2>1, <2>2, <2>3 DEF FactsUpTo, LiveUpTo, EventSeqs
    <3> QED BY <3>1 DEF FactsUpTo, LiveUpTo, EventSeqs
  <2> QED BY <2>1, <2>2, <2>4
<1> QED BY <1>1, <1>2, StepAppends

(* What a session holds of the past is true of it: its watermark, the      *)
(* tombstones of a truncated read under way, and what such a read gave.    *)
StampTrue(s) == stamp[s].max_rowid <= Len(log) /\ stamp[s].facts = FactsUpTo(stamp[s].max_rowid)
ReadingTrue(s) ==
    task[s].op = "reading" /\ task[s].upto # None =>
        task[s].upto <= Len(log) /\ task[s].voided = VoidedUpTo(task[s].upto)
SeenTrue(s) ==
    seen[s].upto # None =>
        seen[s].upto <= Len(log) /\ seen[s].facts = FactsUpTo(seen[s].upto)

ReadInv == TypeOK /\ \A s \in Sessions : StampTrue(s) /\ ReadingTrue(s) /\ SeenTrue(s)

LEMMA InitRead == Init => ReadInv
<1> SUFFICES ASSUME Init PROVE ReadInv
  OBVIOUS
<1>1. log = <<>> /\ DOMAIN log = {} /\ Len(log) = 0
  BY DEF Init
<1>2. FactsUpTo(0) = {}
  BY <1>1 DEF FactsUpTo, LiveUpTo, EventSeqs
<1>3. ASSUME NEW s \in Sessions PROVE StampTrue(s) /\ ReadingTrue(s) /\ SeenTrue(s)
  <2>1. stamp[s].max_rowid = 0 /\ stamp[s].facts = {}
    BY DEF Init, NoStamp
  <2>2. seen[s].upto = 0 /\ seen[s].facts = {}
    BY DEF Init, NothingSeen
  <2>3. task[s].op = "idle"
    BY DEF Init, Idle
  <2> QED BY <1>1, <1>2, <2>1, <2>2, <2>3 DEF StampTrue, ReadingTrue, SeenTrue
<1> QED BY <1>3, InitType DEF ReadInv

(* A session's reads are its own: another's step, and every step that is   *)
(* not a read, leaves a session what it holds, or takes it away.           *)
LEMMA HeldOrRead ==
  ASSUME TypeOK, Next, NEW s \in Sessions
  PROVE  /\ stamp'[s] = stamp[s] \/ StampMaxSeq(s)
         /\ seen'[s] = seen[s] \/ ReadEvents(s)
         /\ \/ task'[s] = task[s] \/ task'[s].op # "reading"
            \/ ReadVoided(s, None) \/ ReadVoided(s, stamp[s].max_rowid)
<1>1. PICK r \in Sessions :
         \/ \E e \in Rows : AddEvent(r, e)
         \/ InsertEvent(r)
         \/ \E source \in Sources, batch \in Batches : ImportEvents(r, source, batch)
         \/ ScanRow(r)
         \/ ImportStaged(r)
         \/ RecordImport(r)
         \/ \E id \in KnownIds, blank \in BOOLEAN : VoidEvent(r, id, blank)
         \/ InsertVoid(r)
         \/ \E id \in KnownIds, a \in Amounts, blank \in BOOLEAN : CorrectEvent(r, id, a, blank)
         \/ ChooseCorrectionId(r)
         \/ InsertCorrection(r)
         \/ HashRows(r) \/ StampMaxSeq(r)
         \/ ReadVoided(r, None) \/ ReadVoided(r, stamp[r].max_rowid) \/ ReadEvents(r)
         \/ Crash(r)
  BY DEF Next
<1>2. CASE StampMaxSeq(r)
  BY <1>2 DEF StampMaxSeq, Answer, TypeOK, Idle
<1>3. CASE ReadEvents(r)
  BY <1>3 DEF ReadEvents, Answer, TypeOK, Idle
<1>4. CASE ReadVoided(r, None) \/ ReadVoided(r, stamp[r].max_rowid)
  BY <1>4 DEF ReadVoided, NoRead, Continue, TypeOK
<1>5. CASE \/ \E e \in Rows : AddEvent(r, e)
           \/ InsertEvent(r) \/ ImportStaged(r) \/ RecordImport(r)
  BY <1>5 DEF AddEvent, InsertEvent, ImportStaged, RecordImport, NoRead, Continue, Answer, Idle,
              Logging, TypeOK
<1>6. CASE \/ \E source \in Sources, batch \in Batches : ImportEvents(r, source, batch)
           \/ ScanRow(r)
  BY <1>6 DEF ImportEvents, ScanRow, Scanning, NoRead, Continue, TypeOK
<1>7. CASE \/ \E id \in KnownIds, blank \in BOOLEAN : VoidEvent(r, id, blank)
           \/ InsertVoid(r)
  BY <1>7 DEF VoidEvent, InsertVoid, NoRead, Continue, Answer, Idle, TypeOK
<1>8. CASE \/ \E id \in KnownIds, a \in Amounts, blank \in BOOLEAN : CorrectEvent(r, id, a, blank)
           \/ ChooseCorrectionId(r)
           \/ InsertCorrection(r)
  BY <1>8 DEF CorrectEvent, ChooseCorrectionId, InsertCorrection, NoRead, Continue, Answer, Idle,
              TypeOK
<1>9. CASE HashRows(r) \/ Crash(r)
  BY <1>9 DEF HashRows, Crash, NoRead, Continue, Answer, Idle, TypeOK
<1> QED BY <1>1, <1>2, <1>3, <1>4, <1>5, <1>6, <1>7, <1>8, <1>9

LEMMA StampStep ==
  ASSUME ReadInv, Next, NEW s \in Sessions
  PROVE  StampTrue(s)'
<1>1. TypeOK /\ StampTrue(s) /\ stamp[s].max_rowid \in Nat /\ Len(log) \in Nat
  BY DEF ReadInv, TypeOK
<1>2. CASE stamp'[s] = stamp[s]
  BY <1>1, <1>2, PastIsFixed DEF StampTrue
<1>3. CASE StampMaxSeq(s)
  <2>1. log' = log /\ stamp'[s].max_rowid = Len(log) /\ stamp'[s].facts = FactsUpTo(Len(log))
    BY <1>1, <1>3 DEF StampMaxSeq, NoWrite, Facts, TypeOK
  <2>2. FactsUpTo(Len(log))' = FactsUpTo(Len(log))
    BY <2>1 DEF FactsUpTo, LiveUpTo, EventSeqs, VoidedUpTo
  <2> QED BY <1>1, <2>1, <2>2 DEF StampTrue
<1> QED BY <1>1, <1>2, <1>3, HeldOrRead

LEMMA ReadingStep ==
  ASSUME ReadInv, Next, NEW s \in Sessions, None \notin Nat
  PROVE  ReadingTrue(s)'
<1>1. TypeOK /\ StampTrue(s) /\ ReadingTrue(s) /\ stamp[s].max_rowid \in Nat
  BY DEF ReadInv, TypeOK
<1> SUFFICES ASSUME task'[s].op = "reading", task'[s].upto # None
             PROVE  task'[s].upto <= Len(log') /\ task'[s].voided = VoidedUpTo(task[s].upto)'
  BY DEF ReadingTrue
<1>2. CASE task'[s] = task[s]
  <2>1. task[s].upto \in Nat
    BY <1>1, <1>2, TaskTypes DEF TypeOK
  <2> QED BY <1>1, <1>2, <2>1, PastIsFixed DEF ReadingTrue
<1>3. CASE ReadVoided(s, None) \/ ReadVoided(s, stamp[s].max_rowid)
  <2>1. PICK upto \in {None, stamp[s].max_rowid} : ReadVoided(s, upto)
    BY <1>3
  <2>2. task'[s] = [op |-> "reading", upto |-> upto,
                    voided |-> VoidedUpTo(IF upto = None THEN Len(log) ELSE upto)]
    BY <1>1, <2>1 DEF ReadVoided, Continue, TypeOK
  <2>3. task'[s].upto = stamp[s].max_rowid /\ task'[s].voided = VoidedUpTo(stamp[s].max_rowid)
    BY <1>1, <2>2
  <2> QED BY <1>1, <2>3, PastIsFixed DEF StampTrue
<1> QED BY <1>1, <1>2, <1>3, HeldOrRead

LEMMA SeenStep ==
  ASSUME ReadInv, Next, NEW s \in Sessions, None \notin Nat
  PROVE  SeenTrue(s)'
<1>1. TypeOK /\ ReadingTrue(s) /\ SeenTrue(s)
  BY DEF ReadInv
<1> SUFFICES ASSUME seen'[s].upto # None
             PROVE  seen'[s].upto <= Len(log') /\ seen'[s].facts = FactsUpTo(seen[s].upto)'
  BY DEF SeenTrue
<1>2. CASE seen'[s] = seen[s]
  <2>1. seen[s].upto \in Nat
    BY <1>1, <1>2 DEF TypeOK
  <2> QED BY <1>1, <1>2, <2>1, PastIsFixed DEF SeenTrue
<1>3. CASE ReadEvents(s)
  <2>1. /\ task[s].op = "reading"
        /\ seen'[s].upto = task[s].upto
        /\ seen'[s].facts = LiveUpTo(IF task[s].upto = None THEN Len(log) ELSE task[s].upto,
                                     task[s].voided)
    BY <1>1, <1>3 DEF ReadEvents, TypeOK
  <2>2. task[s].upto \in Nat /\ task[s].upto # None
    BY <1>1, <2>1, TaskTypes DEF TypeOK
  <2>3. seen'[s].facts = FactsUpTo(task[s].upto) /\ task[s].upto <= Len(log)
    BY <1>1, <2>1, <2>2 DEF ReadingTrue, FactsUpTo
  <2> QED BY <1>1, <2>1, <2>2, <2>3, PastIsFixed
<1> QED BY <1>1, <1>2, <1>3, HeldOrRead

(* ADR-0006, for any number of sessions importing, voiding and correcting  *)
(* between the two SELECTs of a read and after it: a read truncated at a   *)
(* watermark gives the facts the watermark was taken of (facts() and       *)
(* watermark() in ledger.py).                                              *)
THEOREM TruncatedReadsReproduce ==
  ASSUME None \notin Nat
  PROVE  Spec => []ReproducibleRead
<1>1. Init => ReadInv
  BY InitRead
<1>2. ReadInv /\ [Next]_vars => ReadInv'
  <2> SUFFICES ASSUME ReadInv, [Next]_vars PROVE ReadInv'
    OBVIOUS
  <2>1. CASE Next
    BY <2>1, TypeStep, StampStep, ReadingStep, SeenStep DEF ReadInv
  <2>2. CASE UNCHANGED vars
    BY <2>2, TypeStep DEF vars, ReadInv, StampTrue, ReadingTrue, SeenTrue, FactsUpTo, LiveUpTo,
                          VoidedUpTo, EventSeqs
  <2> QED BY <2>1, <2>2
<1>3. ReadInv => ReproducibleRead
  <2> SUFFICES ASSUME ReadInv, NEW s \in Sessions, seen[s].upto = stamp[s].max_rowid
               PROVE  seen[s].facts = stamp[s].facts
    BY DEF ReproducibleRead
  <2>1. seen[s].upto # None
    BY DEF ReadInv, TypeOK
  <2> QED BY <2>1 DEF ReadInv, StampTrue, SeenTrue
<1> QED BY <1>1, <1>2, <1>3, PTL DEF Spec
-----------------------------------------------------------------------------
(* One session, whose callers hand in no corrections of their own.  The    *)
(* checks of void_event and correct_event are SELECTs before the write;    *)
(* with one session nothing comes between, so what they saw still holds.   *)
OneSession == \A r, s \in Sessions : r = s
RowsCorrectNothing == \A e \in Rows : e.corrects = None

Retirable(id) == CorrectorsOf(id) = {} /\ id \notin Voided
Ready(t) ==
    /\ t.op \in {"void", "correct", "replace"} => Retirable(t.target)
    /\ t.op = "replace" => t.row.corrects = t.target
Original(t) ==
    /\ t.op = "add" => t.row.corrects = None
    /\ t.op = "scan" => /\ \A i \in DOMAIN t.rest : t.rest[i].corrects = None
                       /\ \A i \in DOMAIN t.staged : t.staged[i].corrects = None

LinearInv ==
    /\ TypeOK /\ CorrectionChainsAreLinear
    /\ \A s \in Sessions : Ready(task[s]) /\ Original(task[s])

(* Originals correct nothing, so chains and tombstones are as they were.   *)
LEMMA LinearAfterInsert ==
  ASSUME TypeOK, CorrectionChainsAreLinear, NEW rows \in Seq(Events), log' = log \o rows,
         \A i \in DOMAIN rows : rows[i].corrects = None
  PROVE  CorrectionChainsAreLinear'
<1>1. Appends(rows)
  BY DEF Appends, Entries
<1>2. \A i \in DOMAIN rows : rows[i].kind = "event"
  <2>1. \A i \in DOMAIN rows : rows[i] \in Events
    OBVIOUS
  <2> QED BY <2>1 DEF Events
<1>3. ASSUME NEW i \in DOMAIN log', log'[i].kind = "void" \/ log'[i].corrects # None
      PROVE  i \in DOMAIN log /\ log'[i] = log[i]
  <2>1. CASE log'[i].kind = "void"
    BY <1>1, <1>2, <2>1, Grow
  <2>2. CASE log'[i].corrects # None
    BY <1>1, <2>2, Grow
  <2> QED BY <1>3, <2>1, <2>2
<1>4. \A i \in DOMAIN log : i \in DOMAIN log' /\ log'[i] = log[i]
  BY <1>1, Grow
<1>5. Voided \subseteq Voided'
  <2>1. \A i \in DOMAIN log : i <= Len(log) => i <= Len(log')
    BY <1>1, Grow
  <2> QED BY <1>4, <2>1 DEF Voided, VoidedUpTo
<1>6. ASSUME NEW i \in EventSeqs', log'[i].corrects # None
      PROVE  i \in EventSeqs /\ log'[i] = log[i]
  BY <1>3, <1>6 DEF EventSeqs
<1>7. ASSUME NEW i \in EventSeqs', NEW j \in EventSeqs', log'[i].corrects # None
      PROVE  /\ log'[i].corrects \in Voided'
             /\ log'[i].corrects = log'[j].corrects => i = j
  <2>1. i \in EventSeqs /\ log'[i] = log[i]
    BY <1>6, <1>7
  <2>2. log'[i].corrects \in Voided'
    BY <1>5, <1>7, <2>1 DEF CorrectionChainsAreLinear
  <2>3. ASSUME log'[i].corrects = log'[j].corrects PROVE i = j
    <3>1. j \in EventSeqs /\ log'[j] = log[j]
      BY <1>6, <1>7, <2>3
    <3> QED BY <1>7, <2>1, <2>3, <3>1 DEF CorrectionChainsAreLinear
  <2> QED BY <2>2, <2>3
<1>8. ASSUME NEW i \in DOMAIN log', NEW j \in DOMAIN log', log'[i].kind = "void",
             log'[j].kind = "void", log'[i].id = log'[j].id
      PROVE  i = j
  BY <1>3, <1>8 DEF CorrectionChainsAreLinear
<1> QED BY <1>7, <1>8 DEF CorrectionChainsAreLinear

(* A tombstone, alone or with its replacement, of what had neither.        *)
LEMMA LinearAfterRetiring ==
  ASSUME TypeOK, CorrectionChainsAreLinear, NEW id, Retirable(id), NEW rows, Appends(rows),
         rows[1] = [kind |-> "void", id |-> id], 1 \in DOMAIN rows,
         \A i \in DOMAIN rows : i # 1 => i = 2 /\ rows[i].kind = "event" /\ rows[i].corrects = id
  PROVE  CorrectionChainsAreLinear'
<1> DEFINE n == Len(log)
<1>1. /\ n \in Nat /\ DOMAIN log = 1..n /\ DOMAIN log' = 1..Len(log')
      /\ \A i \in DOMAIN log : i \in DOMAIN log' /\ log'[i] = log[i]
      /\ \A i \in DOMAIN log' : i \in DOMAIN log \/ i = n + 1 \/ i = n + 2
      /\ n + 1 \in DOMAIN log' /\ log'[n + 1] = [kind |-> "void", id |-> id]
      /\ n + 2 \in DOMAIN log' => log'[n + 2].kind = "event" /\ log'[n + 2].corrects = id
  <2>1. /\ n \in Nat /\ DOMAIN log = 1..n /\ DOMAIN log' = 1..Len(log')
        /\ Len(log') = n + Len(rows) /\ DOMAIN rows = 1..Len(rows) /\ Len(rows) \in Nat
        /\ \A i \in DOMAIN log : i \in DOMAIN log' /\ log'[i] = log[i]
        /\ \A j \in DOMAIN rows : log'[n + j] = rows[j]
        /\ \A i \in DOMAIN log' : i \in DOMAIN log \/ \E j \in DOMAIN rows : i = n + j
    BY Grow
  <2> HIDE DEF n
  <2>2. \A i \in DOMAIN log' : i \in DOMAIN log \/ i = n + 1 \/ i = n + 2
    BY <2>1
  <2>3. n + 1 \in DOMAIN log' /\ log'[n + 1] = rows[1]
    BY <2>1
  <2>4. n + 2 \in DOMAIN log' => 2 \in DOMAIN rows /\ log'[n + 2] = rows[2]
    BY <2>1
  <2> QED BY <2>1, <2>2, <2>3, <2>4
<1> HIDE DEF n
<1>2. /\ \A i \in DOMAIN log : log[i].kind = "void" => log[i].id # id
      /\ \A i \in EventSeqs : log[i].corrects # id
  <2>1. \A i \in DOMAIN log : i <= Len(log)
    BY <1>1 DEF n
  <2> QED BY <2>1 DEF Retirable, Voided, VoidedUpTo, CorrectorsOf
<1>3. ASSUME NEW i \in DOMAIN log', NEW j \in DOMAIN log', log'[i].kind = "void",
             log'[j].kind = "void", log'[i].id = log'[j].id
      PROVE  i = j
  <2>1. /\ (i \in DOMAIN log /\ log'[i] = log[i]) \/ (i = n + 1 /\ log'[i].id = id)
        /\ (j \in DOMAIN log /\ log'[j] = log[j]) \/ (j = n + 1 /\ log'[j].id = id)
    BY <1>1, <1>3
  <2> QED BY <1>2, <1>3, <2>1 DEF CorrectionChainsAreLinear
<1>4. Voided \subseteq Voided' /\ id \in Voided'
  <2>1. /\ \A i \in DOMAIN log' : i <= Len(log')
        /\ \A i \in DOMAIN log : i <= Len(log)
    BY <1>1 DEF n
  <2>2. Voided' = {log'[i].id : i \in {j \in DOMAIN log' : log'[j].kind = "void"}}
    BY <2>1 DEF Voided, VoidedUpTo
  <2>3. Voided = {log[i].id : i \in {j \in DOMAIN log : log[j].kind = "void"}}
    BY <2>1 DEF Voided, VoidedUpTo
  <2>4. id \in Voided'
    <3>1. n + 1 \in {j \in DOMAIN log' : log'[j].kind = "void"} /\ log'[n + 1].id = id
      BY <1>1
    <3> QED BY <2>2, <3>1
  <2> QED BY <1>1, <2>2, <2>3, <2>4
<1>5. ASSUME NEW i \in EventSeqs'
      PROVE  (i \in EventSeqs /\ log'[i] = log[i]) \/ (i = n + 2 /\ log'[i].corrects = id)
  BY <1>1 DEF EventSeqs
<1>6. ASSUME NEW i \in EventSeqs', NEW j \in EventSeqs', log'[i].corrects # None
      PROVE  /\ log'[i].corrects \in Voided'
             /\ log'[i].corrects = log'[j].corrects => i = j
  BY <1>2, <1>4, <1>5, <1>6 DEF CorrectionChainsAreLinear
<1> QED BY <1>3, <1>6 DEF CorrectionChainsAreLinear

LEMMA LinearStep ==
  ASSUME LinearInv, Next
  PROVE  CorrectionChainsAreLinear'
<1>t. TypeOK /\ CorrectionChainsAreLinear
  BY DEF LinearInv
<1>1. CASE log' = log
  BY <1>t, <1>1 DEF CorrectionChainsAreLinear, EventSeqs, Voided, VoidedUpTo
<1>2. ASSUME NEW s \in Sessions, InsertEvent(s), log' # log PROVE CorrectionChainsAreLinear'
  <2>1. <<task[s].row>> \in Seq(Events) /\ task[s].row.corrects = None
    BY <1>t, <1>2, TaskTypes DEF TypeOK, InsertEvent, LinearInv, Original
  <2> DEFINE rows == <<task[s].row>>
  <2>2. \A i \in DOMAIN rows : rows[i].corrects = None
    BY <2>1
  <2>3. log' = log \o rows
    BY <1>2 DEF InsertEvent
  <2> HIDE DEF rows
  <2> QED BY <1>t, <2>1, <2>2, <2>3, LinearAfterInsert DEF rows
<1>3. ASSUME NEW s \in Sessions, ImportStaged(s), log' # log PROVE CorrectionChainsAreLinear'
  <2>1. /\ task[s].staged \in Seq(Events) /\ log' = log \o task[s].staged
        /\ \A i \in DOMAIN task[s].staged : task[s].staged[i].corrects = None
    BY <1>t, <1>3, TaskTypes DEF TypeOK, ImportStaged, LinearInv, Original
  <2> QED BY <1>t, <2>1, LinearAfterInsert
<1>4. ASSUME NEW s \in Sessions, InsertVoid(s) PROVE CorrectionChainsAreLinear'
  <2> DEFINE rows == <<[kind |-> "void", id |-> task[s].target]>>
  <2>1. Appends(rows)
    BY <1>t, <1>4, VoidAppends
  <2>2. Retirable(task[s].target)
    BY <1>4 DEF InsertVoid, LinearInv, Ready
  <2>3. DOMAIN rows = {1} /\ rows[1] = [kind |-> "void", id |-> task[s].target]
    OBVIOUS
  <2> HIDE DEF rows
  <2> QED BY <1>t, <2>1, <2>2, <2>3, LinearAfterRetiring
<1>5. ASSUME NEW s \in Sessions, InsertCorrection(s), log' # log PROVE CorrectionChainsAreLinear'
  <2> DEFINE rows == <<[kind |-> "void", id |-> task[s].target], task[s].row>>
  <2>1. Appends(rows) /\ task[s].op = "replace" /\ task[s].row.kind = "event"
    BY <1>t, <1>5, CorrectionAppends DEF Events
  <2>2. Retirable(task[s].target) /\ task[s].row.corrects = task[s].target
    BY <2>1 DEF LinearInv, Ready
  <2>3. /\ DOMAIN rows = 1..2 /\ rows[1] = [kind |-> "void", id |-> task[s].target]
        /\ rows[2] = task[s].row
    OBVIOUS
  <2> HIDE DEF rows
  <2>4. \A i \in DOMAIN rows : i # 1 => i = 2 /\ rows[i].kind = "event"
                                        /\ rows[i].corrects = task[s].target
    BY <2>1, <2>2, <2>3
  <2>5. 1 \in DOMAIN rows
    BY <2>3
  <2> QED BY <1>t, <2>1, <2>2, <2>3, <2>4, <2>5, LinearAfterRetiring
<1>6. \/ log' = log
      \/ \E s \in Sessions : InsertEvent(s) \/ ImportStaged(s) \/ InsertVoid(s) \/ InsertCorrection(s)
  BY DEF Next, NoWrite, AddEvent, ImportEvents, ScanRow, RecordImport, VoidEvent, CorrectEvent,
         ChooseCorrectionId, HashRows, StampMaxSeq, ReadVoided, ReadEvents, Crash
<1> QED BY <1>1, <1>2, <1>3, <1>4, <1>5, <1>6

(* What the session is in the middle of stays justified.                   *)
LEMMA TaskStep ==
  ASSUME OneSession, RowsCorrectNothing, LinearInv, Next, NEW s \in Sessions
  PROVE  Ready(task[s])' /\ Original(task[s])'
<1>t. TypeOK /\ Ready(task[s]) /\ Original(task[s])
  BY DEF LinearInv
<1>1. ASSUME NEW code, Answer(s, code) PROVE Ready(task[s])' /\ Original(task[s])'
  BY <1>t, <1>1 DEF Answer, Idle, TypeOK, Ready, Original
<1>2. ASSUME NEW t, Continue(s, t), t.op \notin {"void", "correct", "replace", "add", "scan"}
      PROVE Ready(task[s])' /\ Original(task[s])'
  BY <1>t, <1>2 DEF Continue, TypeOK, Ready, Original
<1>3. ASSUME NEW t, Continue(s, t), t.op \in {"void", "correct", "replace"}, Ready(t), log' = log
      PROVE Ready(task[s])' /\ Original(task[s])'
  <2>1. task'[s] = t
    BY <1>t, <1>3 DEF Continue, TypeOK
  <2> QED BY <1>3, <2>1 DEF Ready, Original, Retirable, CorrectorsOf, Voided, VoidedUpTo, EventSeqs
<1>4. ASSUME NEW t, Continue(s, t), t.op \in {"add", "scan"}, Original(t)
      PROVE Ready(task[s])' /\ Original(task[s])'
  <2>1. task'[s] = t
    BY <1>t, <1>4 DEF Continue, TypeOK
  <2> QED BY <1>4, <2>1 DEF Ready, Original
<1>5. CASE \E e \in Rows : AddEvent(s, e)
  <2>1. PICK e \in Rows : AddEvent(s, e)
    BY <1>5
  <2>2. (\E code : Answer(s, code)) \/ Continue(s, [op |-> "add", row |-> e])
    BY <2>1 DEF AddEvent
  <2>3. Original([op |-> "add", row |-> e])
    BY DEF RowsCorrectNothing, Original
  <2> QED BY <1>1, <1>4, <2>2, <2>3
<1>6. CASE \E source \in Sources, batch \in Batches : ImportEvents(s, source, batch)
  <2>1. PICK source \in Sources, batch \in Batches : ImportEvents(s, source, batch)
    BY <1>6
  <2>2. \A i \in DOMAIN batch : batch[i] \in Rows
    BY DEF Batches
  <2>3. Scanning(source, batch, <<>>, 0, 0).op = "scan" /\ Original(Scanning(source, batch, <<>>, 0, 0))
    BY <2>2 DEF RowsCorrectNothing, Original, Scanning
  <2> QED BY <1>4, <2>1, <2>3 DEF ImportEvents
<1>7. CASE ScanRow(s)
  <2> DEFINE t == task[s]
             e == [Head(t.rest) EXCEPT !.source = t.source]
  <2>1. t.op = "scan" /\ t.rest # <<>> /\ t.rest \in Seq(Events) /\ t.staged \in Seq(Events)
    BY <1>t, <1>7, TaskTypes DEF ScanRow, TypeOK
  <2>2. Head(t.rest) = t.rest[1] /\ 1 \in DOMAIN t.rest /\ Head(t.rest) \in Events
    BY <2>1
  <2>3. e.corrects = None
    BY <1>t, <2>1, <2>2 DEF Original, Events
  <2>4. \A i \in DOMAIN Tail(t.rest) : Tail(t.rest)[i].corrects = None
    BY <1>t, <2>1 DEF Original
  <2>5. \A i \in DOMAIN Append(t.staged, e) : Append(t.staged, e)[i].corrects = None
    <3>1. e \in Events
      BY <1>t, <2>1, <2>2, TaskTypes DEF TypeOK, Events
    <3> HIDE DEF e
    <3>2. ASSUME NEW i \in DOMAIN Append(t.staged, e)
          PROVE  \/ i \in DOMAIN t.staged /\ Append(t.staged, e)[i] = t.staged[i]
                 \/ Append(t.staged, e)[i] = e
      BY <2>1, <3>1, AppendProperties
    <3> QED BY <1>t, <2>1, <2>3, <3>2 DEF Original
  <2>6. \A sk, co : /\ Original(Scanning(t.source, Tail(t.rest), t.staged, sk, co))
                    /\ Original(Scanning(t.source, Tail(t.rest), Append(t.staged, e), sk, co))
    <3> HIDE DEF e
    <3> QED BY <1>t, <2>1, <2>4, <2>5 DEF Original, Scanning
  <2>7. \A st, sk, co : Scanning(t.source, Tail(t.rest), st, sk, co).op = "scan"
    BY DEF Scanning
  <2> QED BY <1>4, <1>7, <2>6, <2>7 DEF ScanRow
<1>8. CASE ImportStaged(s)
  <2>1. \A n : Logging(task[s], n).op = "tally"
    BY DEF Logging
  <2> QED BY <1>1, <1>2, <1>8, <2>1 DEF ImportStaged
<1>9. ASSUME NEW id, ReferentialProblem(id) = "none" PROVE Retirable(id)
  BY <1>9 DEF ReferentialProblem, Retirable
<1>10. CASE \E id \in KnownIds, blank \in BOOLEAN : VoidEvent(s, id, blank)
  <2>1. PICK id \in KnownIds, blank \in BOOLEAN : VoidEvent(s, id, blank)
    BY <1>10
  <2>2. \/ \E code : Answer(s, code)
        \/ ReferentialProblem(id) = "none" /\ Continue(s, [op |-> "void", target |-> id]) /\ log' = log
    BY <2>1 DEF VoidEvent, NoWrite
  <2>3. Retirable(id) => Ready([op |-> "void", target |-> id])
    BY DEF Ready
  <2> QED BY <1>1, <1>3, <1>9, <2>2, <2>3
<1>11. CASE \E id \in KnownIds, a \in Amounts, blank \in BOOLEAN : CorrectEvent(s, id, a, blank)
  <2>1. PICK id \in KnownIds, a \in Amounts, blank \in BOOLEAN : CorrectEvent(s, id, a, blank)
    BY <1>11
  <2>2. \/ \E code : Answer(s, code)
        \/ /\ ReferentialProblem(id) = "none" /\ log' = log
           /\ Continue(s, [op |-> "correct", target |-> id, amount |-> a])
    BY <2>1 DEF CorrectEvent, NoWrite
  <2>3. Retirable(id) => Ready([op |-> "correct", target |-> id, amount |-> a])
    BY DEF Ready
  <2> QED BY <1>1, <1>3, <1>9, <2>2, <2>3
<1>12. CASE ChooseCorrectionId(s)
  <2>1. PICK k \in RowsById(task[s].target), n \in 1..(Len(log) + 1) :
           Continue(s, [op |-> "replace", target |-> task[s].target,
                        row |-> Replacement(log[k], Append(task[s].target, n), task[s].amount)])
    BY <1>12 DEF ChooseCorrectionId
  <2> DEFINE row == Replacement(log[k], Append(task[s].target, n), task[s].amount)
  <2>2. log[k] \in Events /\ log[k].id = task[s].target
    BY <1>t, StoredTypes DEF RowsById, TypeOK
  <2>3. row.corrects = task[s].target
    BY <2>2 DEF Replacement, Events
  <2>4. Retirable(task[s].target) /\ log' = log
    BY <1>t, <1>12 DEF ChooseCorrectionId, NoWrite, Ready
  <2> HIDE DEF row
  <2>5. Ready([op |-> "replace", target |-> task[s].target, row |-> row])
    BY <2>3, <2>4 DEF Ready
  <2> QED BY <1>3, <2>1, <2>4, <2>5 DEF row
<1>13. CASE \/ InsertEvent(s) \/ RecordImport(s) \/ InsertVoid(s) \/ InsertCorrection(s)
            \/ StampMaxSeq(s) \/ ReadEvents(s) \/ Crash(s)
  BY <1>1, <1>13 DEF InsertEvent, RecordImport, InsertVoid, InsertCorrection, StampMaxSeq, ReadEvents,
                     Crash
<1>14. CASE HashRows(s) \/ ReadVoided(s, None) \/ ReadVoided(s, stamp[s].max_rowid)
  BY <1>2, <1>14 DEF HashRows, ReadVoided
<1> QED BY <1>5, <1>6, <1>7, <1>8, <1>10, <1>11, <1>12, <1>13, <1>14 DEF Next, OneSession

LEMMA LinearStart == Init => LinearInv
<1> SUFFICES ASSUME Init PROVE LinearInv
  OBVIOUS
<1>1. DOMAIN log = {} /\ \A s \in Sessions : task[s].op = "idle"
  BY DEF Init, Idle
<1> QED BY <1>1, InitType DEF LinearInv, CorrectionChainsAreLinear, EventSeqs, Ready, Original

LEMMA LinearInvStep ==
  ASSUME OneSession, RowsCorrectNothing
  PROVE  LinearInv /\ [Next]_vars => LinearInv'
<1> SUFFICES ASSUME LinearInv, [Next]_vars PROVE LinearInv'
  OBVIOUS
<1>1. CASE Next
  BY <1>1, TypeStep, LinearStep, TaskStep DEF LinearInv
<1>2. CASE UNCHANGED vars
  BY <1>2, TypeStep DEF vars, LinearInv, CorrectionChainsAreLinear, EventSeqs, Voided, VoidedUpTo,
                        CorrectorsOf, Retirable, Ready, Original
<1> QED BY <1>1, <1>2

(* ADR-0012 for one session: however long it adds, imports, voids and      *)
(* corrects, and however often it is cut off, an event is retired at most  *)
(* once and restated at most once, and what is restated is retired         *)
(* (_referential_problem, void_event and correct_event in ledger.py).      *)
THEOREM OneSessionKeepsChainsLinear ==
  ASSUME OneSession, RowsCorrectNothing
  PROVE  Spec => []CorrectionChainsAreLinear
<1>1. LinearInv => CorrectionChainsAreLinear
  BY DEF LinearInv
<1> QED BY <1>1, LinearStart, LinearInvStep, PTL DEF Spec
-----------------------------------------------------------------------------
(* The refinement of FactBook by one session whose callers give every      *)
(* event a name of its own.  Every event descends from the one that has    *)
(* the bare name (Rooted), and of a name's events one at most is live      *)
(* (OneLive): the fact a reader sees.                                      *)
RowsAreNamed == \A e \in Rows : \E n \in Names : e.id = <<n>>

Rooted ==
    \A i \in EventSeqs :
        /\ log[i].id # <<>>
        /\ log[i].id[1] \in Names
        /\ \E r \in EventSeqs : log[r].id = <<log[i].id[1]>>
OneLive == \A i, j \in Facts : log[i].id[1] = log[j].id[1] => i = j

HasName(e) == \E n \in Names : e.id = <<n>>
Named(t) ==
    /\ t.op = "add" => HasName(t.row)
    /\ t.op = "scan" => /\ \A i \in DOMAIN t.rest : HasName(t.rest[i])
                       /\ \A i \in DOMAIN t.staged : HasName(t.staged[i])
    /\ t.op = "replace" => \E n \in Nat : t.row.id = Append(t.target, n)

FactInv ==
    /\ SurvivalInv /\ LinearInv
    /\ Rooted /\ OneLive
    /\ \A s \in Sessions : Named(task[s])

(* What a reader sees of a name that is unknown, retired, or live at k.    *)
LEMMA ViewAbsent == \A n : RowsById(<<n>>) = {} => FactOf(n) = [status |-> "absent"]
BY DEF FactOf

LEMMA ViewRetired ==
  \A n : /\ RowsById(<<n>>) # {}
         /\ \A i \in Facts : log[i].id[1] # n
         => FactOf(n) = [status |-> "retired"]
BY DEF FactOf

LEMMA ViewRetiredNext ==
  \A n : /\ RowsById(<<n>>)' # {}
         /\ \A i \in Facts' : log'[i].id[1] # n
         => FactOf(n)' = [status |-> "retired"]
<1>1. (\A n : /\ RowsById(<<n>>) # {}
              /\ \A i \in Facts : log[i].id[1] # n
              => FactOf(n) = [status |-> "retired"])'
  BY ViewRetired, PTL
<1> QED BY <1>1

LEMMA ViewLive ==
  Rooted /\ OneLive =>
      \A k \in Facts : /\ RowsById(<<log[k].id[1]>>) # {}
                       /\ FactOf(log[k].id[1]) = [status |-> log[k].status, amount |-> log[k].amount]
<1> SUFFICES ASSUME Rooted, OneLive, NEW k \in Facts
             PROVE  /\ RowsById(<<log[k].id[1]>>) # {}
                    /\ FactOf(log[k].id[1]) = [status |-> log[k].status, amount |-> log[k].amount]
  OBVIOUS
<1> DEFINE n == log[k].id[1]
           live == {i \in Facts : log[i].id[1] = n}
<1>1. RowsById(<<n>>) # {}
  BY DEF Rooted, Facts, FactsUpTo, LiveUpTo, RowsById
<1>2. live = {k}
  BY DEF OneLive
<1>3. (CHOOSE i \in live : TRUE) = k
  BY <1>2
<1>4. FactOf(n) = LET i == CHOOSE i \in live : TRUE
                  IN [status |-> log[i].status, amount |-> log[i].amount]
  BY <1>1, <1>2 DEF FactOf
<1> QED BY <1>1, <1>3, <1>4

LEMMA ViewLiveNext ==
  Rooted' /\ OneLive' =>
      \A k \in Facts' : /\ RowsById(<<log[k].id[1]>>)' # {}
                        /\ FactOf(log[k].id[1])' = [status |-> log'[k].status, amount |-> log'[k].amount]
<1>1. (Rooted /\ OneLive =>
         \A k \in Facts : /\ RowsById(<<log[k].id[1]>>) # {}
                          /\ FactOf(log[k].id[1]) =
                                [status |-> log[k].status, amount |-> log[k].amount])'
  BY ViewLive, PTL
<1> QED BY <1>1

(* A name whose events and live events are what they were shows what it did. *)
LEMMA ViewSame ==
  ASSUME NEW n, RowsById(<<n>>)' = {} <=> RowsById(<<n>>) = {},
         \A i : (i \in Facts' /\ log'[i].id[1] = n) <=> (i \in Facts /\ log[i].id[1] = n),
         \A i \in Facts : i \in Facts' => log'[i] = log[i]
  PROVE  FactOf(n)' = FactOf(n)
<1> DEFINE live == {i \in Facts : log[i].id[1] = n}
<1>1. {i \in Facts' : log'[i].id[1] = n} = live
  OBVIOUS
<1>2. CASE RowsById(<<n>>) = {}
  BY <1>2 DEF FactOf
<1>3. CASE live = {}
  BY <1>1, <1>3 DEF FactOf
<1>4. CASE RowsById(<<n>>) # {} /\ live # {}
  <2> DEFINE k == CHOOSE i \in live : TRUE
  <2>1. k \in live
    BY <1>4
  <2>2. log'[k] = log[k]
    BY <1>1, <2>1
  <2>3. FactOf(n) = [status |-> log[k].status, amount |-> log[k].amount]
    BY <1>4 DEF FactOf
  <2>4. FactOf(n)' = [status |-> log'[k].status, amount |-> log'[k].amount]
    BY <1>1, <1>4 DEF FactOf
  <2> QED BY <2>2, <2>3, <2>4
<1> QED BY <1>2, <1>3, <1>4

-----------------------------------------------------------------------------
(* The facts after each kind of write.                                     *)
LEMMA FactsAre ==
  log \in Seq(Entries) => Facts = {i \in EventSeqs : log[i].id \notin Voided}
<1> SUFFICES ASSUME log \in Seq(Entries)
             PROVE  Facts = {i \in EventSeqs : log[i].id \notin Voided}
  OBVIOUS
<1>1. \A i \in EventSeqs : i <= Len(log)
  BY DEF EventSeqs
<1> QED BY <1>1 DEF Facts, FactsUpTo, LiveUpTo, Voided

LEMMA FactsAreNext ==
  log' \in Seq(Entries) => Facts' = {i \in EventSeqs' : log'[i].id \notin Voided'}
<1>1. (log \in Seq(Entries) => Facts = {i \in EventSeqs : log[i].id \notin Voided})'
  BY FactsAre, PTL
<1> QED BY <1>1

LEMMA VoidedIs ==
  log \in Seq(Entries) => Voided = {log[i].id : i \in {j \in DOMAIN log : log[j].kind = "void"}}
<1> SUFFICES ASSUME log \in Seq(Entries)
             PROVE  Voided = {log[i].id : i \in {j \in DOMAIN log : log[j].kind = "void"}}
  OBVIOUS
<1>1. \A i \in DOMAIN log : i <= Len(log)
  OBVIOUS
<1> QED BY <1>1 DEF Voided, VoidedUpTo

LEMMA VoidedIsNext ==
  log' \in Seq(Entries) =>
      Voided' = {log'[i].id : i \in {j \in DOMAIN log' : log'[j].kind = "void"}}
<1>1. (log \in Seq(Entries) =>
         Voided = {log[i].id : i \in {j \in DOMAIN log : log[j].kind = "void"}})'
  BY VoidedIs, PTL
<1> QED BY <1>1

(* Inserted events are live, and nothing else changes.                     *)
LEMMA FactsAfterInsert ==
  ASSUME SurvivalInv, TypeOK', NEW rows \in Seq(Events), ~Collides(rows), log' = log \o rows
  PROVE  /\ Appends(rows)
         /\ EventSeqs' = EventSeqs \cup {Len(log) + j : j \in DOMAIN rows}
         /\ Facts' = Facts \cup {Len(log) + j : j \in DOMAIN rows}
         /\ \A j \in DOMAIN rows : RowsById(rows[j].id) = {}
         /\ \A i, j \in DOMAIN rows : rows[i].id = rows[j].id => i = j
<1>t. log \in Seq(Entries) /\ log' \in Seq(Entries) /\ TypeOK /\ ActualsSurvive
  BY DEF SurvivalInv, TypeOK
<1>1. Appends(rows)
  BY DEF Appends, Entries
<1>2. \A j \in DOMAIN rows : rows[j] \in Events /\ rows[j].kind = "event"
  <2>1. \A j \in DOMAIN rows : rows[j] \in Events
    OBVIOUS
  <2> QED BY <2>1 DEF Events
<1>3. \A j \in DOMAIN rows : RowsById(rows[j].id) = {}
  BY DEF Collides
<1>4. \A i, j \in DOMAIN rows : rows[i].id = rows[j].id => i = j
  <2> SUFFICES ASSUME NEW i \in DOMAIN rows, NEW j \in DOMAIN rows, rows[i].id = rows[j].id
               PROVE  i = j
    OBVIOUS
  <2>1. DOMAIN rows = 1..Len(rows) /\ Len(rows) \in Nat
    BY <1>t, <1>1, Grow
  <2>2. ~(j \in 1..(i - 1)) /\ ~(i \in 1..(j - 1))
    BY DEF Collides
  <2> QED BY <2>1, <2>2
<1>5. /\ \A i \in DOMAIN log : i \in DOMAIN log' /\ log'[i] = log[i]
      /\ \A j \in DOMAIN rows : Len(log) + j \in DOMAIN log' /\ log'[Len(log) + j] = rows[j]
      /\ \A i \in DOMAIN log' : i \in DOMAIN log \/ \E j \in DOMAIN rows : i = Len(log) + j
  <2>1. \A j \in DOMAIN rows : Len(log) + j \in DOMAIN log'
    BY <1>t, <1>1, Grow
  <2> QED BY <1>t, <1>1, <2>1, Grow
<1>6. EventSeqs' = EventSeqs \cup {Len(log) + j : j \in DOMAIN rows}
  BY <1>2, <1>5 DEF EventSeqs
<1>7. Voided' = Voided
  <2>1. {j \in DOMAIN log' : log'[j].kind = "void"} = {j \in DOMAIN log : log[j].kind = "void"}
    BY <1>2, <1>5
  <2> DEFINE tombs == {j \in DOMAIN log : log[j].kind = "void"}
  <2>2. \A i \in tombs : log'[i] = log[i]
    BY <1>5
  <2>3. Voided = {log[i].id : i \in tombs}
    BY <1>t, VoidedIs
  <2>4. Voided' = {log'[i].id : i \in tombs}
    BY <1>t, <2>1, VoidedIsNext
  <2> HIDE DEF tombs
  <2> QED BY ONLY <2>2, <2>3, <2>4
<1>8. ASSUME NEW j \in DOMAIN rows PROVE rows[j].id \notin Voided
  <2>1. Voided = {log[i].id : i \in {k \in DOMAIN log : log[k].kind = "void"}}
    BY <1>t, VoidedIs
  <2>2. \A i \in DOMAIN log : log[i].kind = "void" => RowsById(log[i].id) # {}
    BY <1>t DEF ActualsSurvive
  <2>3. RowsById(rows[j].id) = {}
    BY <1>3
  <2> QED BY ONLY <2>1, <2>2, <2>3
<1>9. \A i \in EventSeqs : log'[i] = log[i]
  BY <1>5 DEF EventSeqs
<1>10. Facts' = Facts \cup {Len(log) + j : j \in DOMAIN rows}
  <2> DEFINE added == {Len(log) + j : j \in DOMAIN rows}
  <2>1. Facts = {i \in EventSeqs : log[i].id \notin Voided}
    BY <1>t, FactsAre
  <2>2. Facts' = {i \in EventSeqs' : log'[i].id \notin Voided'}
    BY <1>t, FactsAreNext
  <2>3. \A i \in added : log'[i].id \notin Voided
    BY <1>5, <1>8
  <2>4. EventSeqs' = EventSeqs \cup added
    BY <1>6
  <2> HIDE DEF added
  <2>5. Facts' = Facts \cup added
    BY ONLY <1>7, <1>9, <2>1, <2>2, <2>3, <2>4
  <2> QED BY <2>5 DEF added
<1> QED BY <1>1, <1>3, <1>4, <1>6, <1>10

(* A tombstone takes its target out of the facts.                          *)
LEMMA FactsAfterVoid ==
  ASSUME TypeOK, TypeOK', NEW s \in Sessions, InsertVoid(s)
  PROVE  /\ EventSeqs' = EventSeqs /\ \A i \in EventSeqs : log'[i] = log[i]
         /\ Facts' = {i \in Facts : log[i].id # task[s].target}
<1> DEFINE rows == <<[kind |-> "void", id |-> task[s].target]>>
<1>t. log \in Seq(Entries) /\ log' \in Seq(Entries)
  BY DEF TypeOK
<1>1. Appends(rows) /\ EventSeqs' = EventSeqs
  BY VoidAppends
<1>2. DOMAIN rows = {1} /\ rows[1] = [kind |-> "void", id |-> task[s].target]
  OBVIOUS
<1> HIDE DEF rows
<1>3. /\ \A i \in DOMAIN log : i \in DOMAIN log' /\ log'[i] = log[i]
      /\ \A i \in DOMAIN log' : i \in DOMAIN log \/ i = Len(log) + 1
      /\ Len(log) + 1 \in DOMAIN log' /\ log'[Len(log) + 1] = rows[1]
  <2>1. /\ \A i \in DOMAIN log : i \in DOMAIN log' /\ log'[i] = log[i]
        /\ \A j \in DOMAIN rows : log'[Len(log) + j] = rows[j]
        /\ \A i \in DOMAIN log' : i \in DOMAIN log \/ \E j \in DOMAIN rows : i = Len(log) + j
        /\ Len(log) \in Nat /\ Len(rows) \in Nat /\ DOMAIN rows = 1..Len(rows)
        /\ Len(log') = Len(log) + Len(rows) /\ DOMAIN log' = 1..Len(log')
    BY <1>1, Grow
  <2>2. Len(log) + 1 \in DOMAIN log'
    BY <1>2, <2>1
  <2> QED BY <1>2, <2>1, <2>2
<1>4. Voided' = Voided \cup {task[s].target}
  <2>1. {j \in DOMAIN log' : log'[j].kind = "void"} =
            {j \in DOMAIN log : log[j].kind = "void"} \cup {Len(log) + 1}
    BY <1>2, <1>3
  <2>2. log'[Len(log) + 1].id = task[s].target
    BY <1>2, <1>3
  <2> QED BY <1>t, <1>3, <2>1, <2>2, VoidedIs, VoidedIsNext
<1>5. \A i \in EventSeqs : log'[i] = log[i]
  BY <1>3 DEF EventSeqs
<1> QED BY <1>t, <1>1, <1>4, <1>5, FactsAre, FactsAreNext

(* A correction takes its target out and puts its row in.                  *)
LEMMA FactsAfterCorrection ==
  ASSUME SurvivalInv, TypeOK', NEW s \in Sessions, InsertCorrection(s), log' # log,
         RowsById(task[s].target) # {}
  PROVE  /\ EventSeqs' = EventSeqs \cup {Len(log) + 2} /\ \A i \in EventSeqs : log'[i] = log[i]
         /\ Len(log) + 2 \notin EventSeqs /\ log'[Len(log) + 2] = task[s].row
         /\ Facts' = {i \in Facts : log[i].id # task[s].target} \cup {Len(log) + 2}
<1>t. log \in Seq(Entries) /\ log' \in Seq(Entries) /\ TypeOK /\ ActualsSurvive
  BY DEF SurvivalInv, TypeOK
<1> DEFINE rows == <<[kind |-> "void", id |-> task[s].target], task[s].row>>
<1>1. /\ Appends(rows) /\ EventSeqs' = EventSeqs \cup {Len(log) + 2}
      /\ RowsById(task[s].row.id) = {} /\ task[s].row \in Events
      /\ log'[Len(log) + 1] = [kind |-> "void", id |-> task[s].target]
      /\ log'[Len(log) + 2] = task[s].row
  BY <1>t, CorrectionAppends
<1>2. Len(rows) = 2
  OBVIOUS
<1> HIDE DEF rows
<1>3. /\ \A i \in DOMAIN log : i \in DOMAIN log' /\ log'[i] = log[i]
      /\ \A i \in DOMAIN log' : i \in DOMAIN log \/ i = Len(log) + 1 \/ i = Len(log) + 2
      /\ Len(log) + 1 \in DOMAIN log' /\ Len(log) + 2 \in DOMAIN log' /\ Len(log) + 2 \notin DOMAIN log
  <2>1. /\ \A i \in DOMAIN log : i \in DOMAIN log' /\ log'[i] = log[i]
        /\ Len(log) \in Nat /\ DOMAIN log = 1..Len(log)
        /\ Len(log') = Len(log) + 2 /\ DOMAIN log' = 1..Len(log')
    BY <1>t, <1>1, <1>2, Grow
  <2> QED BY <2>1
<1>4. task[s].row.kind = "event"
  BY <1>1 DEF Events
<1>5. Voided' = Voided \cup {task[s].target}
  <2>1. {j \in DOMAIN log' : log'[j].kind = "void"} =
            {j \in DOMAIN log : log[j].kind = "void"} \cup {Len(log) + 1}
    BY <1>1, <1>3, <1>4
  <2>2. log'[Len(log) + 1].id = task[s].target
    BY <1>1
  <2> QED BY <1>t, <1>3, <2>1, <2>2, VoidedIs, VoidedIsNext
<1>6. \A i \in EventSeqs : log'[i] = log[i]
  BY <1>3 DEF EventSeqs
<1>7. task[s].row.id \notin Voided'
  BY <1>t, <1>1, <1>5, VoidedIs DEF ActualsSurvive
<1>8. Facts' = {i \in Facts : log[i].id # task[s].target} \cup {Len(log) + 2}
  BY <1>t, <1>1, <1>5, <1>6, <1>7, FactsAre, FactsAreNext
<1> QED BY <1>1, <1>3, <1>6, <1>8 DEF EventSeqs

-----------------------------------------------------------------------------
(* Each kind of write, seen from the book of facts.                        *)
LEMMA InsertRefines ==
  ASSUME FactInv, TypeOK', NEW rows \in Seq(Events), ~Collides(rows), log' = log \o rows,
         \A j \in DOMAIN rows : HasName(rows[j])
  PROVE  /\ Rooted' /\ OneLive'
         /\ \E news \in SUBSET Names : Promise!Record(news)
<1> DEFINE added == {Len(log) + j : j \in DOMAIN rows}
<1>t. SurvivalInv /\ Rooted /\ OneLive /\ TypeOK
  BY DEF FactInv, SurvivalInv
<1>1. /\ EventSeqs' = EventSeqs \cup added /\ Facts' = Facts \cup added
      /\ \A j \in DOMAIN rows : RowsById(rows[j].id) = {}
      /\ \A i, j \in DOMAIN rows : rows[i].id = rows[j].id => i = j
      /\ Appends(rows)
  BY <1>t, FactsAfterInsert
<1>2. /\ \A j \in DOMAIN rows : log'[Len(log) + j] = rows[j]
      /\ \A i \in EventSeqs : log'[i] = log[i]
  BY <1>t, <1>1, Grow DEF EventSeqs
<1>3. \A i \in Facts : i \in EventSeqs
  BY DEF Facts, FactsUpTo, LiveUpTo
<1>4. \A j \in DOMAIN rows : \E n \in Names : rows[j].id = <<n>>
  BY DEF HasName
<1>5. ASSUME NEW j \in DOMAIN rows, NEW i \in EventSeqs PROVE log[i].id[1] # rows[j].id[1]
  <2>1. PICK n \in Names : rows[j].id = <<n>>
    BY <1>4
  <2>2. PICK r \in EventSeqs : log[r].id = <<log[i].id[1]>>
    BY <1>t DEF Rooted
  <2>3. log[r].id # rows[j].id
    BY <1>1 DEF RowsById
  <2> QED BY <2>1, <2>2, <2>3
<1>6. Rooted'
  <2>1. ASSUME NEW i \in EventSeqs
        PROVE  /\ log'[i].id # <<>> /\ log'[i].id[1] \in Names
               /\ \E r \in EventSeqs' : log'[r].id = <<log'[i].id[1]>>
    BY <1>t, <1>1, <1>2 DEF Rooted
  <2>2. ASSUME NEW j \in DOMAIN rows
        PROVE  /\ log'[Len(log) + j].id # <<>> /\ log'[Len(log) + j].id[1] \in Names
               /\ \E r \in EventSeqs' : log'[r].id = <<log'[Len(log) + j].id[1]>>
    <3>1. PICK n \in Names : rows[j].id = <<n>>
      BY <1>4
    <3>2. log'[Len(log) + j].id = <<n>> /\ Len(log) + j \in EventSeqs'
      BY <1>1, <1>2, <3>1
    <3> QED BY <3>2
  <2>3. \A i \in EventSeqs' : i \in EventSeqs \/ \E j \in DOMAIN rows : i = Len(log) + j
    BY <1>1
  <2> QED BY <2>1, <2>2, <2>3 DEF Rooted
<1>7. OneLive'
  <2>1. ASSUME NEW i \in Facts', NEW j \in Facts', log'[i].id[1] = log'[j].id[1] PROVE i = j
    <3>1. /\ i \in Facts \/ \E k \in DOMAIN rows : i = Len(log) + k
          /\ j \in Facts \/ \E k \in DOMAIN rows : j = Len(log) + k
      BY <1>1
    <3>2. CASE i \in Facts /\ j \in Facts
      <4>1. log'[i] = log[i] /\ log'[j] = log[j]
        BY <1>2, <1>3, <3>2
      <4> QED BY <1>t, <2>1, <3>2, <4>1 DEF OneLive
    <3>3. ASSUME NEW k \in DOMAIN rows, NEW m \in EventSeqs
          PROVE  log'[m].id[1] # log'[Len(log) + k].id[1]
      BY <1>2, <1>5
    <3>4. ASSUME NEW k \in DOMAIN rows, NEW m \in DOMAIN rows,
                 log'[Len(log) + k].id[1] = log'[Len(log) + m].id[1]
          PROVE  k = m
      <4>1. rows[k].id[1] = rows[m].id[1]
        BY <1>2, <3>4
      <4>2. PICK n \in Names : rows[k].id = <<n>>
        BY <1>4
      <4>3. PICK o \in Names : rows[m].id = <<o>>
        BY <1>4
      <4>4. rows[k].id = rows[m].id
        BY <4>1, <4>2, <4>3
      <4> QED BY <1>1, <4>4
    <3> QED BY <1>3, <2>1, <3>1, <3>2, <3>3, <3>4
  <2> QED BY <2>1 DEF OneLive
<1> DEFINE news == {n \in Names : \E j \in DOMAIN rows : rows[j].id = <<n>>}
           at(n) == CHOOSE j \in DOMAIN rows : rows[j].id = <<n>>
           facts == [n \in news |-> [status |-> rows[at(n)].status, amount |-> rows[at(n)].amount]]
<1>8. \A n \in news : at(n) \in DOMAIN rows /\ rows[at(n)].id = <<n>>
  OBVIOUS
<1>9. facts \in [news -> Promise!Records]
  <2>1. \A j \in DOMAIN rows : rows[j] \in Events
    OBVIOUS
  <2>2. \A j \in DOMAIN rows : rows[j].status \in Statuses /\ rows[j].amount \in Amounts
    BY <2>1 DEF Events
  <2> QED BY <1>8, <2>2 DEF Promise!Records
<1>10. \A n \in news : FactOf(n) = [status |-> "absent"]
  BY <1>1, <1>8, ViewAbsent
<1>11. \A n \in news : FactOf(n)' = facts[n]
  <2> SUFFICES ASSUME NEW n \in news PROVE FactOf(n)' = facts[n]
    OBVIOUS
  <2> DEFINE k == Len(log) + at(n)
  <2>1. k \in Facts' /\ log'[k] = rows[at(n)] /\ log'[k].id = <<n>>
    BY <1>1, <1>2, <1>8
  <2>2. log'[k].id[1] = n
    BY <2>1
  <2> HIDE DEF k
  <2>3. FactOf(n)' = [status |-> log'[k].status, amount |-> log'[k].amount]
    <3>1. \A i \in Facts' : FactOf(log[i].id[1])' = [status |-> log'[i].status, amount |-> log'[i].amount]
      BY <1>6, <1>7, ViewLiveNext
    <3> QED BY <2>1, <2>2, <3>1
  <2> QED BY <2>1, <2>3
<1>12. \A n \in Names : n \notin news => FactOf(n)' = FactOf(n)
  <2> SUFFICES ASSUME NEW n \in Names, n \notin news PROVE FactOf(n)' = FactOf(n)
    OBVIOUS
  <2>1. \A j \in DOMAIN rows : rows[j].id # <<n>> /\ rows[j].id[1] # n
    <3>1. ASSUME NEW j \in DOMAIN rows PROVE rows[j].id # <<n>>
      OBVIOUS
    <3>2. ASSUME NEW j \in DOMAIN rows PROVE rows[j].id[1] # n
      <4>1. PICK m \in Names : rows[j].id = <<m>>
        BY <1>4
      <4> QED BY <3>1, <4>1
    <3> QED BY <3>1, <3>2
  <2>a. \A i \in added : log'[i].id # <<n>> /\ log'[i].id[1] # n
    BY <1>2, <2>1
  <2> HIDE DEF added, news, facts
  <2>2. RowsById(<<n>>)' = {} <=> RowsById(<<n>>) = {}
    <3>1. \A i : (i \in EventSeqs' /\ log'[i].id = <<n>>) <=> (i \in EventSeqs /\ log[i].id = <<n>>)
      BY ONLY <1>1, <1>2, <2>a
    <3> QED BY <3>1 DEF RowsById
  <2>3. \A i : (i \in Facts' /\ log'[i].id[1] = n) <=> (i \in Facts /\ log[i].id[1] = n)
    BY ONLY <1>1, <1>2, <1>3, <2>a
  <2>4. \A i \in Facts : i \in Facts' => log'[i] = log[i]
    BY <1>2, <1>3
  <2> QED BY ONLY <2>2, <2>3, <2>4, ViewSame
<1>13. Promise!Record(news)
  <2>1. news \subseteq Names
    OBVIOUS
  <2> HIDE DEF facts, news
  <2>2. \A n \in news : [m \in Names |-> FactOf(m)][n] = [status |-> "absent"]
    BY <1>10, <2>1
  <2>3. [m \in Names |-> FactOf(m)]' =
            [n \in Names |-> IF n \in news THEN facts[n] ELSE [m \in Names |-> FactOf(m)][n]]
    BY <1>11, <1>12
  <2> QED BY ONLY <1>9, <2>2, <2>3 DEF Promise!Record, Promise!Absent
<1> QED BY <1>6, <1>7, <1>13

LEMMA VoidRefines ==
  ASSUME FactInv, TypeOK', NEW s \in Sessions, InsertVoid(s)
  PROVE  Rooted' /\ OneLive' /\ \E n \in Names : Promise!Retire(n)
<1> DEFINE id == task[s].target
<1>t. SurvivalInv /\ Rooted /\ OneLive /\ TypeOK /\ PendingWrites
  BY DEF FactInv, SurvivalInv
<1>1. /\ EventSeqs' = EventSeqs /\ \A i \in EventSeqs : log'[i] = log[i]
      /\ Facts' = {i \in Facts : log[i].id # id}
  BY <1>t, FactsAfterVoid
<1>2. \A i \in Facts : i \in EventSeqs
  BY DEF Facts, FactsUpTo, LiveUpTo
<1>3. Retirable(id)
  BY DEF FactInv, LinearInv, Ready, InsertVoid
<1>4. PICK k \in RowsById(id) : log[k].status # "actual"
  BY <1>t DEF PendingWrites, InsertVoid
<1>5. k \in EventSeqs /\ log[k].id = id /\ k \in Facts /\ log[k] \in Events
  <2>1. k \in EventSeqs /\ log[k].id = id
    BY <1>4 DEF RowsById
  <2>2. Facts = {i \in EventSeqs : log[i].id \notin Voided} /\ log[k] \in Events
    BY <1>t, <2>1, FactsAre, StoredTypes DEF TypeOK
  <2> QED BY <1>3, <2>1, <2>2 DEF Retirable
<1>n. PICK n \in Names : n = log[k].id[1]
  BY <1>t, <1>5 DEF Rooted
<1>6. FactOf(n) = [status |-> log[k].status, amount |-> log[k].amount]
  BY <1>t, <1>5, <1>n, ViewLive
<1>7. Rooted'
  BY <1>t, <1>1 DEF Rooted
<1>8. OneLive'
  BY <1>t, <1>1, <1>2 DEF OneLive
<1>9. FactOf(n)' = [status |-> "retired"]
  <2>1. RowsById(<<n>>)' # {}
    <3>1. PICK r \in EventSeqs : log[r].id = <<n>>
      BY <1>t, <1>5, <1>n DEF Rooted
    <3> QED BY <1>1, <3>1 DEF RowsById
  <2>2. \A i \in Facts' : log'[i].id[1] # n
    <3>1. ASSUME NEW i \in Facts', log'[i].id[1] = n PROVE FALSE
      <4>1. i \in Facts /\ log'[i] = log[i] /\ log[i].id # id
        BY <1>1, <1>2, <3>1
      <4>2. i = k
        BY <1>t, <1>5, <1>n, <3>1, <4>1 DEF OneLive
      <4> QED BY <1>5, <4>1, <4>2
    <3> QED BY <3>1
  <2> QED BY <2>1, <2>2, ViewRetiredNext
<1>10. \A m \in Names : m # n => FactOf(m)' = FactOf(m)
  <2> SUFFICES ASSUME NEW m \in Names, m # n PROVE FactOf(m)' = FactOf(m)
    OBVIOUS
  <2>1. RowsById(<<m>>)' = {} <=> RowsById(<<m>>) = {}
    BY <1>1 DEF RowsById
  <2>2. \A i : (i \in Facts' /\ log'[i].id[1] = m) <=> (i \in Facts /\ log[i].id[1] = m)
    BY <1>1, <1>2, <1>5, <1>n
  <2>3. \A i \in Facts : i \in Facts' => log'[i] = log[i]
    BY <1>1, <1>2
  <2> QED BY ONLY <2>1, <2>2, <2>3, ViewSame
<1>11. Promise!Retire(n)
  <2>1. log[k].status \in Statuses /\ log[k].amount \in Amounts
    BY <1>5 DEF Events
  <2> DEFINE book == [m \in Names |-> FactOf(m)]
  <2>2. book[n] = [status |-> log[k].status, amount |-> log[k].amount]
    BY <1>6
  <2>3. book' = [book EXCEPT ![n] = [status |-> "retired"]]
    BY <1>9, <1>10
  <2>4. book[n] \in [status : Statuses, amount : Amounts] /\ book[n].status # "actual"
    BY <1>4, <2>1, <2>2
  <2> QED BY <2>3, <2>4 DEF Promise!Retire, Promise!Records, Promise!Retired
<1> QED BY <1>7, <1>8, <1>11

LEMMA CorrectionRefines ==
  ASSUME FactInv, TypeOK', NEW s \in Sessions, InsertCorrection(s), log' # log
  PROVE  Rooted' /\ OneLive' /\ \E n \in Names, a \in Amounts : Promise!Restate(n, a)
<1> DEFINE id == task[s].target
           row == task[s].row
           new == Len(log) + 2
<1>t. SurvivalInv /\ Rooted /\ OneLive /\ TypeOK /\ PendingWrites /\ UniqueIds
  BY DEF FactInv, SurvivalInv
<1>p. task[s].op = "replace" /\ row \in Events /\ id \in EventIds
  BY <1>t, CorrectionAppends
<1>2. PICK k \in RowsById(id) : row.status = log[k].status
  BY <1>t, <1>p DEF PendingWrites
<1>1. /\ EventSeqs' = EventSeqs \cup {new} /\ \A i \in EventSeqs : log'[i] = log[i]
      /\ new \notin EventSeqs /\ log'[new] = row
      /\ Facts' = {i \in Facts : log[i].id # id} \cup {new}
  BY <1>t, <1>2, FactsAfterCorrection
<1>3. \A i \in Facts : i \in EventSeqs
  BY DEF Facts, FactsUpTo, LiveUpTo
<1>4. Retirable(id)
  BY <1>p DEF FactInv, LinearInv, Ready
<1>5. k \in EventSeqs /\ log[k].id = id /\ k \in Facts /\ log[k] \in Events
  <2>1. k \in EventSeqs /\ log[k].id = id
    BY <1>2 DEF RowsById
  <2>2. Facts = {i \in EventSeqs : log[i].id \notin Voided} /\ log[k] \in Events
    BY <1>t, <2>1, FactsAre, StoredTypes DEF TypeOK
  <2> QED BY <1>4, <2>1, <2>2 DEF Retirable
<1>n. PICK n \in Names : n = log[k].id[1] /\ log[k].id # <<>>
  BY <1>t, <1>5 DEF Rooted
<1>6. FactOf(n) = [status |-> log[k].status, amount |-> log[k].amount]
  BY <1>t, <1>5, <1>n, ViewLive
<1>7. row.id[1] = n /\ Len(row.id) > 1 /\ row.id # <<>>
  <2>1. PICK m \in Nat : row.id = Append(id, m)
    BY <1>p DEF FactInv, Named
  <2>2. id \in Seq(Names \cup Nat) /\ id # <<>> /\ id[1] = n
    BY <1>p, <1>5, <1>n DEF EventIds
  <2> HIDE DEF id, row
  <2>3. m \in Names \cup Nat
    OBVIOUS
  <2>4. Len(id) >= 1 /\ Len(id) \in Nat
    BY <2>2
  <2>5. Len(row.id) = Len(id) + 1 /\ row.id[1] = id[1]
    BY ONLY <2>1, <2>2, <2>3, <2>4, AppendProperties
  <2>6. Len(<<>>) = 0
    OBVIOUS
  <2> QED BY <2>2, <2>4, <2>5, <2>6
<1> HIDE DEF id, row, new
<1>r. PICK root \in EventSeqs : log[root].id = <<n>>
  BY <1>t, <1>5, <1>n DEF Rooted
<1>8. Rooted'
  <2>1. ASSUME NEW i \in EventSeqs
        PROVE  /\ log'[i].id # <<>> /\ log'[i].id[1] \in Names
               /\ \E r \in EventSeqs' : log'[r].id = <<log'[i].id[1]>>
    <3>1. PICK r \in EventSeqs : log[r].id = <<log[i].id[1]>>
      BY <1>t DEF Rooted
    <3>2. log'[i] = log[i] /\ log'[r] = log[r] /\ r \in EventSeqs'
      BY <1>1
    <3>3. log[i].id # <<>> /\ log[i].id[1] \in Names
      BY <1>t DEF Rooted
    <3> QED BY <3>1, <3>2, <3>3
  <2>2. /\ log'[new].id # <<>> /\ log'[new].id[1] \in Names
        /\ \E r \in EventSeqs' : log'[r].id = <<log'[new].id[1]>>
    BY <1>1, <1>7, <1>r
  <2> QED BY <1>1, <2>1, <2>2 DEF Rooted
<1>9. \A i \in Facts : log[i].id[1] = n => i = k
  BY <1>t, <1>5, <1>n DEF OneLive
<1>10. \A i \in Facts' : \/ i = new
                         \/ i \in Facts /\ log'[i] = log[i] /\ log'[i].id[1] # n
  BY <1>1, <1>3, <1>5, <1>9
<1>11. OneLive'
  <2> SUFFICES ASSUME NEW i \in Facts', NEW j \in Facts', log'[i].id[1] = log'[j].id[1]
               PROVE  i = j
    BY DEF OneLive
  <2>1. CASE i = new \/ j = new
    BY <1>1, <1>7, <1>10, <2>1
  <2>2. CASE i # new /\ j # new
    BY <1>t, <1>10, <2>2 DEF OneLive
  <2> QED BY <2>1, <2>2
<1>12. FactOf(n)' = [status |-> row.status, amount |-> row.amount]
  <2>1. new \in Facts' /\ log'[new].id[1] = n
    BY <1>1, <1>7
  <2>2. \A i \in Facts' : FactOf(log[i].id[1])' = [status |-> log'[i].status, amount |-> log'[i].amount]
    BY <1>8, <1>11, ViewLiveNext
  <2>3. FactOf(n)' = [status |-> log'[new].status, amount |-> log'[new].amount]
    BY <2>1, <2>2
  <2> QED BY <1>1, <2>3
<1>13. \A m \in Names : m # n => FactOf(m)' = FactOf(m)
  <2> SUFFICES ASSUME NEW m \in Names, m # n PROVE FactOf(m)' = FactOf(m)
    OBVIOUS
  <2>1. RowsById(<<m>>)' = {} <=> RowsById(<<m>>) = {}
    <3>1. row.id # <<m>>
      <4>1. Len(<<m>>) = 1
        OBVIOUS
      <4> QED BY <1>7, <4>1
    <3> QED BY <1>1, <3>1 DEF RowsById
  <2>2. \A i : (i \in Facts' /\ log'[i].id[1] = m) <=> (i \in Facts /\ log[i].id[1] = m)
    BY <1>1, <1>3, <1>5, <1>7, <1>n
  <2>3. \A i \in Facts : i \in Facts' => log'[i] = log[i]
    BY <1>1, <1>3
  <2> QED BY ONLY <2>1, <2>2, <2>3, ViewSame
<1>14. PICK a \in Amounts : a = row.amount
  BY <1>p DEF Events, row
<1>15. Promise!Restate(n, a)
  <2>1. log[k].status \in Statuses /\ log[k].amount \in Amounts
    BY <1>5 DEF Events
  <2>2. row.status = log[k].status
    BY <1>2 DEF row
  <2> DEFINE book == [m \in Names |-> FactOf(m)]
  <2>3. book[n] = [status |-> log[k].status, amount |-> log[k].amount]
    BY <1>6
  <2>4. book' = [book EXCEPT ![n] = [status |-> log[k].status, amount |-> a]]
    BY <1>12, <1>13, <1>14, <2>2
  <2>5. [book EXCEPT ![n].amount = a] = [book EXCEPT ![n] = [status |-> log[k].status, amount |-> a]]
    <3>1. [book[n] EXCEPT !.amount = a] = [status |-> log[k].status, amount |-> a]
      BY <2>3
    <3> HIDE DEF book
    <3> QED BY <3>1
  <2>6. book[n] \in [status : Statuses, amount : Amounts]
    BY <2>1, <2>3
  <2> QED BY <2>4, <2>5, <2>6 DEF Promise!Restate, Promise!Records
<1> QED BY <1>8, <1>11, <1>15

LEMMA QuietRefines ==
  ASSUME FactInv, log' = log
  PROVE  Rooted' /\ OneLive' /\ [n \in Names |-> FactOf(n)]' = [n \in Names |-> FactOf(n)]
<1>1. EventSeqs' = EventSeqs /\ Facts' = Facts
  BY DEF EventSeqs, Facts, FactsUpTo, LiveUpTo, VoidedUpTo
<1>2. \A n : FactOf(n)' = FactOf(n)
  BY <1>1, ViewSame DEF RowsById
<1>3. Rooted'
  BY <1>1 DEF Rooted, FactInv
<1>4. OneLive'
  BY <1>1 DEF OneLive, FactInv
<1>5. [n \in Names |-> FactOf(n)]' = [n \in Names |-> FactOf(n)]
  BY <1>2
<1> QED BY <1>3, <1>4, <1>5

(* The rows a session is about to write keep the names they came with.     *)
LEMMA NamedStep ==
  ASSUME OneSession, RowsAreNamed, FactInv, Next, NEW s \in Sessions
  PROVE  Named(task[s])'
<1>t. TypeOK /\ Named(task[s])
  BY DEF FactInv, SurvivalInv
<1>1. ASSUME NEW code, Answer(s, code) PROVE Named(task[s])'
  BY <1>t, <1>1 DEF Answer, Idle, TypeOK, Named
<1>2. ASSUME NEW t, Continue(s, t), Named(t) PROVE Named(task[s])'
  <2>1. task'[s] = t
    BY <1>t, <1>2 DEF Continue, TypeOK
  <2> QED BY <1>2, <2>1 DEF Named
<1>3. \A t : t.op \notin {"add", "scan", "replace"} => Named(t)
  BY DEF Named
<1>4. CASE \E e \in Rows : AddEvent(s, e)
  <2>1. PICK e \in Rows : AddEvent(s, e)
    BY <1>4
  <2>2. (\E code : Answer(s, code)) \/ Continue(s, [op |-> "add", row |-> e])
    BY <2>1 DEF AddEvent
  <2>3. Named([op |-> "add", row |-> e])
    BY DEF RowsAreNamed, Named, HasName
  <2> QED BY <1>1, <1>2, <2>2, <2>3
<1>5. CASE \E source \in Sources, batch \in Batches : ImportEvents(s, source, batch)
  <2>1. PICK source \in Sources, batch \in Batches : ImportEvents(s, source, batch)
    BY <1>5
  <2>2. \A i \in DOMAIN batch : batch[i] \in Rows
    BY DEF Batches
  <2>3. Named(Scanning(source, batch, <<>>, 0, 0))
    BY <2>2 DEF RowsAreNamed, HasName, Named, Scanning
  <2> QED BY <1>2, <2>1, <2>3 DEF ImportEvents
<1>6. CASE ScanRow(s)
  <2> DEFINE t == task[s]
             e == [Head(t.rest) EXCEPT !.source = t.source]
  <2>1. t.op = "scan" /\ t.rest # <<>> /\ t.rest \in Seq(Events) /\ t.staged \in Seq(Events)
    BY <1>t, <1>6, TaskTypes DEF ScanRow, TypeOK
  <2>2. Head(t.rest) = t.rest[1] /\ 1 \in DOMAIN t.rest /\ Head(t.rest) \in Events
    BY <2>1
  <2>3. HasName(e)
    <3>1. e.id = Head(t.rest).id
      BY <2>2 DEF Events
    <3> QED BY <1>t, <2>1, <2>2, <3>1 DEF Named, HasName
  <2>4. \A i \in DOMAIN Tail(t.rest) : HasName(Tail(t.rest)[i])
    BY <1>t, <2>1 DEF Named
  <2>5. \A i \in DOMAIN Append(t.staged, e) : HasName(Append(t.staged, e)[i])
    <3>1. e \in Events
      BY <1>t, <2>1, <2>2, TaskTypes DEF TypeOK, Events
    <3> HIDE DEF e
    <3>2. ASSUME NEW i \in DOMAIN Append(t.staged, e)
          PROVE  \/ i \in DOMAIN t.staged /\ Append(t.staged, e)[i] = t.staged[i]
                 \/ Append(t.staged, e)[i] = e
      BY <2>1, <3>1, AppendProperties
    <3> QED BY <1>t, <2>1, <2>3, <3>2 DEF Named
  <2>6. \A sk, co : /\ Named(Scanning(t.source, Tail(t.rest), t.staged, sk, co))
                    /\ Named(Scanning(t.source, Tail(t.rest), Append(t.staged, e), sk, co))
    <3> HIDE DEF e
    <3> QED BY <1>t, <2>1, <2>4, <2>5 DEF Named, Scanning
  <2> QED BY <1>2, <1>6, <2>6 DEF ScanRow
<1>7. CASE ImportStaged(s)
  <2>1. \A n : Logging(task[s], n).op = "tally"
    BY DEF Logging
  <2>2. \A n : Named(Logging(task[s], n))
    BY <1>3, <2>1
  <2> QED BY <1>1, <1>2, <1>7, <2>2 DEF ImportStaged
<1>8. CASE \E id \in KnownIds, blank \in BOOLEAN : VoidEvent(s, id, blank)
  <2>1. PICK id \in KnownIds, blank \in BOOLEAN : VoidEvent(s, id, blank)
    BY <1>8
  <2>2. (\E code : Answer(s, code)) \/ Continue(s, [op |-> "void", target |-> id])
    BY <2>1 DEF VoidEvent
  <2> QED BY <1>1, <1>2, <1>3, <2>2
<1>9. CASE \E id \in KnownIds, a \in Amounts, blank \in BOOLEAN : CorrectEvent(s, id, a, blank)
  <2>1. PICK id \in KnownIds, a \in Amounts, blank \in BOOLEAN : CorrectEvent(s, id, a, blank)
    BY <1>9
  <2>2. (\E code : Answer(s, code)) \/ Continue(s, [op |-> "correct", target |-> id, amount |-> a])
    BY <2>1 DEF CorrectEvent
  <2> QED BY <1>1, <1>2, <1>3, <2>2
<1>10. CASE ChooseCorrectionId(s)
  <2>1. PICK k \in RowsById(task[s].target), n \in 1..(Len(log) + 1) :
           Continue(s, [op |-> "replace", target |-> task[s].target,
                        row |-> Replacement(log[k], Append(task[s].target, n), task[s].amount)])
    BY <1>10 DEF ChooseCorrectionId
  <2> DEFINE row == Replacement(log[k], Append(task[s].target, n), task[s].amount)
  <2>2. log[k] \in Events
    BY <1>t, StoredTypes DEF RowsById, TypeOK
  <2>3. row.id = Append(task[s].target, n) /\ n \in Nat
    BY <2>2 DEF Replacement, Events
  <2> HIDE DEF row
  <2>4. Named([op |-> "replace", target |-> task[s].target, row |-> row])
    BY <2>3 DEF Named
  <2> QED BY <1>2, <2>1, <2>4 DEF row
<1>11. CASE \/ InsertEvent(s) \/ RecordImport(s) \/ InsertVoid(s) \/ InsertCorrection(s)
            \/ StampMaxSeq(s) \/ ReadEvents(s) \/ Crash(s)
  BY <1>1, <1>11 DEF InsertEvent, RecordImport, InsertVoid, InsertCorrection, StampMaxSeq, ReadEvents,
                     Crash
<1>12. CASE HashRows(s) \/ ReadVoided(s, None) \/ ReadVoided(s, stamp[s].max_rowid)
  BY <1>2, <1>3, <1>12 DEF HashRows, ReadVoided
<1> QED BY <1>4, <1>5, <1>6, <1>7, <1>8, <1>9, <1>10, <1>11, <1>12 DEF Next, OneSession

(* A step of the session is a step of the book, or nothing its readers see. *)
LEMMA StepRefines ==
  ASSUME FactInv, TypeOK', Next
  PROVE  /\ Rooted' /\ OneLive'
         /\ \/ Promise!Next
            \/ UNCHANGED [n \in Names |-> FactOf(n)]
<1>t. TypeOK
  BY DEF FactInv, SurvivalInv
<1>1. CASE log' = log
  BY <1>1, QuietRefines
<1>2. ASSUME NEW rows \in Seq(Events), ~Collides(rows), log' = log \o rows,
             \A j \in DOMAIN rows : HasName(rows[j])
      PROVE  Rooted' /\ OneLive' /\ Promise!Next
  BY <1>2, InsertRefines DEF Promise!Next
<1>3. ASSUME NEW s \in Sessions, InsertEvent(s), log' # log
      PROVE  Rooted' /\ OneLive' /\ Promise!Next
  <2> DEFINE rows == <<task[s].row>>
  <2>1. rows \in Seq(Events) /\ HasName(task[s].row)
    BY <1>t, <1>3, TaskTypes DEF TypeOK, InsertEvent, FactInv, Named
  <2>2. ~Collides(rows) /\ log' = log \o rows
    BY <1>3 DEF InsertEvent
  <2>3. \A j \in DOMAIN rows : HasName(rows[j])
    BY <2>1
  <2> HIDE DEF rows
  <2> QED BY <1>2, <2>1, <2>2, <2>3
<1>4. ASSUME NEW s \in Sessions, ImportStaged(s), log' # log
      PROVE  Rooted' /\ OneLive' /\ Promise!Next
  <2>1. task[s].staged \in Seq(Events) /\ \A j \in DOMAIN task[s].staged : HasName(task[s].staged[j])
    BY <1>t, <1>4, TaskTypes DEF TypeOK, ImportStaged, FactInv, Named
  <2>2. ~Collides(task[s].staged) /\ log' = log \o task[s].staged
    BY <1>4 DEF ImportStaged
  <2> QED BY <1>2, <2>1, <2>2
<1>5. ASSUME NEW s \in Sessions, InsertVoid(s) PROVE Rooted' /\ OneLive' /\ Promise!Next
  BY <1>5, VoidRefines DEF Promise!Next
<1>6. ASSUME NEW s \in Sessions, InsertCorrection(s), log' # log
      PROVE  Rooted' /\ OneLive' /\ Promise!Next
  BY <1>6, CorrectionRefines DEF Promise!Next
<1>7. \/ log' = log
      \/ \E s \in Sessions : InsertEvent(s) \/ ImportStaged(s) \/ InsertVoid(s) \/ InsertCorrection(s)
  BY DEF Next, NoWrite, AddEvent, ImportEvents, ScanRow, RecordImport, VoidEvent, CorrectEvent,
         ChooseCorrectionId, HashRows, StampMaxSeq, ReadVoided, ReadEvents, Crash
<1> QED BY <1>1, <1>3, <1>4, <1>5, <1>6, <1>7

(* The ledger implements the book of facts (FactBook), for one session     *)
(* whose callers name every event and hand in no corrections of their own: *)
(* however it adds, imports, voids and corrects, and wherever it is cut    *)
(* off, readers see facts recorded once, restated with their status kept,  *)
(* and retired for good, an actual never (add_event, import_events,        *)
(* void_event and correct_event in ledger.py).                             *)
THEOREM OneSessionImplementsFactBook ==
  ASSUME OneSession, RowsCorrectNothing, RowsAreNamed
  PROVE  Spec => ImplementsFactBook
<1>1. Init => FactInv
  <2> SUFFICES ASSUME Init PROVE FactInv
    OBVIOUS
  <2>1. EventSeqs = {} /\ \A s \in Sessions : task[s].op = "idle"
    BY DEF Init, Idle, EventSeqs
  <2>2. Rooted /\ OneLive
    BY <2>1 DEF Rooted, OneLive, Facts, FactsUpTo, LiveUpTo
  <2>3. \A s \in Sessions : Named(task[s])
    BY <2>1 DEF Named
  <2> QED BY <2>2, <2>3, SurvivalStart, LinearStart DEF FactInv
<1>2. Init => Promise!Init
  <2> SUFFICES ASSUME Init PROVE Promise!Init
    OBVIOUS
  <2>1. \A n : RowsById(<<n>>) = {}
    BY DEF Init, RowsById, EventSeqs
  <2>2. \A n \in Names : FactOf(n) = [status |-> "absent"]
    BY <2>1, ViewAbsent
  <2> QED BY <2>2 DEF Promise!Init, Promise!Absent
<1>3. FactInv /\ [Next]_vars =>
          FactInv' /\ [Promise!Next]_([n \in Names |-> FactOf(n)])
  <2> SUFFICES ASSUME FactInv, [Next]_vars
               PROVE  FactInv' /\ [Promise!Next]_([n \in Names |-> FactOf(n)])
    OBVIOUS
  <2>1. SurvivalInv' /\ LinearInv' /\ TypeOK'
    BY SurvivalStep, LinearInvStep DEF FactInv, SurvivalInv
  <2>2. CASE Next
    <3>1. \A s \in Sessions : Named(task[s])'
      BY <2>2, NamedStep
    <3> QED BY <2>1, <2>2, <3>1, StepRefines DEF FactInv
  <2>3. CASE UNCHANGED vars
    <3>1. \A s \in Sessions : Named(task[s])'
      BY <2>3 DEF vars, FactInv, Named
    <3>2. log' = log
      BY <2>3 DEF vars
    <3> QED BY <2>1, <3>1, <3>2, QuietRefines DEF FactInv
  <2> QED BY <2>2, <2>3
<1> QED BY <1>1, <1>2, <1>3, PTL DEF Spec, ImplementsFactBook, Promise!Spec
-----------------------------------------------------------------------------
(* The import log against the ledger, for any number of sessions.  Between *)
(* the transaction of the rows and that of the import_log row a session    *)
(* holds what it is about to claim, so the claims of the log and those     *)
(* still held, together, stay within the keyed rows of their source.       *)
ClaimsIn(rows, source) == {k \in DOMAIN rows : rows[k].source = source}
InsertsOf(rows) == [k \in DOMAIN rows |-> rows[k].inserted]
Claimed(source) == TotalOf(InsertsOf(imports), ClaimsIn(imports, source))

Plan(t, source) == IF t.op = "tally" /\ t.source = source THEN t.inserted ELSE 0
PlansOf(tasks, source) == [s \in Sessions |-> Plan(tasks[s], source)]
Planned(source) == TotalOf(PlansOf(task, source), Sessions)

Held(source) == {i \in EventSeqs : log[i].source = source /\ log[i].ext # None}

Keyed(t) ==
    t.op = "scan" => \A j \in DOMAIN t.staged : /\ t.staged[j].source = t.source
                                                /\ t.staged[j].ext # None
TallyInv ==
    /\ TypeOK
    /\ \A s \in Sessions : Keyed(task[s])
    /\ \A source \in Sources : Claimed(source) + Planned(source) <= Cardinality(Held(source))

(* The sum of the property is the total of its claims.                     *)
LEMMA ClaimsTotal ==
  ASSUME TypeOK, NEW source
  PROVE  MapThenSumSet(LAMBDA k : imports[k].inserted, ClaimsIn(imports, source)) = Claimed(source)
<1> DEFINE S == ClaimsIn(imports, source)
           f == InsertsOf(imports)
           Adding(F) == [s \in SUBSET S |-> IF s = {} THEN 0 ELSE imports[Pick(s)].inserted + F[Rest(s)]]
           G == CHOOSE F : F = Adding(F)
<1>f. IsFiniteSet(S)
  <2>1. DOMAIN imports = 1..Len(imports) /\ Len(imports) \in Nat
    BY DEF TypeOK
  <2>2. IsFiniteSet(DOMAIN imports)
    BY <2>1, FS_Interval
  <2> QED BY <2>2, FS_Subset DEF ClaimsIn
<1>1. \A s \in SUBSET S : s # {} => f[Pick(s)] = imports[Pick(s)].inserted
  BY PickIn DEF InsertsOf, ClaimsIn
<1>2. \A F : F = Adding(F) <=> AreTotals(F, f, S)
  BY <1>1 DEF AreTotals, Adds
<1>3. MapThenSumSet(LAMBDA k : imports[k].inserted, S) = G[S]
  BY DEF MapThenSumSet, MapThenFoldSet, Pick, Rest
<1>4. AreTotals(G, f, S)
  <2> HIDE DEF Adding, f, S
  <2>1. \E F : F = Adding(F)
    BY <1>2, <1>f, TotalsExist
  <2>2. G = Adding(G)
    BY <2>1
  <2> QED BY <1>2, <2>2
<1> HIDE DEF G, f, S
<1>5. G[S] = TotalOf(f, S)
  BY <1>4, <1>f, TotalUnfolds, SolutionsAgree
<1> QED BY <1>3, <1>5 DEF f, S, Claimed

LEMMA TalliesAreNumbers ==
  ASSUME TypeOK, NEW source
  PROVE  /\ IsFiniteSet(ClaimsIn(imports, source)) /\ IsFiniteSet(Held(source))
         /\ \A k \in ClaimsIn(imports, source) : InsertsOf(imports)[k] \in Nat
         /\ \A s \in Sessions : PlansOf(task, source)[s] \in Nat
         /\ Claimed(source) \in Int /\ Planned(source) \in Int
         /\ Cardinality(Held(source)) \in Nat
<1>1. /\ DOMAIN imports = 1..Len(imports) /\ Len(imports) \in Nat
      /\ DOMAIN log = 1..Len(log) /\ Len(log) \in Nat
  BY DEF TypeOK
<1>2. IsFiniteSet(DOMAIN imports) /\ IsFiniteSet(DOMAIN log)
  BY <1>1, FS_Interval
<1>3. IsFiniteSet(ClaimsIn(imports, source)) /\ IsFiniteSet(Held(source))
  <2>1. ClaimsIn(imports, source) \in SUBSET DOMAIN imports /\ Held(source) \in SUBSET DOMAIN log
    BY DEF ClaimsIn, Held, EventSeqs
  <2> QED BY <1>2, <2>1, FS_Subset
<1>4. \A k \in ClaimsIn(imports, source) : InsertsOf(imports)[k] \in Nat
  <2> DEFINE Claim == [at_seq : Nat, source : Sources, inserted : Nat, skipped : Nat,
                       conflicted : Nat]
  <2>1. imports \in Seq(Claim)
    BY DEF TypeOK
  <2>2. \A c \in Claim : c.inserted \in Nat
    OBVIOUS
  <2> HIDE DEF Claim
  <2>3. \A k \in DOMAIN imports : imports[k].inserted \in Nat
    BY <2>1, <2>2
  <2> QED BY <2>3 DEF ClaimsIn, InsertsOf
<1>5. \A s \in Sessions : PlansOf(task, source)[s] \in Nat
  BY TaskTypes DEF TypeOK, PlansOf, Plan
<1>6. Claimed(source) \in Int /\ Planned(source) \in Int
  BY <1>3, <1>4, <1>5, SessionsAreFinite, TotalIsInt DEF Claimed, Planned
<1> QED BY <1>3, <1>4, <1>5, <1>6, FS_CardinalityType

LEMMA TalliesAreNumbersNext ==
  TypeOK' => \A source \in Sources : /\ IsFiniteSet(Held(source)')
                                     /\ Planned(source)' \in Int /\ Claimed(source)' \in Int
                                     /\ Cardinality(Held(source)') \in Nat
<1>0. TypeOK => \A source \in Sources : /\ IsFiniteSet(Held(source))
                                        /\ Planned(source) \in Int /\ Claimed(source) \in Int
                                        /\ Cardinality(Held(source)) \in Nat
  BY TalliesAreNumbers
<1>1. (TypeOK => \A source \in Sources : /\ IsFiniteSet(Held(source))
                                         /\ Planned(source) \in Int /\ Claimed(source) \in Int
                                         /\ Cardinality(Held(source)) \in Nat)'
  BY <1>0, PTL
<1> QED BY <1>1

(* When one session moves, what is planned changes by what it plans.       *)
LEMMA PlannedMoves ==
  ASSUME TypeOK, TypeOK', NEW s \in Sessions, NEW t, task' = [task EXCEPT ![s] = t],
         NEW source \in Sources
  PROVE  Planned(source)' = Planned(source) - Plan(task[s], source) + Plan(t, source)
<1> DEFINE f == PlansOf(task, source)
           g == PlansOf(task', source)
<1>1. \A r \in Sessions : f[r] \in Int /\ g[r] \in Int
  <2>1. \A r \in Sessions : f[r] \in Nat
    BY TalliesAreNumbers
  <2>2. \A r \in Sessions : g[r] \in Nat
    <3>1. \A r \in Sessions : task'[r] \in Tasks
      BY DEF TypeOK
    <3>2. \A r \in Sessions : task'[r].op = "tally" => task'[r].inserted \in Nat
      BY <3>1, TaskTypes
    <3>3. \A r \in Sessions : Plan(task'[r], source) \in Nat
      BY ONLY <3>2 DEF Plan
    <3> QED BY ONLY <3>3 DEF PlansOf
  <2> HIDE DEF f, g
  <2> QED BY ONLY <2>1, <2>2
<1>2. f[s] = Plan(task[s], source) /\ g[s] = Plan(t, source)
  BY DEF PlansOf, TypeOK
<1>3. \A r \in Sessions \ {s} : g[r] = f[r]
  BY DEF PlansOf, TypeOK
<1>4. Planned(source) = TotalOf(f, Sessions) /\ Planned(source)' = TotalOf(g, Sessions)
  BY DEF Planned, PlansOf
<1> HIDE DEF f, g
<1>5. TotalOf(g, Sessions) = TotalOf(f, Sessions) - f[s] + g[s]
  BY <1>1, <1>3, SessionsAreFinite, TotalMoves
<1> QED BY <1>2, <1>4, <1>5

(* What each kind of step does to the claims and to the rows.              *)
LEMMA HeldGrows ==
  ASSUME TypeOK, TypeOK', Next, NEW source \in Sources
  PROVE  Cardinality(Held(source)) <= Cardinality(Held(source)')
<1>1. Held(source) \subseteq Held(source)'
  <2>1. CASE log' = log
    BY <2>1 DEF Held, EventSeqs
  <2>2. ASSUME NEW rows, Appends(rows) PROVE Held(source) \subseteq Held(source)'
    BY <2>2, GrowRows DEF Held
  <2> QED BY <2>1, <2>2, StepAppends
<1>2. IsFiniteSet(Held(source)')
  BY TalliesAreNumbersNext
<1> QED BY <1>1, <1>2, FS_Subset

LEMMA ImportHolds ==
  ASSUME TypeOK, NEW s \in Sessions, Keyed(task[s]), ImportStaged(s), log' # log,
         NEW source, source = task[s].source
  PROVE  Cardinality(Held(source)') = Cardinality(Held(source)) + Len(task[s].staged)
<1> DEFINE rows == task[s].staged
           n == Len(log)
           m == Len(rows)
<1>1. rows \in Seq(Events) /\ log' = log \o rows /\ task[s].op = "scan"
  BY TaskTypes DEF TypeOK, ImportStaged
<1>2. Appends(rows)
  BY <1>1 DEF Appends, Entries
<1>3. \A j \in DOMAIN rows : rows[j].kind = "event" /\ rows[j].source = source /\ rows[j].ext # None
  <2>1. \A j \in DOMAIN rows : rows[j] \in Events
    BY <1>1
  <2> QED BY <1>1, <2>1 DEF Keyed, Events
<1>4. /\ n \in Nat /\ m \in Nat /\ DOMAIN rows = 1..m /\ DOMAIN log = 1..n /\ DOMAIN log' = 1..(n + m)
      /\ \A i \in DOMAIN log : log'[i] = log[i]
      /\ \A j \in DOMAIN rows : log'[n + j] = rows[j]
  BY <1>2, Grow
<1> HIDE DEF rows, n, m
<1>5. Held(source)' = Held(source) \cup (n + 1)..(n + m)
  <2>1. ASSUME NEW i \in (n + 1)..(n + m) PROVE i \in Held(source)'
    <3>1. i - n \in DOMAIN rows /\ log'[n + (i - n)] = rows[i - n] /\ n + (i - n) = i
      BY <1>4
    <3>2. i \in DOMAIN log'
      BY <1>4
    <3> QED BY <1>3, <3>1, <3>2 DEF Held, EventSeqs
  <2>2. ASSUME NEW i \in DOMAIN log' PROVE i \in DOMAIN log \/ i \in (n + 1)..(n + m)
    BY <1>4
  <2>3. \A i \in DOMAIN log : i \in DOMAIN log' /\ log'[i] = log[i]
    BY <1>4
  <2> QED BY <2>1, <2>2, <2>3 DEF Held, EventSeqs
<1>6. Held(source) \cap (n + 1)..(n + m) = {}
  BY <1>4 DEF Held, EventSeqs
<1>7. IsFiniteSet((n + 1)..(n + m)) /\ Cardinality((n + 1)..(n + m)) = m
  <2> DEFINE a == n + 1
             b == n + m
  <2>1. a \in Int /\ b \in Int /\ m \in Nat /\ b = a + m - 1
    BY <1>4
  <2> HIDE DEF a, b
  <2>2. IsFiniteSet(a..b) /\ Cardinality(a..b) = IF a > b THEN 0 ELSE b - a + 1
    BY ONLY <2>1, FS_Interval
  <2>3. IsFiniteSet(a..b) /\ Cardinality(a..b) = m
    BY ONLY <2>1, <2>2
  <2> QED BY <2>3 DEF a, b
<1>8. IsFiniteSet(Held(source)) /\ Cardinality(Held(source)) \in Nat
  BY TalliesAreNumbers
<1>9. Cardinality(Held(source)') = Cardinality(Held(source)) + m
  <2> DEFINE new == (n + 1)..(n + m)
             old == Held(source)
  <2>1. /\ IsFiniteSet(new) /\ Cardinality(new) = m /\ old \cap new = {}
        /\ IsFiniteSet(old) /\ Cardinality(old) \in Nat /\ Held(source)' = old \cup new
    BY <1>5, <1>6, <1>7, <1>8
  <2> HIDE DEF new, old
  <2>2. Cardinality(old \cup new) = Cardinality(old) + Cardinality(new) - Cardinality(old \cap new)
    BY <2>1, FS_Union
  <2>3. Cardinality(old \cap new) = 0
    BY <2>1, FS_EmptySet
  <2>4. Cardinality(Held(source)') = Cardinality(old) + m
    BY <1>4, <2>1, <2>2, <2>3
  <2> QED BY <2>4 DEF old
<1> QED BY <1>9 DEF rows, m

LEMMA RecordClaims ==
  ASSUME TypeOK, TypeOK', NEW s \in Sessions, RecordImport(s), NEW source \in Sources
  PROVE  Claimed(source)' = Claimed(source) + Plan(task[s], source)
<1> DEFINE row == [at_seq |-> Len(log), source |-> task[s].source, inserted |-> task[s].inserted,
                   skipped |-> task[s].skipped, conflicted |-> task[s].conflicted]
           n == Len(imports)
           f == InsertsOf(imports)
           g == InsertsOf(imports')
           S == ClaimsIn(imports, source)
           T == ClaimsIn(imports', source)
<1>1. /\ task[s].source \in Sources /\ task[s].inserted \in Nat /\ task[s].skipped \in Nat
      /\ task[s].conflicted \in Nat /\ task[s].op = "tally" /\ Len(log) \in Nat
  BY TaskTypes DEF TypeOK, RecordImport
<1> DEFINE Claim == [at_seq : Nat, source : Sources, inserted : Nat, skipped : Nat, conflicted : Nat]
<1>2. row \in Claim /\ imports \in Seq(Claim) /\ imports' = Append(imports, row)
  BY <1>1 DEF RecordImport, TypeOK
<1>3. /\ n \in Nat /\ DOMAIN imports = 1..n /\ DOMAIN imports' = 1..(n + 1)
      /\ imports'[n + 1] = row /\ \A k \in 1..n : imports'[k] = imports[k]
  <2> HIDE DEF Claim, row
  <2> QED BY <1>2, AppendProperties
<1>4. row.source = task[s].source /\ row.inserted = task[s].inserted
  OBVIOUS
<1>5. /\ \A k \in S : g[k] = f[k]
      /\ g[n + 1] = task[s].inserted
      /\ T = IF task[s].source = source THEN S \cup {n + 1} ELSE S
      /\ n + 1 \notin S
  <2> HIDE DEF Claim, row, n
  <2> QED BY <1>3, <1>4 DEF InsertsOf, ClaimsIn
<1>6. IsFiniteSet(S) /\ (\A k \in S : f[k] \in Int) /\ Claimed(source) \in Int
  <2>1. IsFiniteSet(S) /\ (\A k \in S : f[k] \in Nat) /\ Claimed(source) \in Int
    BY TalliesAreNumbers
  <2> QED BY <2>1
<1>7. Claimed(source) = TotalOf(f, S) /\ Claimed(source)' = TotalOf(g, T)
  BY DEF Claimed, InsertsOf, ClaimsIn
<1> HIDE DEF f, g, S, T, n, row, Claim
<1>8. TotalOf(g, S) = TotalOf(f, S)
  BY <1>5, <1>6, TotalsAgreeing
<1>9. CASE task[s].source = source
  <2> DEFINE U == S \cup {n + 1}
  <2>1. IsFiniteSet(U) /\ n + 1 \in U /\ U \ {n + 1} = S
    BY <1>5, <1>6, FS_AddElement
  <2>2. \A k \in U : g[k] \in Int
    <3>1. g[n + 1] \in Int
      <4>1. g[n + 1] = task[s].inserted /\ task[s].inserted \in Nat
        BY <1>1, <1>5
      <4> QED BY ONLY <4>1
    <3>2. \A k \in S : g[k] \in Int
      BY ONLY <1>5, <1>6
    <3> QED BY ONLY <3>1, <3>2
  <2> HIDE DEF U
  <2>3. TotalOf(g, U) = g[n + 1] + TotalOf(g, U \ {n + 1})
    BY ONLY <2>1, <2>2, TotalTakes
  <2>4. T = U
    BY <1>5, <1>9 DEF U
  <2>5. Plan(task[s], source) = task[s].inserted
    BY <1>1, <1>9 DEF Plan
  <2>6. TotalOf(g, T) = task[s].inserted + TotalOf(g, S)
    <3>1. g[n + 1] = task[s].inserted
      BY <1>5
    <3> QED BY ONLY <2>1, <2>3, <2>4, <3>1
  <2> QED BY <1>1, <1>6, <1>7, <1>8, <2>5, <2>6
<1>10. CASE task[s].source # source
  BY <1>5, <1>6, <1>7, <1>8, <1>10 DEF Plan
<1> QED BY <1>9, <1>10

(* The steps of a session, for the tally: the two that move it, and those  *)
(* that only let go of what was planned.                                   *)
LEMMA TallySteps ==
  ASSUME TypeOK, Next, \A s \in Sessions : Keyed(task[s])
  PROVE  \E s \in Sessions : \E t :
            /\ task' = [task EXCEPT ![s] = t] /\ Keyed(t)
            /\ \/ RecordImport(s) /\ t.op # "tally"
               \/ /\ ImportStaged(s) /\ log' # log /\ imports' = imports
                  /\ t = Logging(task[s], Len(task[s].staged))
               \/ imports' = imports /\ (t.op = "tally" => t.inserted = 0)
<1> SUFFICES ASSUME NEW s \in Sessions,
           \/ \E e \in Rows : AddEvent(s, e)
           \/ InsertEvent(s)
           \/ \E source \in Sources, batch \in Batches : ImportEvents(s, source, batch)
           \/ ScanRow(s)
           \/ ImportStaged(s)
           \/ RecordImport(s)
           \/ \E id \in KnownIds, blank \in BOOLEAN : VoidEvent(s, id, blank)
           \/ InsertVoid(s)
           \/ \E id \in KnownIds, a \in Amounts, blank \in BOOLEAN : CorrectEvent(s, id, a, blank)
           \/ ChooseCorrectionId(s)
           \/ InsertCorrection(s)
           \/ HashRows(s) \/ StampMaxSeq(s)
           \/ ReadVoided(s, None) \/ ReadVoided(s, stamp[s].max_rowid) \/ ReadEvents(s)
           \/ Crash(s)
    PROVE  \E t :
            /\ task' = [task EXCEPT ![s] = t] /\ Keyed(t)
            /\ \/ RecordImport(s) /\ t.op # "tally"
               \/ /\ ImportStaged(s) /\ log' # log /\ imports' = imports
                  /\ t = Logging(task[s], Len(task[s].staged))
               \/ imports' = imports /\ (t.op = "tally" => t.inserted = 0)
  BY DEF Next
<1>i. Idle.op = "idle" /\ Keyed(Idle)
  BY DEF Idle, Keyed
<1>k. \A t : t.op # "scan" => Keyed(t)
  BY DEF Keyed
<1>1. ASSUME NEW code, Answer(s, code), imports' = imports
      PROVE  \E t : task' = [task EXCEPT ![s] = t] /\ Keyed(t) /\ imports' = imports
                    /\ (t.op = "tally" => t.inserted = 0)
  BY <1>1, <1>i DEF Answer
<1>2. ASSUME NEW u, Continue(s, u), u.op \notin {"tally", "scan"}, imports' = imports
      PROVE  \E t : task' = [task EXCEPT ![s] = t] /\ Keyed(t) /\ imports' = imports
                    /\ (t.op = "tally" => t.inserted = 0)
  BY <1>2, <1>k DEF Continue
<1>3. CASE \/ InsertEvent(s) \/ InsertVoid(s) \/ InsertCorrection(s)
           \/ StampMaxSeq(s) \/ ReadEvents(s) \/ Crash(s)
  <2>1. imports' = imports /\ \E code : Answer(s, code)
    BY <1>3 DEF InsertEvent, InsertVoid, InsertCorrection, StampMaxSeq, ReadEvents, Crash, NoWrite
  <2> QED BY <1>1, <2>1
<1>4. CASE RecordImport(s)
  BY <1>4, <1>i DEF RecordImport, Answer
<1>5. CASE ChooseCorrectionId(s) \/ HashRows(s)
           \/ ReadVoided(s, None) \/ ReadVoided(s, stamp[s].max_rowid)
  BY <1>2, <1>5 DEF ChooseCorrectionId, HashRows, ReadVoided, NoWrite
<1>6. CASE \E e \in Rows : AddEvent(s, e)
  BY <1>1, <1>2, <1>6 DEF AddEvent, NoWrite
<1>7. CASE \/ \E id \in KnownIds, blank \in BOOLEAN : VoidEvent(s, id, blank)
           \/ \E id \in KnownIds, a \in Amounts, blank \in BOOLEAN : CorrectEvent(s, id, a, blank)
  BY <1>1, <1>2, <1>7 DEF VoidEvent, CorrectEvent, NoWrite
<1>8. CASE \E source \in Sources, batch \in Batches : ImportEvents(s, source, batch)
  <2>1. PICK source \in Sources, batch \in Batches : ImportEvents(s, source, batch)
    BY <1>8
  <2> DEFINE u == Scanning(source, batch, <<>>, 0, 0)
  <2>2. u.op = "scan" /\ Keyed(u)
    BY DEF Keyed, Scanning
  <2>3. imports' = imports /\ task' = [task EXCEPT ![s] = u]
    BY <2>1 DEF ImportEvents, Continue, NoWrite
  <2> HIDE DEF u
  <2> QED BY <2>2, <2>3
<1>9. CASE ScanRow(s)
  <2> DEFINE t == task[s]
             e == [Head(t.rest) EXCEPT !.source = t.source]
  <2>1. t.op = "scan" /\ t.rest # <<>> /\ t.rest \in Seq(Events) /\ t.staged \in Seq(Events)
    BY <1>9, TaskTypes DEF ScanRow, TypeOK
  <2>2. Head(t.rest) \in Events /\ t.source \in Sources
    BY <2>1, TaskTypes DEF TypeOK
  <2>3. e \in Events /\ e.source = t.source
    BY <2>2 DEF Events
  <2>4. \A j \in DOMAIN t.staged : t.staged[j].source = t.source /\ t.staged[j].ext # None
    BY <2>1 DEF Keyed
  <2> HIDE DEF e
  <2>5. ASSUME e.ext # None, NEW j \in DOMAIN Append(t.staged, e)
        PROVE  Append(t.staged, e)[j].source = t.source /\ Append(t.staged, e)[j].ext # None
    <3>1. \/ j \in DOMAIN t.staged /\ Append(t.staged, e)[j] = t.staged[j]
          \/ Append(t.staged, e)[j] = e
      BY <2>1, <2>3, AppendProperties
    <3> QED BY <2>3, <2>4, <2>5, <3>1
  <2>6. \A st, sk, co : Scanning(t.source, Tail(t.rest), st, sk, co).op = "scan"
    BY DEF Scanning
  <2>7. \A sk, co : /\ Keyed(Scanning(t.source, Tail(t.rest), t.staged, sk, co))
                    /\ e.ext # None => Keyed(Scanning(t.source, Tail(t.rest), Append(t.staged, e), sk, co))
    BY <2>4, <2>5 DEF Keyed, Scanning
  <2>8. \E st, sk, co :
           /\ Continue(s, Scanning(t.source, Tail(t.rest), st, sk, co))
           /\ st = t.staged \/ (e.ext # None /\ st = Append(t.staged, e))
    BY <1>9 DEF ScanRow, e
  <2>9. PICK st, sk, co :
           /\ Continue(s, Scanning(t.source, Tail(t.rest), st, sk, co))
           /\ st = t.staged \/ (e.ext # None /\ st = Append(t.staged, e))
    BY <2>8
  <2> DEFINE u == Scanning(t.source, Tail(t.rest), st, sk, co)
  <2>10. Keyed(u) /\ u.op = "scan" /\ task' = [task EXCEPT ![s] = u] /\ imports' = imports
    BY <1>9, <2>6, <2>7, <2>9 DEF ScanRow, NoWrite, Continue
  <2> HIDE DEF u
  <2> QED BY <2>10
<1>10. CASE ImportStaged(s)
  <2>0. imports' = imports
    BY <1>10 DEF ImportStaged
  <2>1. \A n : Logging(task[s], n).op = "tally" /\ Logging(task[s], n).inserted = n
    BY DEF Logging
  <2>2. \/ Continue(s, Logging(task[s], 0))
        \/ Answer(s, "raised")
        \/ Continue(s, Logging(task[s], Len(task[s].staged))) /\ log' = log \o task[s].staged
    BY <1>10 DEF ImportStaged
  <2>3. CASE Continue(s, Logging(task[s], 0))
    <3> DEFINE u == Logging(task[s], 0)
    <3>1. task' = [task EXCEPT ![s] = u] /\ Keyed(u) /\ u.inserted = 0
      BY <1>k, <2>1, <2>3 DEF Continue
    <3> HIDE DEF u
    <3> QED BY <2>0, <3>1
  <2>4. CASE Answer(s, "raised")
    BY <1>1, <2>0, <2>4
  <2>5. CASE Continue(s, Logging(task[s], Len(task[s].staged))) /\ log' = log \o task[s].staged
    <3> DEFINE u == Logging(task[s], Len(task[s].staged))
    <3>1. task' = [task EXCEPT ![s] = u] /\ Keyed(u) /\ u.inserted = Len(task[s].staged)
      BY <1>k, <2>1, <2>5 DEF Continue
    <3>2. log' # log \/ Len(task[s].staged) = 0
      <4>1. task[s].staged \in Seq(Events) /\ log \in Seq(Entries)
        BY <1>10, TaskTypes DEF ImportStaged, TypeOK
      <4>2. task[s].staged \in Seq(Entries)
        BY <4>1 DEF Entries
      <4>3. Len(log') = Len(log) + Len(task[s].staged) /\ Len(log) \in Nat /\ Len(task[s].staged) \in Nat
        BY <2>5, <4>1, <4>2, ConcatProperties
      <4> QED BY <4>3
    <3> HIDE DEF u
    <3> QED BY <1>10, <2>0, <3>1, <3>2 DEF u
  <2> QED BY <2>2, <2>3, <2>4, <2>5
<1> QED BY <1>3, <1>4, <1>5, <1>6, <1>7, <1>8, <1>9, <1>10

LEMMA TallyStep ==
  ASSUME TallyInv, TypeOK', Next
  PROVE  TallyInv'
<1>t. TypeOK /\ \A s \in Sessions : Keyed(task[s])
  BY DEF TallyInv
<1>1. PICK s \in Sessions : \E t :
            /\ task' = [task EXCEPT ![s] = t] /\ Keyed(t)
            /\ \/ RecordImport(s) /\ t.op # "tally"
               \/ /\ ImportStaged(s) /\ log' # log /\ imports' = imports
                  /\ t = Logging(task[s], Len(task[s].staged))
               \/ imports' = imports /\ (t.op = "tally" => t.inserted = 0)
  BY <1>t, TallySteps
<1>2. PICK t : /\ task' = [task EXCEPT ![s] = t] /\ Keyed(t)
               /\ \/ RecordImport(s) /\ t.op # "tally"
                  \/ /\ ImportStaged(s) /\ log' # log /\ imports' = imports
                     /\ t = Logging(task[s], Len(task[s].staged))
                  \/ imports' = imports /\ (t.op = "tally" => t.inserted = 0)
  BY <1>1
<1>3. ASSUME NEW r \in Sessions PROVE Keyed(task'[r])
  BY <1>t, <1>2 DEF TypeOK
<1>4. ASSUME NEW source \in Sources
      PROVE  Claimed(source)' + Planned(source)' <= Cardinality(Held(source)')
  <2>1. /\ Claimed(source) + Planned(source) <= Cardinality(Held(source))
        /\ Claimed(source) \in Int /\ Planned(source) \in Int
        /\ Cardinality(Held(source)) \in Nat
        /\ Plan(task[s], source) \in Nat
    <3>1. PlansOf(task, source)[s] \in Nat
      BY <1>t, TalliesAreNumbers
    <3> QED BY <1>t, <3>1, TalliesAreNumbers DEF TallyInv, PlansOf
  <2>2. Claimed(source)' \in Int /\ Planned(source)' \in Int /\ Cardinality(Held(source)') \in Nat
    BY TalliesAreNumbersNext
  <2>3. Planned(source)' = Planned(source) - Plan(task[s], source) + Plan(t, source)
    BY <1>t, <1>2, PlannedMoves
  <2>4. Cardinality(Held(source)) <= Cardinality(Held(source)')
    BY <1>t, HeldGrows
  <2>5. imports' = imports => Claimed(source)' = Claimed(source)
    BY DEF Claimed, InsertsOf, ClaimsIn
  <2>6. CASE RecordImport(s) /\ t.op # "tally"
    <3>1. Claimed(source)' = Claimed(source) + Plan(task[s], source) /\ Plan(t, source) = 0
      BY <1>t, <2>6, RecordClaims DEF Plan
    <3> QED BY <2>1, <2>2, <2>3, <2>4, <3>1
  <2>7. CASE imports' = imports /\ (t.op = "tally" => t.inserted = 0)
    <3>1. Plan(t, source) = 0
      BY <2>7 DEF Plan
    <3> QED BY <2>1, <2>2, <2>3, <2>4, <2>5, <2>7, <3>1
  <2>8. CASE /\ ImportStaged(s) /\ log' # log /\ imports' = imports
             /\ t = Logging(task[s], Len(task[s].staged))
    <3>1. Plan(task[s], source) = 0
      BY <2>8 DEF ImportStaged, Plan
    <3>2. t.op = "tally" /\ t.source = task[s].source /\ t.inserted = Len(task[s].staged)
      BY <2>8 DEF Logging
    <3>3. CASE source = task[s].source
      <4>1. Cardinality(Held(source)') = Cardinality(Held(source)) + Len(task[s].staged)
        BY <1>t, <2>8, <3>3, ImportHolds
      <4>2. Plan(t, source) = Len(task[s].staged) /\ Len(task[s].staged) \in Nat
        <5>1. task[s].staged \in Seq(Events)
          BY <1>t, <2>8, TaskTypes DEF TypeOK, ImportStaged
        <5> QED BY <3>2, <3>3, <5>1 DEF Plan
      <4> QED BY <2>1, <2>2, <2>3, <2>5, <2>8, <3>1, <4>1, <4>2
    <3>4. CASE source # task[s].source
      <4>1. Plan(t, source) = 0
        BY <3>2, <3>4 DEF Plan
      <4> QED BY <2>1, <2>2, <2>3, <2>4, <2>5, <2>8, <3>1, <4>1
    <3> QED BY <3>3, <3>4
  <2> QED BY <1>2, <2>6, <2>7, <2>8
<1> QED BY <1>3, <1>4 DEF TallyInv

(* However many sessions import, and wherever each is cut off between its  *)
(* two transactions, the import log claims no more inserts of a source     *)
(* than the ledger holds keyed rows of it (import_events in ledger.py).    *)
THEOREM ImportLogIsHonest == Spec => []ImportLogNeverOverclaims
<1>1. Init => TallyInv
  <2> SUFFICES ASSUME Init PROVE TallyInv
    OBVIOUS
  <2>1. TypeOK /\ imports = <<>> /\ DOMAIN imports = {} /\ \A s \in Sessions : task[s].op = "idle"
    BY InitType DEF Init, Idle
  <2>2. \A s \in Sessions : Keyed(task[s])
    BY <2>1 DEF Keyed
  <2>3. ASSUME NEW source \in Sources PROVE Claimed(source) + Planned(source) <= Cardinality(Held(source))
    <3>1. Claimed(source) = 0
      <4>1. ClaimsIn(imports, source) = {}
        BY <2>1 DEF ClaimsIn
      <4> QED BY <4>1, TotalOfNothing DEF Claimed
    <3>2. Planned(source) = 0
      <4> DEFINE f == PlansOf(task, source)
      <4>1. \A s \in Sessions : f[s] = 0
        BY <2>1 DEF PlansOf, Plan
      <4> HIDE DEF f
      <4>2. TotalOf(f, {}) = TotalOf(f, Sessions)
        BY <4>1, SessionsAreFinite, TotalOfPart
      <4> QED BY <4>2, TotalOfNothing DEF Planned, f
    <3>3. Cardinality(Held(source)) \in Nat
      BY <2>1, TalliesAreNumbers
    <3> QED BY <3>1, <3>2, <3>3
  <2> QED BY <2>1, <2>2, <2>3 DEF TallyInv
<1>2. TallyInv /\ [Next]_vars => TallyInv'
  <2> SUFFICES ASSUME TallyInv, [Next]_vars PROVE TallyInv'
    OBVIOUS
  <2>1. TypeOK'
    BY TypeStep DEF TallyInv
  <2>2. CASE Next
    BY <2>1, <2>2, TallyStep
  <2>3. CASE UNCHANGED vars
    <3>1. \A s \in Sessions : Keyed(task'[s])
      BY <2>3 DEF vars, TallyInv
    <3>2. \A source \in Sources : /\ Claimed(source)' = Claimed(source)
                                  /\ Planned(source)' = Planned(source)
                                  /\ Held(source)' = Held(source)
      BY <2>3 DEF vars, Claimed, Planned, Held, EventSeqs, ClaimsIn, InsertsOf, PlansOf, Plan
    <3> QED BY <2>1, <3>1, <3>2 DEF TallyInv
  <2> QED BY <2>2, <2>3
<1>3. TallyInv => ImportLogNeverOverclaims
  <2> SUFFICES ASSUME TallyInv, NEW source \in Sources
               PROVE  MapThenSumSet(LAMBDA k : imports[k].inserted,
                                    {k \in DOMAIN imports : imports[k].source = source})
                          <= Cardinality({i \in EventSeqs : log[i].source = source /\ log[i].ext # None})
    BY DEF ImportLogNeverOverclaims, MapThenSumSet, MapThenFoldSet
  <2>1. TypeOK /\ Claimed(source) + Planned(source) <= Cardinality(Held(source))
    BY DEF TallyInv
  <2>2. /\ MapThenSumSet(LAMBDA k : imports[k].inserted, ClaimsIn(imports, source)) = Claimed(source)
        /\ Claimed(source) \in Int /\ Planned(source) \in Nat /\ Cardinality(Held(source)) \in Nat
    <3> DEFINE f == PlansOf(task, source)
    <3>1. \A s \in Sessions : f[s] \in Nat
      BY <2>1, TalliesAreNumbers
    <3>2. Planned(source) = TotalOf(f, Sessions)
      BY DEF Planned
    <3> HIDE DEF f
    <3>3. TotalOf(f, Sessions) \in Nat
      BY <3>1, SessionsAreFinite, TotalOfPart
    <3> QED BY <2>1, <3>2, <3>3, ClaimsTotal, TalliesAreNumbers
  <2>3. MapThenSumSet(LAMBDA k : imports[k].inserted, ClaimsIn(imports, source))
            <= Cardinality(Held(source))
    BY <2>1, <2>2
  <2> QED BY <2>3 DEF ClaimsIn, Held
<1> QED BY <1>1, <1>2, <1>3, PTL DEF Spec
=============================================================================
