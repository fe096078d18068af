--------------------------- MODULE ImportsProofs ---------------------------
(***************************************************************************)
(* Theorems about Imports, for any books, answers of the model, moves of   *)
(* the user, faults and listeners: the streams, then what a card that      *)
(* forks does to the book, and then the report: that the card does what it *)
(* says, and that its figures are sums over the lines of the book.         *)
(***************************************************************************)
EXTENDS Imports, Sums, SequenceTheorems, TLAPS

-----------------------------------------------------------------------------
(* The streams.  Nothing is emitted once the job is finished, and what a   *)
(* listener was sent and has waiting is what was emitted.                  *)
Stages == {"parsing", "parsed", "target", "planning", "planned", "section", "authored", "checks",
           "dropped", "revising"}
Final == {"done", "failed"}
Emitted == Stages \cup Final
Sent == Emitted \cup {End}

Overheard(l) == IF done THEN Append(events, End) ELSE events
EarOK(l) ==
    /\ DOMAIN ears[l] = {"at", "seen", "queue"}
    /\ ears[l].at \in {"off", "on", "ended"}
    /\ ears[l].seen \in Seq(Sent) /\ ears[l].queue \in Seq(Sent)
    /\ ears[l].at = "on" => ears[l].seen \o ears[l].queue = Overheard(l)
    /\ ears[l].at = "ended" => done /\ ears[l].seen = events

StreamInv ==
    /\ "at" \in DOMAIN run
    /\ done \in BOOLEAN
    /\ events \in Seq(Emitted)
    /\ ~done => \A n \in 1 .. Len(events) : events[n] \in Stages
    /\ done => /\ At("over") /\ events # <<>>
               /\ \A n \in 1 .. Len(events) - 1 : events[n] \in Stages
    /\ DOMAIN ears = Listeners
    /\ \A l \in Listeners : EarOK(l)

LEMMA StreamStart == Init => StreamInv
<1> SUFFICES ASSUME Init PROVE StreamInv
  OBVIOUS
<1>1. /\ events = <<>> /\ done = FALSE /\ At("off") /\ "at" \in DOMAIN run
      /\ ears = [l \in Listeners |-> Deaf]
  BY DEF Init, At
<1>2. events \in Seq(Emitted) /\ Len(events) = 0
  BY <1>1
<1>3. \A l \in Listeners : EarOK(l)
  <2>1. <<>> \in Seq(Sent)
    BY EmptySeq
  <2>2. \A l \in Listeners : ears[l] = [at |-> "off", seen |-> <<>>, queue |-> <<>>]
    BY <1>1 DEF Deaf
  <2>3. ASSUME NEW l \in Listeners PROVE EarOK(l)
    <3>1. ears[l].at = "off" /\ ears[l].seen = <<>> /\ ears[l].queue = <<>>
      BY <2>2
    <3>2. DOMAIN ears[l] = {"at", "seen", "queue"}
      BY <2>2
    <3> QED
      BY <2>1, <3>1, <3>2 DEF EarOK
  <2> QED
    BY <2>3
<1>4. DOMAIN ears = Listeners /\ done \in BOOLEAN
  BY <1>1
<1>5. \A n \in 1 .. Len(events) : events[n] \in Stages
  BY <1>2
<1> QED
  BY <1>1, <1>2, <1>3, <1>4, <1>5 DEF StreamInv

LEMMA BatchesAssociate == \A s, t, u \in Seq(Sent) : (s \o t) \o u = s \o (t \o u)
BY ConcatAssociative

(* A batch that is emitted reaches the record and every queue alike.       *)
LEMMA EmitKeeps ==
  ASSUME StreamInv, ~done, NEW batch \in Seq(Stages), Emit(batch), done' = done,
         "at" \in DOMAIN run'
  PROVE  StreamInv'
<1>1. events' = events \o batch /\ ears' = [l \in Listeners |-> Heard(batch, l)]
  BY DEF Emit
<1>2. batch \in Seq(Emitted) /\ batch \in Seq(Sent) /\ events \in Seq(Emitted) /\ events \in Seq(Sent)
  BY SeqMonotonic DEF StreamInv, Emitted, Sent
<1>3. events' \in Seq(Emitted) /\ \A n \in 1 .. Len(events') : events'[n] \in Stages
  BY <1>1, <1>2, ConcatProperties, ElementOfSeq, LenProperties DEF StreamInv
<1>4. ASSUME NEW l \in Listeners PROVE EarOK(l)'
  <2>1. EarOK(l)
    BY DEF StreamInv
  <2>2. CASE ears[l].at = "on"
    <3>1. ears'[l] = [ears[l] EXCEPT !.queue = @ \o batch]
      BY <1>1, <2>2 DEF Heard
    <3>2. ears'[l].queue = ears[l].queue \o batch /\ ears'[l].seen = ears[l].seen /\ ears'[l].at = "on"
      BY <2>1, <2>2, <3>1 DEF EarOK
    <3>3. ears'[l].queue \in Seq(Sent)
      BY <1>2, <2>1, <3>2, ConcatProperties DEF EarOK
    <3>4. ears'[l].seen \o ears'[l].queue = events'
      <4>1. ears[l].seen \o ears[l].queue = events
        BY <2>1, <2>2 DEF EarOK, Overheard
      <4>2. ears[l].seen \in Seq(Sent) /\ ears[l].queue \in Seq(Sent)
        BY <2>1 DEF EarOK
      <4>3. (ears[l].seen \o ears[l].queue) \o batch = ears[l].seen \o (ears[l].queue \o batch)
        BY <1>2, <4>2, BatchesAssociate
      <4> QED
        BY <1>1, <3>2, <4>1, <4>3
    <3> QED
      BY <2>1, <3>1, <3>2, <3>3, <3>4 DEF EarOK, Overheard
  <2>3. CASE ears[l].at # "on"
    BY <1>1, <2>1, <2>3 DEF Heard, EarOK
  <2> QED
    BY <2>2, <2>3
<1> QED
  BY <1>1, <1>3, <1>4 DEF StreamInv

(* The job finishes: its last event, and the end to whoever listens.       *)
LEMMA FinishKeeps ==
  ASSUME StreamInv, ~done, NEW last \in Final, FinishJob(<<last>>), At("over")', "at" \in DOMAIN run'
  PROVE  StreamInv'
<1>1. /\ events' = events \o <<last>> /\ done' = TRUE
      /\ ears' = [l \in Listeners |-> Heard(<<last>> \o <<End>>, l)]
  BY DEF FinishJob
<1>2. /\ <<last>> \in Seq(Emitted) /\ Len(<<last>>) = 1 /\ <<End>> \in Seq(Sent)
      /\ events \in Seq(Emitted) /\ events \in Seq(Sent) /\ <<last>> \in Seq(Sent)
  BY SeqMonotonic DEF StreamInv, Emitted, Sent
<1>3. /\ events' \in Seq(Emitted) /\ Len(events') = Len(events) + 1 /\ events' \in Seq(Sent)
      /\ \A n \in 1 .. Len(events) : events'[n] = events[n]
  BY <1>1, <1>2, ConcatProperties, SeqMonotonic DEF Sent
<1>4. events' # <<>> /\ \A n \in 1 .. Len(events') - 1 : events'[n] \in Stages
  BY <1>2, <1>3, LenProperties DEF StreamInv
<1>5. Append(events', End) = (events \o <<last>>) \o <<End>>
  BY <1>1, <1>3, AppendIsConcat DEF Sent
<1>6. ASSUME NEW l \in Listeners PROVE EarOK(l)'
  <2>1. EarOK(l)
    BY DEF StreamInv
  <2>2. CASE ears[l].at = "on"
    <3> DEFINE batch == <<last>> \o <<End>>
    <3>0. batch \in Seq(Sent)
      BY <1>2, ConcatProperties
    <3>a. (events \o <<last>>) \o <<End>> = events \o batch
      BY <1>2, BatchesAssociate
    <3>b. ears' = [k \in Listeners |-> Heard(batch, k)]
      BY <1>1
    <3> HIDE DEF batch
    <3>1. ears'[l] = [ears[l] EXCEPT !.queue = @ \o batch]
      BY <3>b, <2>2 DEF Heard
    <3>2. ears'[l].queue = ears[l].queue \o batch /\ ears'[l].seen = ears[l].seen /\ ears'[l].at = "on"
      BY <2>1, <2>2, <3>1 DEF EarOK
    <3>3. ears'[l].queue \in Seq(Sent)
      BY <3>0, <2>1, <3>2, ConcatProperties DEF EarOK
    <3>4. ears'[l].seen \o ears'[l].queue = Append(events', End)
      <4>1. ears[l].seen \o ears[l].queue = events
        BY <2>1, <2>2 DEF EarOK, Overheard
      <4>2. ears[l].seen \in Seq(Sent) /\ ears[l].queue \in Seq(Sent)
        BY <2>1 DEF EarOK
      <4>3. (ears[l].seen \o ears[l].queue) \o batch = ears[l].seen \o (ears[l].queue \o batch)
        BY <3>0, <4>2, BatchesAssociate
      <4> QED
        BY <1>5, <3>a, <3>2, <4>1, <4>3
    <3> QED
      BY <1>1, <2>1, <3>1, <3>2, <3>3, <3>4 DEF EarOK, Overheard
  <2>3. CASE ears[l].at # "on"
    BY <1>1, <2>1, <2>3 DEF Heard, EarOK
  <2> QED
    BY <2>2, <2>3
<1>7. DOMAIN ears' = Listeners
  BY <1>1
<1> QED
  BY <1>1, <1>3, <1>4, <1>6, <1>7 DEF StreamInv

(* One listener moves, nothing is emitted.                                 *)
LEMMA ListenerMoves ==
  ASSUME StreamInv, NEW l \in Listeners, NEW ear, ears' = [ears EXCEPT ![l] = ear],
         UNCHANGED <<run, events, done>>,
         DOMAIN ear = {"at", "seen", "queue"}, ear.at \in {"off", "on", "ended"},
         ear.seen \in Seq(Sent), ear.queue \in Seq(Sent),
         ear.at = "on" => ear.seen \o ear.queue = Overheard(l),
         ear.at = "ended" => done /\ ear.seen = events
  PROVE  StreamInv'
<1>1. ASSUME NEW k \in Listeners PROVE EarOK(k)'
  <2>1. ears'[k] = IF k = l THEN ear ELSE ears[k]
    BY DEF StreamInv
  <2> QED
    BY <2>1 DEF StreamInv, EarOK, Overheard
<1>2. DOMAIN ears' = Listeners
  BY DEF StreamInv
<1> QED
  BY <1>1, <1>2 DEF StreamInv, At

LEMMA ListenKeeps == ASSUME StreamInv, NEW l \in Listeners, Listen(l) PROVE StreamInv'
<1>1. /\ ears' = [ears EXCEPT ![l] = [at |-> "on", seen |-> <<>>, queue |-> Overheard(l)]]
      /\ UNCHANGED <<run, events, done>>
  BY DEF Listen, Overheard
<1>2. Overheard(l) \in Seq(Sent) /\ <<>> \in Seq(Sent)
  <2>1. events \in Seq(Sent) /\ End \in Sent
    BY SeqMonotonic DEF StreamInv, Sent
  <2> QED
    BY <2>1, AppendProperties, EmptySeq DEF Overheard
<1>3. <<>> \o Overheard(l) = Overheard(l)
  BY <1>2, ConcatEmptySeq
<1> DEFINE ear == [at |-> "on", seen |-> <<>>, queue |-> Overheard(l)]
<1>4. /\ DOMAIN ear = {"at", "seen", "queue"} /\ ear.at = "on"
      /\ ear.seen = <<>> /\ ear.queue = Overheard(l)
  OBVIOUS
<1>5. ears' = [ears EXCEPT ![l] = ear]
  BY <1>1
<1> HIDE DEF ear
<1> QED
  BY <1>1, <1>2, <1>3, <1>4, <1>5, ListenerMoves

LEMMA HangUpKeeps == ASSUME StreamInv, NEW l \in Listeners, HangUp(l) PROVE StreamInv'
<1>1. ears' = [ears EXCEPT ![l] = Deaf] /\ UNCHANGED <<run, events, done>>
  BY DEF HangUp
<1>2. /\ DOMAIN Deaf = {"at", "seen", "queue"} /\ Deaf.at = "off"
      /\ Deaf.seen = <<>> /\ Deaf.queue = <<>>
  BY DEF Deaf
<1>3. <<>> \in Seq(Sent)
  BY EmptySeq
<1> QED
  BY <1>1, <1>2, <1>3, ListenerMoves

LEMMA EndIsLast ==
  \A seen \in Seq(Sent), queue \in Seq(Sent), all \in Seq(Emitted) :
      queue # <<>> /\ queue[1] = End =>
          seen \o queue # all /\ (seen \o queue = Append(all, End) => seen = all)
<1> SUFFICES ASSUME NEW seen \in Seq(Sent), NEW queue \in Seq(Sent), NEW all \in Seq(Emitted),
                    queue # <<>>, queue[1] = End
             PROVE  seen \o queue # all /\ (seen \o queue = Append(all, End) => seen = all)
  OBVIOUS
<1>1. End \notin Emitted /\ End \in Sent /\ all \in Seq(Sent)
  BY SeqMonotonic DEF Emitted, Stages, Final, Sent, End
<1>2. Len(queue) \in Nat /\ Len(queue) >= 1 /\ Len(seen) \in Nat /\ Len(all) \in Nat
  BY LenProperties, EmptySeq
<1>3. /\ Len(seen \o queue) = Len(seen) + Len(queue)
      /\ \A n \in 1 .. Len(seen) : (seen \o queue)[n] = seen[n]
      /\ (seen \o queue)[Len(seen) + 1] = End
  <2>1. \A i \in 1 .. Len(seen) + Len(queue) : (seen \o queue)[i] =
                     IF i <= Len(seen) THEN seen[i] ELSE queue[i - Len(seen)]
    BY ConcatProperties
  <2>2. Len(seen) + 1 \in 1 .. Len(seen) + Len(queue) /\ Len(seen) + 1 - Len(seen) = 1
    BY <1>2
  <2> QED
    BY <1>2, <2>1, <2>2, ConcatProperties
<1>4. \A n \in 1 .. Len(all) : all[n] # End
  BY <1>1, ElementOfSeq
<1>5. seen \o queue # all
  <2>1. Len(seen) + 1 \in 1 .. Len(seen) + Len(queue)
    BY <1>2
  <2> QED
    BY <1>3, <1>4, <2>1
<1>6. ASSUME seen \o queue = Append(all, End) PROVE seen = all
  <2>1. /\ Len(Append(all, End)) = Len(all) + 1
        /\ \A n \in 1 .. Len(all) : Append(all, End)[n] = all[n]
    BY <1>1, AppendProperties
  <2>2. Len(seen) + 1 \notin 1 .. Len(all)
    BY <1>3, <1>4, <1>6, <2>1
  <2>3. Len(seen) = Len(all)
    BY <1>2, <1>3, <1>6, <2>1, <2>2
  <2>4. \A n \in 1 .. Len(seen) : seen[n] = all[n]
    BY <1>3, <1>6, <2>1, <2>3
  <2> QED
    BY <1>1, <2>3, <2>4, SeqEqual
<1> QED
  BY <1>5, <1>6

(* The next event of a queue, which is the end only if all was delivered.  *)
LEMMA DeliverKeeps == ASSUME StreamInv, NEW l \in Listeners, Deliver(l) PROVE StreamInv'
<1> DEFINE event == Head(ears[l].queue)
           seen == ears[l].seen
           queue == ears[l].queue
<1>1. ears[l].at = "on" /\ queue # <<>> /\ UNCHANGED <<run, events, done>>
  BY DEF Deliver
<1>a. ears' = [ears EXCEPT ![l] = Delivered(ears[l])]
  BY DEF Deliver
<1>2. EarOK(l)
  BY DEF StreamInv
<1>3. seen \in Seq(Sent) /\ queue \in Seq(Sent) /\ seen \o queue = Overheard(l)
  BY <1>1, <1>2 DEF EarOK
<1>4. /\ event \in Sent /\ Tail(queue) \in Seq(Sent) /\ queue = <<event>> \o Tail(queue)
      /\ event = queue[1] /\ Len(queue) \in Nat \ {0}
  BY <1>1, <1>3, HeadTailProperties, EmptySeq
<1>5. events \in Seq(Emitted) /\ End \notin Emitted /\ events \in Seq(Sent) /\ End \in Sent
  BY SeqMonotonic DEF StreamInv, Emitted, Stages, Final, Sent, End
<1>6. CASE event = End
  <2>1. done /\ seen = events
    <3>1. seen \o queue = IF done THEN Append(events, End) ELSE events
      BY <1>3 DEF Overheard
    <3>2. seen \o queue # events /\ (seen \o queue = Append(events, End) => seen = events)
      <4>1. queue[1] = End
        BY <1>4, <1>6
      <4> HIDE DEF seen, queue, event
      <4> QED
        BY <1>1, <1>3, <1>5, <4>1, EndIsLast
    <3> QED
      BY <3>1, <3>2 DEF StreamInv
  <2> DEFINE ear == Delivered(ears[l])
  <2>2. /\ DOMAIN ear = {"at", "seen", "queue"} /\ ear.at = "ended"
        /\ ear.seen = seen /\ ear.queue = <<>>
    BY <1>2, <1>6 DEF EarOK, Delivered
  <2>3. ears' = [ears EXCEPT ![l] = ear] /\ <<>> \in Seq(Sent)
    BY <1>a, <1>6, EmptySeq
  <2> HIDE DEF ear
  <2> QED
    BY <1>1, <1>3, <2>1, <2>2, <2>3, ListenerMoves
<1>7. CASE event # End
  <2> DEFINE ear == Delivered(ears[l])
  <2>1. /\ DOMAIN ear = {"at", "seen", "queue"} /\ ear.at = "on"
        /\ ear.seen = Append(seen, event) /\ ear.queue = Tail(queue)
    BY <1>1, <1>2, <1>7 DEF EarOK, Delivered
  <2>2. ears' = [ears EXCEPT ![l] = ear]
    BY <1>a
  <2> HIDE DEF ear
  <2>3. ear.seen \in Seq(Sent) /\ ear.queue \in Seq(Sent)
    BY <1>3, <1>4, <2>1, AppendProperties
  <2>4. ear.seen \o ear.queue = Overheard(l)
    <3>1. Append(seen, event) = seen \o <<event>>
      BY <1>3, <1>4, AppendIsConcat
    <3>2. (seen \o <<event>>) \o Tail(queue) = seen \o (<<event>> \o Tail(queue))
      <4>1. <<event>> \in Seq(Sent)
        BY <1>4
      <4> QED
        BY <1>3, <1>4, <4>1, BatchesAssociate
    <3> QED
      BY <1>3, <1>4, <2>1, <3>1, <3>2
  <2> QED
    BY <1>1, <2>1, <2>2, <2>3, <2>4, ListenerMoves
<1> QED
  BY <1>6, <1>7

(* Whatever the task does, it is a task.                                   *)
LEMMA TaskStays == ASSUME [Next]_vars PROVE DOMAIN run' = DOMAIN run
<1>1. CASE Post
  BY <1>1 DEF Post
<1>2. CASE Open \/ ReadBook \/ StopAsking \/ Fails
  BY <1>2 DEF Open, ReadBook, StopAsking, Fails
<1>3. CASE PlanSections \/ Author
  BY <1>3 DEF PlanSections, Author
<1>4. CASE Reconcile
  BY <1>4 DEF Reconcile, AfterSection
<1>5. CASE Revise
  <2>1. \A r : DOMAIN AfterSection(r) = DOMAIN r
    BY DEF AfterSection
  <2>2. PICK named, list :
           /\ DOMAIN named = DOMAIN run
           /\ \/ run' = [named EXCEPT !.at = "reconciling", !.round = @ + 1, !.sections = list]
              \/ run' = AfterSection([named EXCEPT !.sections = list])
    <3>1. PICK answer \in Answers, calls \in 1 .. MaxCalls :
             LET taken == Accept(run, run.existing, run.target, answer)
                 named == [run EXCEPT !.renames = taken.renames, !.authored = taken.authored,
                                      !.calls = calls, !.ok = <<>>]
             IN  \/ run' = [named EXCEPT !.at = "reconciling", !.round = @ + 1,
                                         !.sections[run.k] = taken.accepted]
                 \/ run' = AfterSection([named EXCEPT
                                    !.sections = DropRefused(run.prelude, @, run.k, run.ok)])
      BY <1>5 DEF Revise
    <3> DEFINE taken == Accept(run, run.existing, run.target, answer)
               named == [run EXCEPT !.renames = taken.renames, !.authored = taken.authored,
                                    !.calls = calls, !.ok = <<>>]
    <3>2. DOMAIN named = DOMAIN run
      OBVIOUS
    <3>3. \/ run' = [named EXCEPT !.at = "reconciling", !.round = @ + 1,
                                  !.sections = [named.sections EXCEPT ![run.k] = taken.accepted]]
          \/ run' = AfterSection([named EXCEPT
                        !.sections = DropRefused(run.prelude, named.sections, run.k, run.ok)])
      BY <3>1
    <3> HIDE DEF named
    <3> QED
      BY <3>2, <3>3
  <2> QED
    BY <2>1, <2>2
<1>6. CASE Finish \/ Propose \/ Answer \/ WriteRow \/ CloseJournal \/ Shutdown
  BY <1>6 DEF Finish, Propose, Answer, WriteRow, CloseJournal, Shutdown
<1>7. CASE RefreshCard \/ AcceptCard \/ \E move \in Moves : Move(move.op, move.place)
  BY <1>7 DEF RefreshCard, AcceptCard, Move
<1>8. CASE \E l \in Listeners : Listen(l) \/ Deliver(l) \/ HangUp(l)
  BY <1>8 DEF Listen, Deliver, HangUp
<1>9. CASE UNCHANGED vars
  BY <1>9 DEF vars
<1> QED
  BY <1>1, <1>2, <1>3, <1>4, <1>5, <1>6, <1>7, <1>8, <1>9 DEF Next, Work

LEMMA QuietKeeps ==
  ASSUME StreamInv, UNCHANGED <<events, done, ears>>, "at" \in DOMAIN run', done => At("over")'
  PROVE  StreamInv'
<1>1. \A l \in Listeners : EarOK(l)'
  BY DEF StreamInv, EarOK, Overheard
<1> QED
  BY <1>1 DEF StreamInv

LEMMA BatchesAreStages ==
  /\ <<"parsing", "parsed">> \in Seq(Stages) /\ <<"target", "planning">> \in Seq(Stages)
  /\ <<"planned", "section">> \in Seq(Stages) /\ <<"authored">> \in Seq(Stages)
  /\ <<"checks">> \in Seq(Stages) /\ <<"section">> \in Seq(Stages) /\ <<"dropped">> \in Seq(Stages)
  /\ <<"revising">> \in Seq(Stages) /\ <<>> \in Seq(Stages)
BY EmptySeq DEF Stages

LEMMA StreamStep == ASSUME StreamInv, [Next]_vars PROVE StreamInv'
<1>0. "at" \in DOMAIN run' /\ (done => At("over")) /\ done \in BOOLEAN
  BY TaskStays DEF StreamInv
<1>1. CASE Post \/ StopAsking \/ Fails \/ Finish \/ Propose \/ Answer \/ WriteRow \/ Shutdown
  BY <1>0, <1>1, QuietKeeps
  DEF Post, StopAsking, Fails, Finish, Propose, Answer, WriteRow, Shutdown, At, Asking, Working
<1>2. CASE Open
  BY <1>0, <1>2, QuietKeeps, EmitKeeps, BatchesAreStages DEF Open, At
<1>3. CASE ReadBook \/ PlanSections \/ Author
  BY <1>0, <1>3, EmitKeeps, BatchesAreStages DEF ReadBook, PlanSections, Author, At
<1>4. CASE Reconcile
  <2>1. done' = done /\ ~done
    BY <1>0, <1>4 DEF Reconcile, At
  <2>2. SectionOpens(run) \in Seq(Stages)
    BY BatchesAreStages DEF SectionOpens
  <2>3. \A more \in {<<>>, <<"dropped">>} :
            (<<"checks">> \o more) \o SectionOpens(run) \in Seq(Stages)
    BY <2>2, BatchesAreStages, ConcatProperties
  <2>4. /\ <<"checks">> \o SectionOpens(run) \in Seq(Stages)
        /\ <<"checks">> \o <<"revising">> \in Seq(Stages)
    BY <2>2, BatchesAreStages, ConcatProperties
  <2>5. \E batch \in Seq(Stages) : Emit(batch)
    BY <1>4, <2>3, <2>4 DEF Reconcile
  <2> QED
    BY <1>0, <2>1, <2>5, EmitKeeps
<1>5. CASE Revise
  <2>1. done' = done /\ ~done
    BY <1>0, <1>5 DEF Revise, At
  <2>2. SectionOpens(run) \in Seq(Stages)
    BY BatchesAreStages DEF SectionOpens
  <2>3. \A more \in {<<>>, <<"dropped">>} : more \o SectionOpens(run) \in Seq(Stages)
    BY <2>2, BatchesAreStages, ConcatProperties
  <2>4. (UNCHANGED <<events, ears>>) \/ \E batch \in Seq(Stages) : Emit(batch)
    BY <1>5, <2>3 DEF Revise
  <2> QED
    BY <1>0, <2>1, <2>4, EmitKeeps, QuietKeeps
<1>6. CASE CloseJournal
  <2>1. ~done /\ At("closing")
    BY <1>0, <1>6 DEF CloseJournal, At
  <2>2. CASE run' = [run EXCEPT !.at = "over"] /\ FinishJob(<<Terminal(run.status)>>)
    BY <1>0, <2>1, <2>2, FinishKeeps DEF Terminal, Final, At, StreamInv
  <2>3. CASE UNCHANGED <<events, ears, done>>
    BY <1>0, <2>1, <2>3, QuietKeeps
  <2> QED
    BY <1>6, <2>2, <2>3 DEF CloseJournal
<1>7. CASE RefreshCard \/ AcceptCard \/ \E move \in Moves : Move(move.op, move.place)
  BY <1>0, <1>7, QuietKeeps DEF RefreshCard, AcceptCard, Move, At
<1>8. CASE \E l \in Listeners : Listen(l) \/ Deliver(l) \/ HangUp(l)
  BY <1>8, ListenKeeps, DeliverKeeps, HangUpKeeps
<1>9. CASE UNCHANGED vars
  BY <1>0, <1>9, QuietKeeps DEF vars, At
<1> QED
  BY <1>1, <1>2, <1>3, <1>4, <1>5, <1>6, <1>7, <1>8, <1>9 DEF Next, Work

(* "A listener that arrives late, or reconnects, sees the whole run"       *)
(* (imports/jobs.py): the record first and then what is emitted, with      *)
(* nothing between the two, and one last event at the end.                 *)
THEOREM LateListenersSeeEverything == Spec => []StreamsSeeEverything
<1>1. StreamInv => StreamsSeeEverything
  <2> SUFFICES ASSUME StreamInv PROVE StreamsSeeEverything
    OBVIOUS
  <2>1. DOMAIN events = 1 .. Len(events) /\ Len(events) \in Nat
    BY LenProperties DEF StreamInv
  <2>2. \A n \in DOMAIN events : events[n] \in {"done", "failed"} => n = Len(events) /\ done
    BY <2>1 DEF StreamInv, Stages
  <2> QED
    BY <2>2 DEF StreamInv, EarOK, Overheard, StreamsSeeEverything
<1> QED
  BY <1>1, StreamStart, StreamStep, PTL DEF Spec

-----------------------------------------------------------------------------
(* A line put into a book; and a finite set with one element more.         *)
LEMMA Joined ==
  \A f, k, v : /\ DOMAIN Put(f, k, v) = {k} \cup DOMAIN f
               /\ Put(f, k, v)[k] = v
               /\ \A x \in DOMAIN f : x # k => Put(f, k, v)[x] = f[x]
BY DEF Put, Over

LEMMA OneMore ==
  ASSUME NEW S, IsFiniteSet(S), NEW x
  PROVE  IsFiniteSet({x} \cup S)
<1>1. IsFiniteSet(S \cup {x})
  BY FS_AddElement
<1>2. S \cup {x} = {x} \cup S
  OBVIOUS
<1> QED
  BY <1>1, <1>2

(* Which parts of a book an operation touches.                             *)
LEMMA ApplyTouches ==
  ASSUME NEW b, IsBook(b), NEW o, o.op \in OpKinds, NEW k, ~Refused(b, o, k)
  PROVE  LET c == ApplyOp(b, o, k) IN
         /\ IsBook(c)
         /\ o.op \in {"add_item", "set_amount"} /\ o.scenario # BaseScenario =>
              \E line : c = [b EXCEPT !.forks[o.scenario] = Put(@, o.id, line)]
         /\ o.op = "fork_scenario" => c = [b EXCEPT !.forks = Put(@, o.id, <<>>)]
<1>1. CASE o.op \in {"add_item", "set_amount"}
  <2>1. PICK line : ApplyOp(b, o, k) = WithLine(b, o.scenario, o.id, line)
    BY <1>1 DEF ApplyOp
  <2>2. CASE o.scenario = BaseScenario
    <3> DEFINE base == Put(b.base, o.id, line)
    <3>1. ApplyOp(b, o, k) = [b EXCEPT !.base = base]
      BY <2>1, <2>2 DEF WithLine
    <3>2. IsFiniteSet(DOMAIN base)
      <4>1. DOMAIN base = {o.id} \cup DOMAIN b.base
        BY Joined
      <4>2. IsFiniteSet(DOMAIN b.base)
        BY DEF IsBook
      <4> QED
        BY <4>1, <4>2, OneMore
    <3> HIDE DEF base
    <3>3. ApplyOp(b, o, k) = [opening |-> b.opening, horizon |-> b.horizon, base |-> base,
                           forks |-> b.forks, ledger |-> b.ledger]
      BY <3>1 DEF IsBook
    <3> QED
      BY <1>1, <2>2, <3>2, <3>3 DEF IsBook
  <2>3. CASE o.scenario # BaseScenario
    <3> DEFINE fork == Put(b.forks[o.scenario], o.id, line)
               forks == [b.forks EXCEPT ![o.scenario] = fork]
    <3>0. o.scenario \in DOMAIN b.forks
      BY <1>1, <2>3 DEF Refused, Scenarios
    <3>1. ApplyOp(b, o, k) = [b EXCEPT !.forks[o.scenario] = Put(@, o.id, line)]
      BY <2>1, <2>3 DEF WithLine
    <3>2. IsFiniteSet(DOMAIN fork)
      <4> DEFINE old == b.forks[o.scenario]
      <4> HIDE DEF forks, old
      <4>1. DOMAIN Put(old, o.id, line) = {o.id} \cup DOMAIN old
        BY Joined
      <4> USE DEF old
      <4>2. IsFiniteSet(DOMAIN b.forks[o.scenario])
        BY <3>0 DEF IsBook
      <4> QED
        BY <4>1, <4>2, OneMore
    <3>3. ApplyOp(b, o, k) = [opening |-> b.opening, horizon |-> b.horizon, base |-> b.base,
                           forks |-> forks, ledger |-> b.ledger]
      BY <3>1 DEF IsBook
    <3>4. DOMAIN forks = DOMAIN b.forks /\ \A s \in DOMAIN forks : IsFiniteSet(DOMAIN forks[s])
      BY <3>2 DEF IsBook
    <3> HIDE DEF forks, fork
    <3> QED
      BY <1>1, <2>3, <3>1, <3>3, <3>4 DEF IsBook
  <2> QED
    BY <2>2, <2>3
<1>2. CASE o.op = "fork_scenario"
  <2> DEFINE forks == Put(b.forks, o.id, <<>>)
  <2>1. ApplyOp(b, o, k) = [b EXCEPT !.forks = forks]
    BY <1>2 DEF ApplyOp
  <2>2. DOMAIN forks = {o.id} \cup DOMAIN b.forks /\ \A s \in DOMAIN forks : IsFiniteSet(DOMAIN forks[s])
    <3>1. IsFiniteSet(DOMAIN <<>>)
      <4>1. DOMAIN <<>> = {}
        BY Z3
      <4> QED
        BY <4>1, FS_EmptySet
    <3>2. /\ DOMAIN forks = {o.id} \cup DOMAIN b.forks /\ forks[o.id] = <<>>
          /\ \A s \in DOMAIN b.forks : s # o.id => forks[s] = b.forks[s]
      <4> DEFINE none == <<>>
                 old == b.forks
                 name == o.id
      <4>1. Put(old, name, none) = forks
        OBVIOUS
      <4> HIDE DEF none, old, forks, name
      <4>2. DOMAIN Put(old, name, none) = {name} \cup DOMAIN old
        BY Joined
      <4>3. Put(old, name, none)[name] = none
        BY Joined
      <4>4. \A s \in DOMAIN old : s # name => Put(old, name, none)[s] = old[s]
        BY Joined
      <4> QED
        BY <4>1, <4>2, <4>3, <4>4 DEF none, old, name
    <3> HIDE DEF forks
    <3>3. \A s \in DOMAIN b.forks : IsFiniteSet(DOMAIN b.forks[s])
      BY DEF IsBook
    <3> QED
      BY <3>1, <3>2, <3>3
  <2>3. IsFiniteSet(DOMAIN forks)
    BY <2>2, OneMore DEF IsBook
  <2> HIDE DEF forks
  <2>4. ApplyOp(b, o, k) = [opening |-> b.opening, horizon |-> b.horizon, base |-> b.base,
                         forks |-> forks, ledger |-> b.ledger]
    BY <2>1 DEF IsBook
  <2>5. IsBook(ApplyOp(b, o, k))
    BY <2>2, <2>3, <2>4 DEF IsBook
  <2> QED
    BY <1>2, <2>1, <2>5 DEF forks
<1>3. CASE o.op \in {"add_event", "set_opening_balance", "set_horizon"}
  <2>1. \E value : \/ ApplyOp(b, o, k) = [b EXCEPT !.ledger = value]
                   \/ ApplyOp(b, o, k) = [b EXCEPT !.opening = value]
                   \/ ApplyOp(b, o, k) = [b EXCEPT !.horizon = value]
    BY <1>3 DEF ApplyOp
  <2> QED
    BY <1>3, <2>1 DEF IsBook
<1> QED
  BY <1>1, <1>2, <1>3 DEF OpKinds

LEMMA ApplyKeepsBooks ==
  ASSUME NEW b, IsBook(b), NEW o, o.op \in OpKinds, NEW k
  PROVE  IsBook(ApplyOp(b, o, k))
<1>1. CASE Refused(b, o, k)
  BY <1>1 DEF ApplyOp
<1>2. CASE ~Refused(b, o, k)
  BY <1>2, ApplyTouches
<1> QED
  BY <1>1, <1>2

-----------------------------------------------------------------------------
(* The books along a list of operations, as Outcomes has them.             *)
IsPath(f, b, ops) == f = [n \in 0 .. Len(ops) |-> IF n = 0 THEN b ELSE ApplyOp(f[n - 1], ops[n], n)]
Path(b, ops) == CHOOSE f : IsPath(f, b, ops)

LEMMA PathIs ==
  ASSUME NEW b, NEW ops, Len(ops) \in Nat
  PROVE  IsPath(Path(b, ops), b, ops)
<1> DEFINE Upto(f, n) == f = [i \in 0 .. n |-> IF i = 0 THEN b ELSE ApplyOp(f[i - 1], ops[i], i)]
           Stuck == {n \in Nat : ~ \E f : Upto(f, n)}
<1>1. 0 \notin Stuck
  <2> DEFINE f == [i \in 0 .. 0 |-> b]
  <2>1. Upto(f, 0)
    OBVIOUS
  <2> QED
    BY <2>1
<1>2. ASSUME NEW n \in Nat, n # 0, n - 1 \notin Stuck PROVE n \notin Stuck
  <2>0. n - 1 \in Nat
    BY <1>2
  <2>1. PICK f : Upto(f, n - 1)
    BY <1>2, <2>0
  <2> DEFINE g == [i \in 0 .. n |-> IF i = n THEN ApplyOp(f[n - 1], ops[n], n) ELSE f[i]]
  <2>2. ASSUME NEW i \in 0 .. n PROVE g[i] = IF i = 0 THEN b ELSE ApplyOp(g[i - 1], ops[i], i)
    <3>1. CASE i = n
      <4>1. n - 1 \in 0 .. n /\ n - 1 # n
        BY <2>0
      <4>2. g[i] = ApplyOp(f[n - 1], ops[n], n) /\ g[n - 1] = f[n - 1]
        BY <3>1, <4>1
      <4> QED
        BY <1>2, <3>1, <4>2
    <3>2. CASE i # n
      <4>1. i \in 0 .. n - 1 /\ (i # 0 => i - 1 \in 0 .. n /\ i - 1 # n)
        BY <2>0, <3>2
      <4>2. g[i] = f[i] /\ (i # 0 => g[i - 1] = f[i - 1])
        BY <3>2, <4>1
      <4>3. f[i] = IF i = 0 THEN b ELSE ApplyOp(f[i - 1], ops[i], i)
        BY <2>1, <4>1
      <4> QED
        BY <4>2, <4>3
    <3> QED
      BY <3>1, <3>2
  <2>3. Upto(g, n)
    <3> HIDE DEF Stuck
    <3> QED
      BY <2>2
  <2> QED
    BY <2>3
<1>3. Len(ops) \notin Stuck
  <2> HIDE DEF Upto
  <2>1. SUFFICES ASSUME Stuck # {} PROVE FALSE
    OBVIOUS
  <2>2. PICK m \in Stuck : \A n \in Stuck : m <= n
    BY <2>1, LeastNatural
  <2>3. m \in Nat /\ m # 0
    BY <1>1
  <2>4. m - 1 \notin Stuck
    BY <2>2, <2>3
  <2> QED
    BY <1>2, <2>3, <2>4
<1>4. \E f : IsPath(f, b, ops)
  BY <1>3 DEF IsPath
<1> QED
  BY <1>4 DEF Path

LEMMA OutcomesArePaths ==
  \A b, ops : Outcomes(b, ops) = [book |-> Path(b, ops)[Len(ops)],
                                  ok |-> [n \in 1 .. Len(ops) |-> ~Refused(Path(b, ops)[n - 1], ops[n], n)]]
BY DEF Outcomes, Path, IsPath

LEMMA PathSteps ==
  ASSUME NEW b, NEW ops, Len(ops) \in Nat
  PROVE  /\ Path(b, ops)[0] = b
         /\ \A n \in 1 .. Len(ops) : Path(b, ops)[n] = ApplyOp(Path(b, ops)[n - 1], ops[n], n)
<1> DEFINE f == Path(b, ops)
<1>1. f = [n \in 0 .. Len(ops) |-> IF n = 0 THEN b ELSE ApplyOp(f[n - 1], ops[n], n)]
  BY PathIs DEF IsPath
<1> HIDE DEF f
<1>2. f[0] = b /\ \A n \in 1 .. Len(ops) : f[n] = ApplyOp(f[n - 1], ops[n], n)
  BY <1>1
<1> QED
  BY <1>2 DEF f

LEMMA PathsKeepBooks ==
  ASSUME NEW b, IsBook(b), NEW ops, Len(ops) \in Nat, \A n \in 1 .. Len(ops) : ops[n].op \in OpKinds
  PROVE  \A n \in 0 .. Len(ops) : IsBook(Path(b, ops)[n])
<1> DEFINE f == Path(b, ops)
           Bad == {n \in 0 .. Len(ops) : ~IsBook(f[n])}
<1>1. f[0] = b /\ \A n \in 1 .. Len(ops) : f[n] = ApplyOp(f[n - 1], ops[n], n)
  BY PathSteps
<1> HIDE DEF f
<1>2. SUFFICES ASSUME Bad # {} PROVE FALSE
  BY DEF f
<1>a. Bad \subseteq Nat
  OBVIOUS
<1>3. PICK m \in Bad : \A n \in Bad : m <= n
  <2> HIDE DEF Bad
  <2> QED
    BY <1>a, <1>2, LeastNatural
<1>4. m # 0 /\ m \in 1 .. Len(ops) /\ m - 1 \in 0 .. Len(ops)
  BY <1>1, <1>3
<1>5. IsBook(f[m - 1])
  BY <1>3, <1>4
<1>6. IsBook(f[m])
  BY <1>1, <1>4, <1>5, ApplyKeepsBooks
<1> QED
  BY <1>3, <1>6

-----------------------------------------------------------------------------
(* What an import that forks may carry: the fork, and lines of its own in  *)
(* it that have no name the book had.  Beside b, a book c such operations  *)
(* lead to differs in the one scenario.                                    *)
IsForkSafe(op, fork, existing) ==
    \/ op = ForkScenario(fork)
    \/ op.op \in ForkSafeOps /\ op.scenario = fork /\ op.id \notin existing

OnlyAdds(b, c, fork, existing) ==
    /\ c.opening = b.opening /\ c.horizon = b.horizon /\ c.base = b.base /\ c.ledger = b.ledger
    /\ DOMAIN b.forks \subseteq DOMAIN c.forks
    /\ \A s \in DOMAIN b.forks : s # fork => c.forks[s] = b.forks[s]
    /\ fork \notin DOMAIN b.forks /\ fork \in DOMAIN c.forks => DOMAIN c.forks[fork] \cap existing = {}

LEMMA ForkSafeOpsAddOnly ==
  ASSUME NEW b, NEW c, IsBook(c), NEW fork, fork # BaseScenario, NEW existing, OnlyAdds(b, c, fork, existing),
         NEW op, IsForkSafe(op, fork, existing), NEW k, ~Refused(c, op, k)
  PROVE  op.op \in OpKinds /\ OnlyAdds(b, ApplyOp(c, op, k), fork, existing)
<1> DEFINE d == ApplyOp(c, op, k)
<1>1. CASE op = ForkScenario(fork)
  <2>1. op.op = "fork_scenario" /\ op.id = fork /\ op.op \in OpKinds
    BY <1>1 DEF ForkScenario, Op, OpKinds
  <2>2. d = [c EXCEPT !.forks = Put(c.forks, fork, <<>>)]
    BY <2>1 DEF ApplyOp
  <2>3. fork \notin DOMAIN c.forks
    BY <2>1 DEF Refused, Scenarios
  <2> DEFINE forks == Put(c.forks, fork, <<>>)
  <2>4. /\ DOMAIN forks = {fork} \cup DOMAIN c.forks /\ forks[fork] = <<>>
        /\ \A s \in DOMAIN c.forks : s # fork => forks[s] = c.forks[s]
    <3> DEFINE none == <<>>
               old == c.forks
    <3>1. forks = Put(old, fork, none)
      OBVIOUS
    <3> HIDE DEF none, old, forks
    <3>2. DOMAIN Put(old, fork, none) = {fork} \cup DOMAIN old
      BY Joined
    <3>3. Put(old, fork, none)[fork] = none
      BY Joined
    <3>4. \A s \in DOMAIN old : s # fork => Put(old, fork, none)[s] = old[s]
      BY Joined
    <3> QED
      BY <3>1, <3>2, <3>3, <3>4 DEF none, old
  <2>5. DOMAIN <<>> = {}
    BY Z3
  <2>6. /\ d.opening = c.opening /\ d.horizon = c.horizon /\ d.base = c.base /\ d.ledger = c.ledger
        /\ d.forks = forks
    <3> HIDE DEF forks
    <3> QED
      BY <2>2 DEF IsBook, forks
  <2> HIDE DEF forks, d
  <2> QED
    BY <2>1, <2>3, <2>4, <2>5, <2>6 DEF OnlyAdds, d
<1>2. CASE op.op \in ForkSafeOps /\ op.scenario = fork /\ op.id \notin existing
  <2>1. op.op \in {"add_item", "set_amount"} /\ op.op \in OpKinds
    BY <1>2 DEF ForkSafeOps, OpKinds
  <2>2. fork \in DOMAIN c.forks
    BY <1>2, <2>1 DEF Refused, Scenarios
  <2>3. PICK line : d = [c EXCEPT !.forks[fork] = Put(c.forks[fork], op.id, line)]
    BY <1>2, <2>1 DEF ApplyOp, WithLine
  <2> DEFINE new == Put(c.forks[fork], op.id, line)
             forks == [c.forks EXCEPT ![fork] = new]
  <2>4. DOMAIN new = {op.id} \cup DOMAIN c.forks[fork]
    <3> DEFINE old == c.forks[fork]
               name == op.id
    <3>1. new = Put(old, name, line)
      OBVIOUS
    <3> HIDE DEF old, name, new
    <3>2. DOMAIN Put(old, name, line) = {name} \cup DOMAIN old
      BY Joined
    <3> QED
      BY <3>1, <3>2 DEF old, name
  <2>5. d = [c EXCEPT !.forks = forks]
    BY <2>3
  <2> HIDE DEF new
  <2>6. /\ DOMAIN forks = DOMAIN c.forks /\ forks[fork] = new
        /\ \A s \in DOMAIN c.forks : s # fork => forks[s] = c.forks[s]
    BY <2>2
  <2> HIDE DEF forks
  <2>7. /\ d.opening = c.opening /\ d.horizon = c.horizon /\ d.base = c.base /\ d.ledger = c.ledger
        /\ d.forks = forks
    BY <2>5 DEF IsBook
  <2> HIDE DEF d
  <2> QED
    BY <1>2, <2>1, <2>2, <2>4, <2>6, <2>7 DEF OnlyAdds, d
<1> QED
  BY <1>1, <1>2 DEF IsForkSafe

(* Applied without a refusal, they add one scenario, which was not there,  *)
(* and lines to it.                                                        *)
LEMMA ForkPathsAddOnly ==
  ASSUME NEW b, IsBook(b), NEW fork, fork # BaseScenario, NEW existing,
         NEW ops, Len(ops) \in Nat, \A n \in 1 .. Len(ops) : IsForkSafe(ops[n], fork, existing),
         \A n \in 1 .. Len(ops) : ~Refused(Path(b, ops)[n - 1], ops[n], n)
  PROVE  /\ IsBook(Path(b, ops)[Len(ops)])
         /\ OnlyAdds(b, Path(b, ops)[Len(ops)], fork, existing)
         /\ (\E n \in 1 .. Len(ops) : ops[n] = ForkScenario(fork)) => fork \notin DOMAIN b.forks
<1> DEFINE f == Path(b, ops)
           Good(c) == IsBook(c) /\ OnlyAdds(b, c, fork, existing)
           Bad == {n \in 0 .. Len(ops) : ~Good(f[n])}
<1>1. f[0] = b /\ \A n \in 1 .. Len(ops) : f[n] = ApplyOp(f[n - 1], ops[n], n)
  BY PathSteps
<1>2. \A n \in 1 .. Len(ops) : ~Refused(f[n - 1], ops[n], n)
  OBVIOUS
<1> HIDE DEF f
<1>3. Good(b)
  BY DEF OnlyAdds
<1>4. ASSUME NEW n \in 1 .. Len(ops), Good(f[n - 1]) PROVE Good(f[n])
  <2>1. f[n] = ApplyOp(f[n - 1], ops[n], n) /\ ~Refused(f[n - 1], ops[n], n) /\ IsForkSafe(ops[n], fork, existing)
    BY <1>1, <1>2
  <2>2. ops[n].op \in OpKinds /\ OnlyAdds(b, f[n], fork, existing)
    BY <1>4, <2>1, ForkSafeOpsAddOnly
  <2> QED
    BY <1>4, <2>1, <2>2, ApplyKeepsBooks
<1> HIDE DEF Good
<1>5. Bad = {}
  <2>1. SUFFICES ASSUME Bad # {} PROVE FALSE
    OBVIOUS
  <2>2. Bad \subseteq Nat
    OBVIOUS
  <2>3. PICK m \in Bad : \A n \in Bad : m <= n
    <3> HIDE DEF Bad
    <3> QED
      BY <2>1, <2>2, LeastNatural
  <2>4. m \in 1 .. Len(ops) /\ m - 1 \in 0 .. Len(ops) /\ m - 1 \notin Bad
    BY <1>1, <1>3, <2>3
  <2> QED
    BY <1>4, <2>3, <2>4
<1>6. \A n \in 0 .. Len(ops) : Good(f[n])
  BY <1>5
<1>7. ASSUME NEW n \in 1 .. Len(ops), ops[n] = ForkScenario(fork) PROVE fork \notin DOMAIN b.forks
  <2>1. Good(f[n - 1]) /\ ~Refused(f[n - 1], ops[n], n)
    BY <1>2, <1>6
  <2>2. fork \notin DOMAIN f[n - 1].forks
    BY <1>7, <2>1 DEF Refused, Scenarios, ForkScenario, Op
  <2> QED
    BY <2>1, <2>2 DEF Good, OnlyAdds
<1> QED
  BY <1>6, <1>7 DEF Good, f

-----------------------------------------------------------------------------
(* Names: of one more than are taken, one is free.                         *)
LEMMA OneIsFree ==
  ASSUME NEW taken, IsFiniteSet(taken), NEW name, DOMAIN name = Nat,
         \A m, n \in Nat : name[m] = name[n] => m = n
  PROVE  LET free == {n \in 1 .. (Cardinality(taken) + 1) : name[n] \notin taken}
         IN  Min(free) \in Nat /\ name[Min(free)] \notin taken
<1> DEFINE K == Cardinality(taken) + 1
           free == {n \in 1 .. K : name[n] \notin taken}
<1>1. Cardinality(taken) \in Nat /\ K \in Nat
  BY FS_CardinalityType
<1>2. IsFiniteSet(1 .. K) /\ Cardinality(1 .. K) = K
  BY <1>1, FS_Interval
<1>3. free # {}
  <2>1. SUFFICES ASSUME free = {} PROVE FALSE
    OBVIOUS
  <2> DEFINE f == [n \in 1 .. K |-> name[n]]
  <2>2. f \in [1 .. K -> taken]
    BY <2>1
  <2>3. Cardinality(taken) < Cardinality(1 .. K)
    BY <1>1, <1>2
  <2> DEFINE S == 1 .. K
  <2>4. \A m \in S : f[m] = name[m] /\ m \in Nat
    BY <1>1
  <2>5. IsFiniteSet(S) /\ Cardinality(taken) < Cardinality(S) /\ f \in [S -> taken]
    BY <1>2, <2>2, <2>3
  <2> HIDE DEF f, S
  <2>6. \E m, n \in S : m # n /\ f[m] = f[n]
    BY <2>5, FS_PigeonHole
  <2> QED
    BY <2>4, <2>6
<1>4. free \subseteq Nat
  BY <1>1
<1>5. Min(free) \in free
  <2> HIDE DEF free
  <2> QED
    BY <1>3, <1>4, MinIsLeast
<1> QED
  BY <1>4, <1>5

LEMMA FreeIdIsFree ==
  ASSUME NEW existing, IsFiniteSet(existing), NEW S, NEW original \in Seq(S)
  PROVE  /\ FreeId(existing, original) \notin existing
         /\ \E n \in Nat : FreeId(existing, original) = Append(original, n)
<1> DEFINE name == [n \in Nat |-> Append(original, n)]
           free == {n \in 1 .. (Cardinality(existing) + 1) : name[n] \notin existing}
<1>1. \A m, n \in Nat : name[m] = name[n] => m = n
  <2> DEFINE W == S \cup Nat
  <2>1. original \in Seq(W) /\ Nat \subseteq W
    BY SeqMonotonic
  <2> HIDE DEF W
  <2>2. ASSUME NEW m \in Nat, NEW n \in Nat, Append(original, m) = Append(original, n) PROVE m = n
    BY <2>1, <2>2, AppendInjective
  <2> QED
    BY <2>2
<1>2. free = {n \in 1 .. (Cardinality(existing) + 1) : Append(original, n) \notin existing}
  BY FS_CardinalityType
<1>3. FreeId(existing, original) = Append(original, Min(free))
  BY <1>2 DEF FreeId
<1>4. DOMAIN name = Nat
  OBVIOUS
<1>5. Min(free) \in Nat /\ name[Min(free)] \notin existing
  <2> HIDE DEF name
  <2> QED
    BY <1>1, <1>4, OneIsFree
<1>6. name[Min(free)] = Append(original, Min(free))
  <2> HIDE DEF free
  <2> QED
    BY <1>5
<1> QED
  BY <1>3, <1>5, <1>6

LEMMA ForkNameIsFree ==
  ASSUME NEW slug, NEW taken, IsFiniteSet(taken)
  PROVE  ForkNameFor(slug, taken) \notin taken
<1> DEFINE stem == IF slug = "base" THEN "base-import" ELSE slug
           name == [n \in Nat |-> <<stem, n>>]
           free == {n \in 1 .. (Cardinality(taken) + 1) : name[n] \notin taken}
<1>2. free = {n \in 1 .. (Cardinality(taken) + 1) : <<stem, n>> \notin taken}
  BY FS_CardinalityType
<1>3. ForkNameFor(slug, taken) = <<stem, Min(free)>>
  BY <1>2 DEF ForkNameFor
<1>1. DOMAIN name = Nat /\ \A m, n \in Nat : name[m] = name[n] => m = n
  OBVIOUS
<1>5. Min(free) \in Nat /\ name[Min(free)] \notin taken
  <2> HIDE DEF name
  <2> QED
    BY <1>1, OneIsFree
<1>6. name[Min(free)] = <<stem, Min(free)>>
  <2> HIDE DEF free
  <2> QED
    BY <1>5
<1> QED
  BY <1>3, <1>5, <1>6

-----------------------------------------------------------------------------
(* FoldLeft takes the elements of a list by the largest place that is      *)
(* left: what it computes exists, and stays where each step stays.         *)
LEMMA MaxIsLargest ==
  ASSUME NEW L \in Nat, NEW s \in SUBSET (1 .. L), s # {}
  PROVE  Max(s) \in s /\ \A n \in s : n <= Max(s)
<1> DEFINE T == {L - n : n \in s}
<1>1. T \subseteq Nat /\ T # {}
  <2>1. \A n \in s : L - n \in Nat
    OBVIOUS
  <2>2. PICK n \in s : TRUE
    OBVIOUS
  <2>3. L - n \in T
    BY <2>2
  <2> QED
    BY <2>1, <2>3
<1>2. PICK k \in T : \A j \in T : k <= j
  <2> HIDE DEF T
  <2> QED
    BY <1>1, LeastNatural
<1>3. PICK m \in s : k = L - m
  BY <1>2
<1>4. \A n \in s : n <= m
  BY <1>2, <1>3
<1> QED
  BY <1>4 DEF Max

Keeps(F, L, V) == \A v \in V, n \in 1 .. L : F[<<v, n>>] \in V
Folds(G, F, L, V, base) ==
    /\ G = [s \in SUBSET (1 .. L) |-> IF s = {} THEN base ELSE F[<<G[s \ {Max(s)}], Max(s)>>]]
    /\ \A s \in SUBSET (1 .. L) : G[s] \in V

LEMMA FoldsExist ==
  ASSUME NEW L \in Nat, NEW V, NEW base \in V, NEW F, Keeps(F, L, V)
  PROVE  \E G : Folds(G, F, L, V, base)
<1> USE DEF Keeps
<1> DEFINE Step(G, s) == IF s = {} THEN base ELSE F[<<G[s \ {Max(s)}], Max(s)>>]
           Upto(G, n) == /\ G = [s \in SUBSET (1 .. n) |-> Step(G, s)]
                         /\ \A s \in SUBSET (1 .. n) : G[s] \in V
           Stuck == {n \in 0 .. L : ~ \E G : Upto(G, n)}
<1>1. 0 \notin Stuck
  <2> DEFINE G == [s \in SUBSET (1 .. 0) |-> base]
  <2>1. \A s \in SUBSET (1 .. 0) : s = {}
    OBVIOUS
  <2>2. Upto(G, 0)
    BY <2>1
  <2> QED
    BY <2>2
<1>2. ASSUME NEW n \in 1 .. L, n - 1 \notin Stuck PROVE n \notin Stuck
  <2>1. PICK G : Upto(G, n - 1)
    <3> HIDE DEF Upto
    <3>1. n - 1 \in 0 .. L
      OBVIOUS
    <3> QED
      BY <1>2, <3>1
  <2> DEFINE H == [s \in SUBSET (1 .. n) |-> IF n \in s THEN F[<<G[s \ {n}], n>>] ELSE G[s]]
  <2>0. \A s \in SUBSET (1 .. n - 1) : G[s] = Step(G, s) /\ G[s] \in V
    BY <2>1
  <2>2. ASSUME NEW s \in SUBSET (1 .. n) PROVE H[s] = Step(H, s) /\ H[s] \in V
    <3>0. s # {} => Max(s) \in s /\ \A k \in s : k <= Max(s)
      <4>1. n \in Nat
        OBVIOUS
      <4> QED
        BY <4>1, MaxIsLargest
    <3>1. CASE n \in s
      <4>1. Max(s) = n
        <5> HIDE DEF H, Step, Stuck
        <5>1. Max(s) \in s /\ n <= Max(s)
          BY <3>1, <3>0
        <5>2. Max(s) \in 1 .. n
          BY <5>1
        <5> HIDE DEF Max
        <5> QED
          BY <5>1, <5>2
      <4>2. s \ {n} \in SUBSET (1 .. n - 1) /\ s \ {n} \in SUBSET (1 .. n) /\ n \notin s \ {n}
        <5> HIDE DEF H, Step, Stuck
        <5>1. ASSUME NEW k \in s \ {n} PROVE k \in 1 .. n - 1
          <6>1. k \in 1 .. n /\ k # n /\ n \in Int
            OBVIOUS
          <6> QED
            BY <6>1
        <5> QED
          BY <5>1
      <4>3. H[s] = F[<<G[s \ {n}], n>>] /\ H[s \ {n}] = G[s \ {n}]
        BY <3>1, <4>2
      <4>4. G[s \ {n}] \in V
        BY <2>0, <4>2
      <4> HIDE DEF H
      <4> QED
        BY <3>1, <4>1, <4>3, <4>4
    <3>2. CASE n \notin s
      <4>1. s \in SUBSET (1 .. n - 1) /\ H[s] = G[s]
        BY <3>2
      <4>2. s # {} => s \ {Max(s)} \in SUBSET (1 .. n) /\ n \notin s \ {Max(s)}
        BY <3>2
      <4>3. s # {} => H[s \ {Max(s)}] = G[s \ {Max(s)}]
        BY <4>2
      <4>4. G[s] = Step(G, s) /\ G[s] \in V
        BY <2>0, <4>1
      <4> HIDE DEF H
      <4> QED
        BY <4>1, <4>3, <4>4
    <3> QED
      BY <3>1, <3>2
  <2>3. H = [s \in SUBSET (1 .. n) |-> Step(H, s)] /\ \A s \in SUBSET (1 .. n) : H[s] \in V
    <3>1. H = [s \in SUBSET (1 .. n) |-> H[s]]
      OBVIOUS
    <3> HIDE DEF H, Step
    <3> QED
      BY <2>2, <3>1
  <2>4. Upto(H, n)
    BY <2>3
  <2> HIDE DEF Upto, H
  <2> QED
    BY <2>4
<1>3. Stuck = {}
  <2> HIDE DEF Upto
  <2>1. SUFFICES ASSUME Stuck # {} PROVE FALSE
    OBVIOUS
  <2>2. Stuck \subseteq Nat
    OBVIOUS
  <2>3. PICK m \in Stuck : \A n \in Stuck : m <= n
    <3> HIDE DEF Stuck
    <3> QED
      BY <2>1, <2>2, LeastNatural
  <2>4. m \in 1 .. L /\ m - 1 \notin Stuck
    BY <1>1, <2>3
  <2> QED
    BY <1>2, <2>3, <2>4
<1>4. \E G : Upto(G, L)
  <2> HIDE DEF Upto
  <2>1. L \in 0 .. L
    OBVIOUS
  <2> QED
    BY <1>3, <2>1
<1> QED
  BY <1>4 DEF Folds

-----------------------------------------------------------------------------
(* Without picks from the list it is given.                                *)
Places(ops) == [n \in DOMAIN ops |-> n]
Kept(kept, ops, places, n) == IF n \in places THEN kept ELSE Append(kept, ops[n])
IsKept(K, ops, places) ==
    K = [s \in SUBSET (DOMAIN Places(ops)) |->
            IF s = {} THEN <<>> ELSE Kept(K[s \ {Max(s)}], ops, places, Places(ops)[Max(s)])]
Picked(ops, places) == CHOOSE K : IsKept(K, ops, places)

LEMMA WithoutKeeps == \A ops, places : Without(ops, places) = Picked(ops, places)[DOMAIN Places(ops)]
BY DEF Without, FoldLeftDomain, FoldLeft, MapThenFoldSet, Picked, IsKept, Kept, Places

LEMMA KeepsIs ==
  ASSUME NEW S, NEW ops \in Seq(S), NEW places
  PROVE  IsKept(Picked(ops, places), ops, places)
<1> DEFINE L == Len(ops)
           F == [p \in Seq(S) \X (1 .. L) |-> Kept(p[1], ops, places, p[2])]
<1>1. L \in Nat /\ DOMAIN ops = 1 .. L /\ \A n \in 1 .. L : ops[n] \in S
  BY LenProperties, ElementOfSeq
<1>2. \A k \in Seq(S), n \in 1 .. L : F[<<k, n>>] = Kept(k, ops, places, n) /\ F[<<k, n>>] \in Seq(S)
  <2>1. \A k \in Seq(S), n \in 1 .. L : F[<<k, n>>] = Kept(k, ops, places, n)
    OBVIOUS
  <2>2. \A k \in Seq(S), n \in 1 .. L : Kept(k, ops, places, n) \in Seq(S)
    BY <1>1, AppendProperties DEF Kept
  <2> QED
    BY <2>1, <2>2
<1>3. <<>> \in Seq(S)
  BY EmptySeq
<1> HIDE DEF F, L
<1>4. PICK G : Folds(G, F, L, Seq(S), <<>>)
  <2>1. Keeps(F, L, Seq(S))
    BY <1>2 DEF Keeps
  <2> QED
    BY <1>1, <1>3, <2>1, FoldsExist
<1>5. DOMAIN Places(ops) = 1 .. L /\ \A n \in 1 .. L : Places(ops)[n] = n
  BY <1>1 DEF Places
<1>6. ASSUME NEW s \in SUBSET (1 .. L), s # {}
      PROVE  F[<<G[s \ {Max(s)}], Max(s)>>] = Kept(G[s \ {Max(s)}], ops, places, Places(ops)[Max(s)])
  <2>1. Max(s) \in 1 .. L /\ s \ {Max(s)} \in SUBSET (1 .. L)
    BY <1>1, <1>6, MaxIsLargest
  <2> QED
    BY <1>2, <1>4, <1>5, <2>1 DEF Folds
<1>7. IsKept(G, ops, places)
  BY <1>4, <1>5, <1>6 DEF IsKept, Folds
<1> QED
  BY <1>7 DEF Picked

LEMMA WithoutPicks ==
  ASSUME NEW S, NEW ops \in Seq(S), NEW places
  PROVE  Without(ops, places) \in Seq(S)
<1> DEFINE L == Len(ops)
           K == Picked(ops, places)
           Bad == {s \in SUBSET (1 .. L) : K[s] \notin Seq(S)}
<1>1. L \in Nat /\ DOMAIN ops = 1 .. L /\ \A n \in 1 .. L : ops[n] \in S
  BY LenProperties, ElementOfSeq
<1>2. DOMAIN Places(ops) = 1 .. L /\ \A n \in 1 .. L : Places(ops)[n] = n
  BY <1>1 DEF Places
<1>3. \A s \in SUBSET (1 .. L) :
         K[s] = IF s = {} THEN <<>> ELSE Kept(K[s \ {Max(s)}], ops, places, Places(ops)[Max(s)])
  <2>1. IsKept(K, ops, places)
    BY KeepsIs
  <2> HIDE DEF K, L
  <2> QED
    BY <1>2, <2>1 DEF IsKept
<1> HIDE DEF K, L
<1>4. IsFiniteSet(1 .. L)
  BY <1>1, FS_Interval
<1>5. Bad = {}
  <2>1. SUFFICES ASSUME Bad # {} PROVE FALSE
    OBVIOUS
  <2>2. PICK s \in Bad : \A t \in Bad : t \subseteq s => t = s
    <3> DEFINE U == 1 .. L
    <3>1. Bad \subseteq SUBSET U /\ IsFiniteSet(U)
      BY <1>4
    <3> HIDE DEF Bad, U
    <3> QED
      BY <2>1, <3>1, SmallestSubset
  <2>3. s # {}
    BY <1>3, EmptySeq
  <2>4. Max(s) \in s /\ Max(s) \in 1 .. L
    BY <1>1, <2>3, MaxIsLargest
  <2>5. K[s \ {Max(s)}] \in Seq(S)
    BY <2>2, <2>4
  <2>6. K[s] = Kept(K[s \ {Max(s)}], ops, places, Max(s))
    BY <1>2, <1>3, <2>3, <2>4
  <2>7. K[s] \in Seq(S)
    BY <1>1, <2>4, <2>5, <2>6, AppendProperties DEF Kept
  <2> QED
    BY <2>2, <2>7
<1> QED
  BY <1>2, <1>5, WithoutKeeps DEF K

(* Sections one after the other.                                           *)
IsFlat(f, seqs) == f = [i \in 1 .. Len(seqs) |-> IF i = 1 THEN seqs[i] ELSE f[i - 1] \o seqs[i]]
Flat(seqs) == CHOOSE f : IsFlat(f, seqs)

LEMMA FlattenIsFlat ==
  \A seqs : FlattenSeq(seqs) = IF Len(seqs) = 0 THEN seqs ELSE Flat(seqs)[Len(seqs)]
BY DEF FlattenSeq, Flat, IsFlat

LEMMA FlatIs ==
  ASSUME NEW seqs, Len(seqs) \in Nat
  PROVE  IsFlat(Flat(seqs), seqs)
<1> DEFINE Upto(f, n) == f = [i \in 1 .. n |-> IF i = 1 THEN seqs[i] ELSE f[i - 1] \o seqs[i]]
           Stuck == {n \in Nat : ~ \E f : Upto(f, n)}
<1>1. 0 \notin Stuck
  <2> DEFINE f == [i \in 1 .. 0 |-> <<>>]
  <2>1. Upto(f, 0)
    OBVIOUS
  <2> QED
    BY <2>1
<1>2. ASSUME NEW n \in Nat, n # 0, n - 1 \notin Stuck PROVE n \notin Stuck
  <2>0. n - 1 \in Nat
    BY <1>2
  <2>1. PICK f : Upto(f, n - 1)
    BY <1>2, <2>0
  <2> DEFINE last == IF n = 1 THEN seqs[n] ELSE f[n - 1] \o seqs[n]
             g == [i \in 1 .. n |-> IF i = n THEN last ELSE f[i]]
  <2>2. ASSUME NEW i \in 1 .. n PROVE g[i] = IF i = 1 THEN seqs[i] ELSE g[i - 1] \o seqs[i]
    <3>1. CASE i = n
      <4>1. n # 1 => n - 1 \in 1 .. n /\ n - 1 # n
        BY <2>0
      <4>2. g[i] = last /\ (n # 1 => g[n - 1] = f[n - 1])
        BY <3>1, <4>1
      <4> HIDE DEF g
      <4> QED
        BY <3>1, <4>2
    <3>2. CASE i # n
      <4>1. i \in 1 .. n - 1 /\ (i # 1 => i - 1 \in 1 .. n /\ i - 1 # n)
        BY <2>0, <3>2
      <4>2. g[i] = f[i] /\ (i # 1 => g[i - 1] = f[i - 1])
        BY <3>2, <4>1
      <4>3. f[i] = IF i = 1 THEN seqs[i] ELSE f[i - 1] \o seqs[i]
        BY <2>1, <4>1
      <4> HIDE DEF g
      <4> QED
        BY <4>2, <4>3
    <3> QED
      BY <3>1, <3>2
  <2>3. Upto(g, n)
    <3> HIDE DEF Stuck, last
    <3> QED
      BY <2>2
  <2> QED
    BY <2>3
<1>3. Len(seqs) \notin Stuck
  <2> HIDE DEF Upto
  <2>1. SUFFICES ASSUME Stuck # {} PROVE FALSE
    OBVIOUS
  <2>2. PICK m \in Stuck : \A n \in Stuck : m <= n
    BY <2>1, LeastNatural
  <2>3. m \in Nat /\ m # 0
    BY <1>1
  <2>4. m - 1 \notin Stuck
    BY <2>2, <2>3
  <2> QED
    BY <1>2, <2>3, <2>4
<1>4. \E f : IsFlat(f, seqs)
  BY <1>3 DEF IsFlat
<1> QED
  BY <1>4 DEF Flat

LEMMA FlattenJoins ==
  ASSUME NEW S, NEW seqs \in Seq(Seq(S))
  PROVE  FlattenSeq(seqs) \in Seq(S)
<1> DEFINE L == Len(seqs)
           f == Flat(seqs)
           Bad == {n \in 1 .. L : f[n] \notin Seq(S)}
<1>1. L \in Nat /\ \A n \in 1 .. L : seqs[n] \in Seq(S)
  BY LenProperties, ElementOfSeq
<1>2. \A n \in 1 .. L : f[n] = IF n = 1 THEN seqs[n] ELSE f[n - 1] \o seqs[n]
  <2>1. IsFlat(f, seqs)
    BY <1>1, FlatIs
  <2> HIDE DEF f
  <2> QED
    BY <2>1 DEF IsFlat
<1> HIDE DEF f
<1>3. Bad = {}
  <2>1. SUFFICES ASSUME Bad # {} PROVE FALSE
    OBVIOUS
  <2>2. Bad \subseteq Nat
    BY <1>1
  <2>3. PICK m \in Bad : \A n \in Bad : m <= n
    <3> HIDE DEF Bad
    <3> QED
      BY <2>1, <2>2, LeastNatural
  <2>4. m \in 1 .. L /\ m # 1
    BY <1>1, <1>2
  <2>5. m - 1 \in 1 .. L /\ f[m - 1] \in Seq(S)
    BY <1>1, <2>3, <2>4
  <2>6. f[m] = f[m - 1] \o seqs[m] /\ seqs[m] \in Seq(S)
    BY <1>1, <1>2, <2>4
  <2>7. f[m] \in Seq(S)
    BY <2>5, <2>6, ConcatProperties
  <2> QED
    BY <2>7
<1>4. CASE L = 0
  <2>1. seqs = <<>>
    BY <1>4, EmptySeq
  <2> QED
    BY <1>4, <2>1, FlattenIsFlat, EmptySeq
<1>5. CASE L # 0
  <2>1. L \in 1 .. L
    BY <1>1, <1>5
  <2> QED
    BY <1>3, <1>5, <2>1, FlattenIsFlat DEF f
<1> QED
  BY <1>4, <1>5

LEMMA OperationsAre ==
  ASSUME NEW S, NEW prelude \in Seq(S), NEW sections \in Seq(Seq(S))
  PROVE  Operations(prelude, sections) \in Seq(S)
<1> DEFINE all == prelude \o FlattenSeq(sections)
           m == Min({Len(all), MaxOperations})
<1>1. all \in Seq(S)
  BY FlattenJoins, ConcatProperties
<1>2. Len(all) \in Nat /\ \A n \in 1 .. Len(all) : all[n] \in S
  BY <1>1, LenProperties, ElementOfSeq
<1>3. m \in {Len(all), MaxOperations} /\ \A n \in {Len(all), MaxOperations} : m <= n
  <2> DEFINE T == {Len(all), MaxOperations}
  <2>1. T \subseteq Nat /\ T # {}
    BY <1>2, CeilingIsANumber
  <2> HIDE DEF T
  <2>2. Min(T) \in T /\ \A n \in T : Min(T) <= n
    BY <2>1, MinIsLeast
  <2> QED
    BY <2>2 DEF T
<1> HIDE DEF all, m
<1>4. m \in Int /\ \A n \in 1 .. m : all[n] \in S
  BY <1>2, <1>3, CeilingIsANumber
<1>5. SubSeq(all, 1, m) \in Seq(S)
  BY <1>4, SubSeqProperties
<1> QED
  BY <1>5 DEF Operations, all, m

LEMMA DryRunTries ==
  ASSUME NEW S, NEW b, NEW ops \in Seq(S)
  PROVE  DryRun(b, ops).ops \in Seq(S)
<1> DEFINE ok == Outcomes(b, ops).ok
           bad == {n \in 1 .. Len(ops) : ~ok[n]}
           m == Min(bad)
<1>1. Len(ops) \in Nat /\ \A n \in 1 .. Len(ops) : ops[n] \in S
  BY LenProperties, ElementOfSeq
<1>2. CASE bad = {}
  BY <1>2 DEF DryRun
<1>3. CASE bad # {}
  <2>1. bad \subseteq Nat
    BY <1>1
  <2>2. m \in 1 .. Len(ops)
    <3> HIDE DEF bad
    <3>1. m \in bad
      BY <1>3, <2>1, MinIsLeast
    <3> QED
      BY <3>1 DEF bad
  <2>3. DryRun(b, ops).ops = SubSeq(ops, 1, m)
    BY <1>3 DEF DryRun
  <2> HIDE DEF m
  <2>4. m \in Int /\ \A n \in 1 .. m : ops[n] \in S
    BY <1>1, <2>2
  <2> QED
    BY <2>3, <2>4, SubSeqProperties
<1> QED
  BY <1>2, <1>3

-----------------------------------------------------------------------------
(* What an import may have on its list: an intent of the model, stamped    *)
(* and named by the host, or a book-level operation of the host's own.     *)
Intents == UNION {ToSet(answer) : answer \in Answers}
Given == {op.id : op \in Intents}
Names == Given \cup {Append(id, n) : id \in Given, n \in Nat}
Stamp(op, scenario) == [op EXCEPT !.scenario = scenario]
Name(op, id) == [op EXCEPT !.id = id]
Stamped(scenario) == {Name(Stamp(op, scenario), id) : op \in Intents, id \in Names}

InFork(scenario, existing) ==
    {ForkScenario(scenario)} \cup
    {op \in Stamped(scenario) : op.op \in ForkSafeOps /\ op.id \notin existing}
InBase(scenario) ==
    {op \in Stamped(scenario) : op.op \in ImportOps} \cup
    {SetOpeningBalance(amount) : amount \in Int} \cup
    {SetHorizon(plan.horizon[1], plan.horizon[2]) : plan \in {p \in Plans : p.horizon # None}}
Offered(target, existing) ==
    IF target.createdFork THEN InFork(target.scenario, existing) ELSE InBase(target.scenario)

Own(existing) == Names \ existing
Renamings(existing) == UNION {[D -> Own(existing)] : D \in SUBSET Given}
Namings(target, existing) ==
    [renames : Renamings(existing), authored : SUBSET Own(existing),
     accepted : Seq(Offered(target, existing))]

LEMMA ListsAreSequences ==
  ASSUME NEW s, IsList(s)
  PROVE  s \in Seq(ToSet(s))
<1>1. \A n \in 1 .. Len(s) : s[n] \in ToSet(s)
  BY DEF IsList, ToSet
<1>2. s \in [1 .. Len(s) -> ToSet(s)]
  BY <1>1 DEF IsList
<1> QED
  BY <1>2, SeqDef DEF IsList

LEMMA IntentsAreOperations == \A op \in Intents : IsOperation(op) /\ op.id \in Given
BY AnswersAreOperations DEF Intents, Given

LEMMA RenamingsGrow ==
  ASSUME NEW existing, NEW renames \in Renamings(existing), NEW id \in Given, NEW name \in Own(existing)
  PROVE  Put(renames, id, name) \in Renamings(existing)
<1>1. PICK D \in SUBSET Given : renames \in [D -> Own(existing)]
  BY DEF Renamings
<1>2. Put(renames, id, name) \in [D \cup {id} -> Own(existing)]
  BY <1>1 DEF Put, Over
<1> QED
  BY <1>2 DEF Renamings

LEMMA StampedIntent ==
  \A op \in Intents, id \in Names : \A scenario :
     /\ Stamp(op, scenario).op = op.op /\ Stamp(op, scenario).id = op.id
     /\ Name(Stamp(op, scenario), id).op = op.op /\ Name(Stamp(op, scenario), id).id = id
     /\ Name(Stamp(op, scenario), id) \in Stamped(scenario)
<1> SUFFICES ASSUME NEW op \in Intents, NEW id \in Names, NEW scenario
             PROVE  /\ Stamp(op, scenario).op = op.op /\ Stamp(op, scenario).id = op.id
                    /\ Name(Stamp(op, scenario), id).op = op.op /\ Name(Stamp(op, scenario), id).id = id
                    /\ Name(Stamp(op, scenario), id) \in Stamped(scenario)
  OBVIOUS
<1>1. DOMAIN op = {"op", "id", "amount", "from", "until", "scenario"}
  BY IntentsAreOperations DEF IsOperation
<1>3. Name(Stamp(op, scenario), id) \in Stamped(scenario)
  BY DEF Stamped
<1> QED
  BY <1>1, <1>3 DEF Name, Stamp

LEMMA NameSafelyKeeps ==
  ASSUME NEW target, NEW existing, IsFiniteSet(existing), NEW v \in Namings(target, existing),
         NEW o \in Intents, o.op \in (IF target.createdFork THEN ForkSafeOps ELSE ImportOps)
  PROVE  NameSafely(v, existing, [o EXCEPT !.scenario = target.scenario]) \in Namings(target, existing)
<1> DEFINE op == Stamp(o, target.scenario)
           renamed == IF op.id \in DOMAIN v.renames THEN v.renames[op.id] ELSE FreeId(existing, op.id)
           id == IF op.op = "add_item" /\ op.id \in existing THEN renamed
                 ELSE IF op.op = "set_amount" /\ op.id \in DOMAIN v.renames THEN v.renames[op.id]
                 ELSE op.id
           named == Name(op, id)
<1>1. v.renames \in Renamings(existing) /\ v.authored \in SUBSET Own(existing)
      /\ v.accepted \in Seq(Offered(target, existing))
      /\ v = [renames |-> v.renames, authored |-> v.authored, accepted |-> v.accepted]
  BY DEF Namings
<1>2. o.id \in Given /\ o.id \in Names /\ o.id \in Seq(ToSet(o.id))
  BY IntentsAreOperations, ListsAreSequences DEF IsOperation, Names
<1>3. op.op = o.op /\ op.id = o.id
  BY <1>2, StampedIntent
<1> HIDE DEF op
<1>4. op.id \in DOMAIN v.renames => v.renames[op.id] \in Own(existing)
  BY <1>1 DEF Renamings
<1>5. FreeId(existing, op.id) \in Own(existing)
  <2>1. /\ FreeId(existing, op.id) \notin existing
        /\ \E n \in Nat : FreeId(existing, op.id) = Append(op.id, n)
    BY <1>2, <1>3, FreeIdIsFree
  <2> QED
    BY <1>2, <1>3, <2>1 DEF Own, Names
<1>6. renamed \in Own(existing)
  BY <1>4, <1>5
<1> HIDE DEF renamed
<1>7. id \in Names /\ (op.op = "add_item" => id \in Own(existing))
  BY <1>2, <1>3, <1>4, <1>6 DEF Own
<1> HIDE DEF id
<1>8. named.op = o.op /\ named.id = id /\ named \in Stamped(target.scenario)
  BY <1>7, StampedIntent DEF op
<1>9. NameSafely(v, existing, op) =
         IF op.op = "set_amount" /\ id \notin v.authored THEN v
         ELSE [renames |-> IF op.op = "add_item" /\ op.id \in existing
                           THEN Put(v.renames, op.id, renamed) ELSE v.renames,
               authored |-> IF op.op = "add_item" THEN v.authored \cup {id} ELSE v.authored,
               accepted |-> Append(v.accepted, named)]
  BY DEF NameSafely, id, renamed, Name
<1> HIDE DEF named
<1>10. CASE op.op = "set_amount" /\ id \notin v.authored
  BY <1>9, <1>10 DEF op, Stamp
<1>11. CASE ~(op.op = "set_amount" /\ id \notin v.authored)
  <2>1. named \in Offered(target, existing)
    <3>1. CASE target.createdFork
      <4>1. o.op \in {"add_item", "set_amount"} /\ o.op \in ForkSafeOps
        BY <3>1 DEF ForkSafeOps
      <4>2. id \in Own(existing)
        BY <1>1, <1>3, <1>7, <1>11, <4>1
      <4>3. named \in InFork(target.scenario, existing)
        BY <1>8, <4>1, <4>2 DEF InFork, Own
      <4> QED
        BY <3>1, <4>3 DEF Offered
    <3>2. CASE ~target.createdFork
      <4>1. named \in InBase(target.scenario)
        BY <1>8, <3>2 DEF InBase
      <4> QED
        BY <3>2, <4>1 DEF Offered
    <3> QED
      BY <3>1, <3>2
  <2>2. Append(v.accepted, named) \in Seq(Offered(target, existing))
    BY <1>1, <2>1, AppendProperties
  <2>3. (IF op.op = "add_item" /\ op.id \in existing
         THEN Put(v.renames, op.id, renamed) ELSE v.renames) \in Renamings(existing)
    BY <1>1, <1>2, <1>3, <1>6, RenamingsGrow
  <2>4. (IF op.op = "add_item" THEN v.authored \cup {id} ELSE v.authored) \in SUBSET Own(existing)
    BY <1>1, <1>7
  <2>5. NameSafely(v, existing, op) \in Namings(target, existing)
    BY <1>9, <1>11, <2>2, <2>3, <2>4 DEF Namings
  <2> QED
    BY <2>5 DEF op, Stamp
<1> QED
  BY <1>10, <1>11

(* An answer is taken intent by intent.                                    *)
Taken(naming, existing, target, op) ==
    IF Guarded(op) /\ op.op \in (IF target.createdFork THEN ForkSafeOps ELSE ImportOps)
    THEN NameSafely(naming, existing, [op EXCEPT !.scenario = target.scenario]) ELSE naming
Start(names) == [renames |-> names.renames, authored |-> names.authored, accepted |-> <<>>]
IsTaken(G, names, existing, target, intents) ==
    G = [s \in SUBSET (DOMAIN intents) |->
            IF s = {} THEN Start(names)
            ELSE Taken(G[s \ {Max(s)}], existing, target, intents[Max(s)])]
Takes(names, existing, target, intents) == CHOOSE G : IsTaken(G, names, existing, target, intents)

LEMMA AcceptTakes ==
  \A names, existing, target, intents :
     Accept(names, existing, target, intents) = Takes(names, existing, target, intents)[DOMAIN intents]
BY DEF Accept, FoldLeft, MapThenFoldSet, Takes, IsTaken, Taken, Start

LEMMA TakenKeeps ==
  ASSUME NEW target, NEW existing, IsFiniteSet(existing), NEW v \in Namings(target, existing),
         NEW op \in Intents
  PROVE  Taken(v, existing, target, op) \in Namings(target, existing)
BY NameSafelyKeeps DEF Taken

LEMMA AcceptKeeps ==
  ASSUME NEW target, NEW existing, IsFiniteSet(existing), NEW names,
         names.renames \in Renamings(existing), names.authored \in SUBSET Own(existing),
         NEW answer \in Answers
  PROVE  Accept(names, existing, target, answer) \in Namings(target, existing)
<1> DEFINE L == Len(answer)
           V == Namings(target, existing)
           F == [p \in V \X (1 .. L) |-> Taken(p[1], existing, target, answer[p[2]])]
           G == Takes(names, existing, target, answer)
           Bad == {s \in SUBSET (1 .. L) : G[s] \notin V}
<1>1. L \in Nat /\ DOMAIN answer = 1 .. L /\ \A n \in 1 .. L : answer[n] \in Intents
  <2>1. answer \in Seq(ToSet(answer)) /\ ToSet(answer) \subseteq Intents
    BY AnswersAreOperations, ListsAreSequences DEF Intents
  <2> QED
    BY <2>1, LenProperties, ElementOfSeq
<1>2. Start(names) \in V
  BY EmptySeq DEF Start, Namings
<1>3. \A v \in V, n \in 1 .. L : Taken(v, existing, target, answer[n]) \in V
  BY <1>1, TakenKeeps
<1>4. \A v \in V, n \in 1 .. L : F[<<v, n>>] = Taken(v, existing, target, answer[n])
  OBVIOUS
<1> HIDE DEF F, L, V, G
<1>5. PICK H : Folds(H, F, L, V, Start(names))
  <2>1. Keeps(F, L, V)
    BY <1>3, <1>4 DEF Keeps
  <2> QED
    BY <1>1, <1>2, <2>1, FoldsExist
<1>6. ASSUME NEW s \in SUBSET (1 .. L), s # {}
      PROVE  F[<<H[s \ {Max(s)}], Max(s)>>] = Taken(H[s \ {Max(s)}], existing, target, answer[Max(s)])
  <2>1. Max(s) \in 1 .. L /\ s \ {Max(s)} \in SUBSET (1 .. L)
    BY <1>1, <1>6, MaxIsLargest
  <2> QED
    BY <1>4, <1>5, <2>1 DEF Folds
<1>7. IsTaken(H, names, existing, target, answer)
  BY <1>1, <1>5, <1>6 DEF IsTaken, Folds
<1>8. IsTaken(G, names, existing, target, answer)
  BY <1>7 DEF G, Takes
<1>9. \A s \in SUBSET (1 .. L) :
         G[s] = IF s = {} THEN Start(names) ELSE Taken(G[s \ {Max(s)}], existing, target, answer[Max(s)])
  BY <1>1, <1>8 DEF IsTaken
<1>10. Bad = {}
  <2>1. SUFFICES ASSUME Bad # {} PROVE FALSE
    OBVIOUS
  <2>2. PICK s \in Bad : \A t \in Bad : t \subseteq s => t = s
    <3> DEFINE U == 1 .. L
    <3>1. Bad \subseteq SUBSET U /\ IsFiniteSet(U)
      BY <1>1, FS_Interval
    <3> HIDE DEF Bad, U
    <3> QED
      BY <2>1, <3>1, SmallestSubset
  <2>3. s # {}
    BY <1>2, <1>9
  <2>4. Max(s) \in s /\ Max(s) \in 1 .. L
    BY <1>1, <2>3, MaxIsLargest
  <2>5. G[s \ {Max(s)}] \in V
    BY <2>2, <2>4
  <2>6. G[s] = Taken(G[s \ {Max(s)}], existing, target, answer[Max(s)])
    BY <1>9, <2>3
  <2>7. G[s] \in V
    BY <1>3, <2>4, <2>5, <2>6
  <2> QED
    BY <2>2, <2>7
<1> QED
  BY <1>1, <1>10, AcceptTakes DEF G, V

-----------------------------------------------------------------------------
(* The lists of an import and its card hold nothing but what is offered,   *)
(* the new names keep off those of the book that was read, and until it is *)
(* read there are neither lists nor card.                                  *)
RunFields == {"at", "target", "existing", "checks", "prelude", "sections", "renames", "authored", "k",
              "round", "ok", "calls", "incomplete", "rows", "status", "carried", "reported"}
Unread == {"off", "opening", "reading"}
Blank(r) ==
    r.renames = <<>> /\ r.authored = {} /\ r.prelude = <<>> /\ r.sections = <<>> /\ r.carried = <<>>

ListsOK(r) ==
    /\ DOMAIN r = RunFields
    /\ IsFiniteSet(r.existing)
    /\ r.renames \in Renamings(r.existing) /\ r.authored \in SUBSET Own(r.existing)
    /\ r.prelude \in Seq(Offered(r.target, r.existing))
    /\ r.sections \in Seq(Seq(Offered(r.target, r.existing)))
    /\ r.carried \in Seq(Offered(r.target, r.existing))
    /\ r.at \in Unread => Blank(r)
    /\ r.at # "off" /\ r.target.createdFork => r.target.scenario # BaseScenario

ForkInv ==
    /\ IsBook(book)
    /\ ListsOK(run)
    /\ card.ops \in Seq(Offered(run.target, run.existing))
    /\ run.at \in Unread => card = NoCard

Lists == {"target", "existing", "prelude", "sections", "renames", "authored", "carried"}

LEMMA ForkStart == Init => ForkInv
<1> SUFFICES ASSUME Init PROVE ForkInv
  OBVIOUS
<1>1. /\ IsBook(book) /\ card = NoCard /\ DOMAIN run = RunFields /\ run.at = "off"
      /\ run.existing = {} /\ run.prelude = <<>> /\ run.sections = <<>> /\ run.renames = <<>>
      /\ run.authored = {} /\ run.carried = <<>>
  BY BooksAreBooks DEF Init, RunFields
<1>2. run.renames \in Renamings(run.existing) /\ IsFiniteSet(run.existing)
  <2>1. <<>> \in [{} -> Own(run.existing)]
    BY Z3
  <2> QED
    BY <1>1, <2>1, FS_EmptySet DEF Renamings
<1>3. card.ops = <<>>
  BY <1>1 DEF NoCard
<1> QED
  BY <1>1, <1>2, <1>3, EmptySeq DEF ForkInv, ListsOK, Blank, Unread

(* The same lists at a later place of the task.                            *)
LEMMA ListsStay ==
  ASSUME ListsOK(run), NEW r, DOMAIN r = RunFields, \A f \in Lists : r[f] = run[f],
         run.at # "off", r.at \in Unread => run.at \in Unread
  PROVE  ListsOK(r)
<1>1. /\ r.target = run.target /\ r.existing = run.existing /\ r.prelude = run.prelude
      /\ r.sections = run.sections /\ r.renames = run.renames /\ r.authored = run.authored
      /\ r.carried = run.carried
  BY DEF Lists
<1> QED
  BY <1>1 DEF ListsOK, Blank

LEMMA OfferedAreOperations ==
  \A target, existing : \A op \in Offered(target, existing) : op.op \in OpKinds
<1> SUFFICES ASSUME NEW target, NEW existing, NEW op \in Offered(target, existing)
             PROVE  op.op \in OpKinds
  OBVIOUS
<1>1. \A scenario : \A o \in Stamped(scenario) : o.op \in OpKinds
  <2>1. ASSUME NEW scenario, NEW o \in Stamped(scenario) PROVE o.op \in OpKinds
    <3>1. PICK i \in Intents, id \in Names : o = Name(Stamp(i, scenario), id)
      BY DEF Stamped
    <3>2. o.op = i.op
      BY <3>1, StampedIntent
    <3> QED
      BY <3>2, IntentsAreOperations DEF IsOperation
  <2> QED
    BY <2>1
<1> QED
  BY <1>1 DEF Offered, InFork, InBase, ForkScenario, SetOpeningBalance, SetHorizon, Op, OpKinds

LEMMA EmptyLists ==
  ASSUME NEW r, Blank(r), NEW existing, NEW S
  PROVE  /\ r.renames \in Renamings(existing) /\ r.authored \in SUBSET Own(existing)
         /\ r.prelude \in Seq(S) /\ r.sections \in Seq(Seq(S)) /\ r.carried \in Seq(S)
<1>1. <<>> \in [{} -> Own(existing)]
  BY Z3
<1> QED
  BY <1>1, EmptySeq DEF Blank, Renamings

(* The task's steps that touch no list.                                    *)
LEMMA ForkQuiet ==
  ASSUME ForkInv, book' = book, card' = card, run.at # "off",
         DOMAIN run' = RunFields, \A f \in Lists : run'[f] = run[f], run'.at \in Unread => run.at \in Unread
  PROVE  ForkInv'
<1>1. ListsOK(run)'
  BY ListsStay DEF ForkInv
<1>2. run'.target = run.target /\ run'.existing = run.existing
  BY DEF Lists
<1> QED
  BY <1>1, <1>2 DEF ForkInv

LEMMA ForkPost ==
  ASSUME ForkInv, Post
  PROVE  ForkInv'
<1>1. /\ run' = [run EXCEPT !.at = "opening", !.target = DecideTarget(book, Slug)]
      /\ run.at = "off" /\ book' = book /\ card' = card
  BY DEF Post, At
<1>2. DOMAIN run = RunFields /\ Blank(run) /\ card = NoCard /\ IsFiniteSet(run.existing)
  BY <1>1 DEF ForkInv, ListsOK, Unread
<1>3. /\ DOMAIN run' = RunFields /\ run'.at = "opening" /\ run'.target = DecideTarget(book, Slug)
      /\ run'.existing = run.existing /\ Blank(run')
  BY <1>1, <1>2 DEF RunFields, Blank
<1>4. run'.target.createdFork => run'.target.scenario # BaseScenario
  <2> DEFINE taken == Scenarios(book)
  <2>1. IsFiniteSet(taken)
    BY OneMore DEF ForkInv, IsBook, Scenarios
  <2>2. BaseScenario \in taken
    BY DEF Scenarios
  <2>3. ForkNameFor(Slug, taken) \notin taken
    BY <2>1, ForkNameIsFree
  <2>4. DecideTarget(book, Slug) \in {[scenario |-> BaseScenario, createdFork |-> FALSE],
                                      [scenario |-> ForkNameFor(Slug, taken), createdFork |-> TRUE]}
    BY DEF DecideTarget
  <2> QED
    BY <1>3, <2>2, <2>3, <2>4
<1>5. card.ops = <<>>
  BY <1>2 DEF NoCard
<1>6. ListsOK(run')
  BY <1>2, <1>3, <1>4, EmptyLists DEF ListsOK
<1> QED
  BY <1>1, <1>2, <1>5, <1>6, EmptySeq DEF ForkInv

LEMMA ForkRead ==
  ASSUME ForkInv, ReadBook
  PROVE  ForkInv'
<1>1. /\ run' = [run EXCEPT !.at = "planning", !.existing = ExistingItems(book, run.target)]
      /\ run.at = "reading" /\ book' = book /\ card' = card
  BY DEF ReadBook, At
<1>2. DOMAIN run = RunFields /\ Blank(run) /\ card = NoCard
      /\ (run.target.createdFork => run.target.scenario # BaseScenario)
  BY <1>1 DEF ForkInv, ListsOK, Unread
<1>3. /\ DOMAIN run' = RunFields /\ run'.at = "planning" /\ run'.target = run.target
      /\ run'.existing = ExistingItems(book, run.target) /\ Blank(run')
  BY <1>1, <1>2 DEF RunFields, Blank
<1>4. IsFiniteSet(run'.existing)
  <2>1. ASSUME NEW s PROVE IsFiniteSet(DOMAIN Lines(book, s))
    <3>1. CASE s \in DOMAIN book.forks
      <4>1. IsFiniteSet(DOMAIN book.forks[s]) /\ IsFiniteSet(DOMAIN book.base)
        BY <3>1 DEF ForkInv, IsBook
      <4>2. DOMAIN Lines(book, s) = DOMAIN book.forks[s] \cup DOMAIN book.base
        BY <3>1 DEF Lines, Over
      <4> QED
        BY <4>1, <4>2, FS_Union
    <3>2. CASE s \notin DOMAIN book.forks
      BY <3>2 DEF Lines, ForkInv, IsBook
    <3> QED
      BY <3>1, <3>2
  <2> QED
    BY <1>3, <2>1 DEF ExistingItems
<1>5. card.ops = <<>>
  BY <1>2 DEF NoCard
<1>6. ListsOK(run')
  BY <1>2, <1>3, <1>4, EmptyLists DEF ListsOK, Unread
<1> QED
  BY <1>1, <1>2, <1>5, <1>6, EmptySeq DEF ForkInv

LEMMA PreludesAreOffered ==
  ASSUME NEW target, NEW existing, NEW plan \in Plans
  PROVE  PreludeFrom(Sheet, target, plan) \in Seq(Offered(target, existing))
<1>1. CASE target.createdFork
  <2>1. ForkScenario(target.scenario) \in Offered(target, existing)
    BY <1>1 DEF Offered, InFork
  <2> QED
    BY <1>1, <2>1 DEF PreludeFrom
<1>2. CASE ~target.createdFork
  <2> DEFINE S == InBase(target.scenario)
             opens == OpeningBalance(Sheet, plan.opening)
             spans == IF plan.horizon = None THEN <<>>
                      ELSE IF plan.horizon[2] > plan.horizon[1]
                           THEN <<SetHorizon(plan.horizon[1], plan.horizon[2])>> ELSE <<>>
  <2>1. LET value == IF plan.opening.cell # None THEN ReadNumber(Sheet, plan.opening.cell)
                     ELSE plan.opening.amount
        IN  value # None => SetOpeningBalance(value) \in S
    BY PlansAreReadable, SheetHoldsNumbers DEF InBase, ReadNumber
  <2>2. plan.horizon # None => SetHorizon(plan.horizon[1], plan.horizon[2]) \in S
    BY DEF InBase
  <2> HIDE DEF S
  <2>3. opens \in Seq(S)
    BY <2>1, EmptySeq DEF OpeningBalance
  <2>4. spans \in Seq(S)
    BY <2>2, EmptySeq
  <2>5. PreludeFrom(Sheet, target, plan) = opens \o spans
    BY <1>2 DEF PreludeFrom
  <2> HIDE DEF opens, spans
  <2>6. opens \o spans \in Seq(S)
    BY <2>3, <2>4, ConcatProperties
  <2> QED
    BY <1>2, <2>5, <2>6 DEF Offered, S
<1> QED
  BY <1>1, <1>2

LEMMA ForkPlan ==
  ASSUME ForkInv, PlanSections
  PROVE  ForkInv'
<1> DEFINE S == Offered(run.target, run.existing)
<1>1. PICK plan \in Plans, calls \in 1 .. MaxCalls :
         run' = [run EXCEPT !.at = "authoring", !.calls = calls, !.checks = plan.checks,
                            !.sections = [n \in 1 .. plan.sections |-> <<>>], !.k = 1,
                            !.prelude = PreludeFrom(Sheet, run.target, plan)]
  BY DEF PlanSections
<1>2. run.at = "planning" /\ book' = book /\ card' = card
  BY DEF PlanSections, At
<1>3. /\ DOMAIN run = RunFields /\ IsFiniteSet(run.existing)
      /\ run.renames \in Renamings(run.existing) /\ run.authored \in SUBSET Own(run.existing)
      /\ run.carried \in Seq(S) /\ card.ops \in Seq(S)
      /\ (run.target.createdFork => run.target.scenario # BaseScenario)
  BY <1>2 DEF ForkInv, ListsOK
<1>4. PreludeFrom(Sheet, run.target, plan) \in Seq(S)
  BY PreludesAreOffered
<1>5. [n \in 1 .. plan.sections |-> <<>>] \in Seq(Seq(S))
  <2> DEFINE W == Seq(S)
             n == plan.sections
             none == <<>>
  <2>1. none \in W /\ n \in Nat
    BY EmptySeq, PlansAreReadable
  <2> HIDE DEF W, n, none
  <2>2. [i \in 1 .. n |-> none] \in Seq(W)
    BY <2>1, SeqDef
  <2> QED
    BY <2>2 DEF W, n, none
<1> HIDE DEF S
<1>6. /\ DOMAIN run' = RunFields /\ run'.at = "authoring" /\ run'.target = run.target
      /\ run'.existing = run.existing /\ run'.renames = run.renames /\ run'.authored = run.authored
      /\ run'.carried = run.carried /\ run'.sections = [n \in 1 .. plan.sections |-> <<>>]
      /\ run'.prelude = PreludeFrom(Sheet, run.target, plan)
  BY <1>1, <1>3 DEF RunFields
<1>7. S = Offered(run'.target, run'.existing)
  BY <1>6 DEF S
<1>8. ListsOK(run')
  BY <1>3, <1>4, <1>5, <1>6, <1>7 DEF ListsOK, Unread
<1> QED
  BY <1>2, <1>3, <1>6, <1>7, <1>8 DEF ForkInv, Unread

(* One section is replaced by what is offered.                             *)
LEMMA SectionsStay ==
  ASSUME NEW S, NEW sections \in Seq(Seq(S)), NEW k, NEW ops \in Seq(S)
  PROVE  [sections EXCEPT ![k] = ops] \in Seq(Seq(S))
<1> DEFINE W == Seq(S)
<1>1. Len(sections) \in Nat /\ sections \in [1 .. Len(sections) -> W]
  BY LenProperties
<1> DEFINE n == Len(sections)
           new == [sections EXCEPT ![k] = ops]
<1>2. n \in Nat /\ new \in [1 .. n -> W]
  BY <1>1
<1> HIDE DEF W, n, new
<1>3. new \in Seq(W)
  BY <1>2, SeqDef
<1> QED
  BY <1>3 DEF W, new

LEMMA DroppingStays ==
  ASSUME NEW S, NEW sections \in Seq(Seq(S)), NEW prelude, NEW k, NEW ok
  PROVE  DropRefused(prelude, sections, k, ok) \in Seq(Seq(S))
<1> DEFINE W == Seq(S)
           new == Without(sections[k], BrokenOperations(prelude, sections, k, ok))
<1>1. Len(sections) \in Nat /\ sections \in [1 .. Len(sections) -> W] /\ DOMAIN sections = 1 .. Len(sections)
  BY LenProperties
<1>2. DropRefused(prelude, sections, k, ok) = [sections EXCEPT ![k] = new]
  BY DEF DropRefused
<1>3. CASE k \in DOMAIN sections
  <2>1. sections[k] \in Seq(S)
    BY <1>1, <1>3
  <2>2. new \in Seq(S)
    BY <2>1, WithoutPicks
  <2> HIDE DEF new
  <2>3. [sections EXCEPT ![k] = new] \in Seq(Seq(S))
    BY <2>2, SectionsStay
  <2> QED
    BY <1>2, <2>3
<1>4. CASE k \notin DOMAIN sections
  <2>1. [sections EXCEPT ![k] = new] = sections
    BY <1>1, <1>4
  <2> QED
    BY <1>2, <2>1
<1> QED
  BY <1>3, <1>4

(* A step of the loop: sections and names, of what is offered.             *)
LEMMA ForkLoop ==
  ASSUME ForkInv, book' = book, card' = card, run.at # "off", DOMAIN run' = RunFields, run'.at \notin Unread,
         \A f \in {"target", "existing", "prelude", "carried"} : run'[f] = run[f],
         run'.sections \in Seq(Seq(Offered(run.target, run.existing))),
         run'.renames \in Renamings(run.existing), run'.authored \in SUBSET Own(run.existing)
  PROVE  ForkInv'
<1>1. /\ run'.target = run.target /\ run'.existing = run.existing /\ run'.prelude = run.prelude
      /\ run'.carried = run.carried
  OBVIOUS
<1>2. ListsOK(run')
  BY <1>1 DEF ForkInv, ListsOK
<1> QED
  BY <1>1, <1>2 DEF ForkInv

LEMMA AfterSectionStays ==
  ASSUME NEW r, DOMAIN r = RunFields
  PROVE  /\ DOMAIN AfterSection(r) = RunFields /\ AfterSection(r).at \in {"authoring", "finishing"}
         /\ \A f \in RunFields \ {"at", "k"} : AfterSection(r)[f] = r[f]
BY DEF AfterSection, RunFields

LEMMA ForkAuthor ==
  ASSUME ForkInv, Author
  PROVE  ForkInv'
<1> DEFINE S == Offered(run.target, run.existing)
<1>1. PICK answer \in Answers, calls \in 1 .. MaxCalls :
         LET taken == Accept(run, run.existing, run.target, answer)
         IN  run' = [run EXCEPT !.at = "reconciling", !.calls = calls, !.round = 0,
                                !.sections[run.k] = taken.accepted,
                                !.renames = taken.renames, !.authored = taken.authored]
  BY DEF Author
<1>2. run.at = "authoring" /\ book' = book /\ card' = card
  BY DEF Author, At
<1>3. DOMAIN run = RunFields /\ IsFiniteSet(run.existing) /\ run.sections \in Seq(Seq(S))
      /\ run.renames \in Renamings(run.existing) /\ run.authored \in SUBSET Own(run.existing)
  BY DEF ForkInv, ListsOK
<1> DEFINE taken == Accept(run, run.existing, run.target, answer)
           new == [run.sections EXCEPT ![run.k] = taken.accepted]
<1>4. taken \in Namings(run.target, run.existing)
  BY <1>3, AcceptKeeps
<1> HIDE DEF taken
<1>5. taken.renames \in Renamings(run.existing) /\ taken.authored \in SUBSET Own(run.existing)
      /\ taken.accepted \in Seq(S)
  BY <1>4 DEF Namings
<1>6. new \in Seq(Seq(S))
  BY <1>3, <1>5, SectionsStay
<1>7. run' = [run EXCEPT !.at = "reconciling", !.calls = calls, !.round = 0, !.sections = new,
                         !.renames = taken.renames, !.authored = taken.authored]
  BY <1>1 DEF taken
<1> HIDE DEF new
<1>8. /\ DOMAIN run' = RunFields /\ run'.at = "reconciling" /\ run'.sections = new
      /\ run'.renames = taken.renames /\ run'.authored = taken.authored
      /\ \A f \in {"target", "existing", "prelude", "carried"} : run'[f] = run[f]
  BY <1>3, <1>7 DEF RunFields
<1> QED
  BY <1>2, <1>5, <1>6, <1>8, ForkLoop DEF Unread

LEMMA ForkReconcile ==
  ASSUME ForkInv, Reconcile
  PROVE  ForkInv'
<1> DEFINE S == Offered(run.target, run.existing)
           checks == EffectiveChecks(run.checks, run.renames)
           ops == Operations(run.prelude, run.sections)
           result == Reconciled(book, run.target, ops, Sheet, checks)
           new == DropRefused(run.prelude, run.sections, run.k, result.ok)
           dropped == [run EXCEPT !.sections = new]
<1>1. /\ run.at = "reconciling" /\ book' = book /\ card' = card
      /\ \/ run' = AfterSection(run) \/ run' = AfterSection(dropped)
         \/ run' = [run EXCEPT !.at = "revising", !.ok = result.ok]
  BY DEF Reconcile, At
<1>2. DOMAIN run = RunFields /\ run.sections \in Seq(Seq(S))
      /\ run.renames \in Renamings(run.existing) /\ run.authored \in SUBSET Own(run.existing)
  BY DEF ForkInv, ListsOK
<1>3. new \in Seq(Seq(S))
  BY <1>2, DroppingStays
<1> HIDE DEF result, new, S
<1>4. CASE run' = AfterSection(run)
  <2>1. /\ DOMAIN run' = RunFields /\ run'.at \in {"authoring", "finishing"}
        /\ \A f \in RunFields \ {"at", "k"} : run'[f] = run[f]
    BY <1>2, <1>4, AfterSectionStays
  <2>2. DOMAIN run' = RunFields /\ run'.at \notin Unread /\ \A f \in Lists : run'[f] = run[f]
    BY <2>1 DEF Unread, Lists, RunFields
  <2> QED
    BY <1>1, <2>2, ForkQuiet
<1>5. CASE run' = AfterSection(dropped)
  <2>1. DOMAIN dropped = RunFields /\ dropped.sections = new
        /\ \A f \in RunFields \ {"sections"} : dropped[f] = run[f]
    BY <1>2 DEF RunFields
  <2> HIDE DEF dropped
  <2>2. /\ DOMAIN run' = RunFields /\ run'.at \in {"authoring", "finishing"}
        /\ \A f \in RunFields \ {"at", "k"} : run'[f] = dropped[f]
    BY <1>5, <2>1, AfterSectionStays
  <2>3. /\ run'.at \notin Unread /\ run'.sections = new
        /\ run'.renames = run.renames /\ run'.authored = run.authored
        /\ \A f \in {"target", "existing", "prelude", "carried"} : run'[f] = run[f]
    BY <2>1, <2>2 DEF Unread, RunFields
  <2> QED
    BY <1>1, <1>2, <1>3, <2>2, <2>3, ForkLoop DEF S
<1>6. CASE run' = [run EXCEPT !.at = "revising", !.ok = result.ok]
  <2>1. DOMAIN run' = RunFields /\ run'.at \notin Unread /\ \A f \in Lists : run'[f] = run[f]
    BY <1>2, <1>6 DEF Unread, Lists, RunFields
  <2> QED
    BY <1>1, <2>1, ForkQuiet
<1> QED
  BY <1>1, <1>4, <1>5, <1>6

LEMMA ForkRevise ==
  ASSUME ForkInv, Revise
  PROVE  ForkInv'
<1> DEFINE S == Offered(run.target, run.existing)
<1>1. PICK answer \in Answers, calls \in 1 .. MaxCalls :
         LET taken == Accept(run, run.existing, run.target, answer)
             named == [run EXCEPT !.renames = taken.renames, !.authored = taken.authored,
                                  !.calls = calls, !.ok = <<>>]
         IN  \/ run' = [named EXCEPT !.at = "reconciling", !.round = @ + 1,
                                     !.sections[run.k] = taken.accepted]
             \/ run' = AfterSection([named EXCEPT
                                !.sections = DropRefused(run.prelude, @, run.k, run.ok)])
  BY DEF Revise
<1>2. run.at = "revising" /\ book' = book /\ card' = card
  BY DEF Revise, At
<1>3. DOMAIN run = RunFields /\ IsFiniteSet(run.existing) /\ run.sections \in Seq(Seq(S))
      /\ run.renames \in Renamings(run.existing) /\ run.authored \in SUBSET Own(run.existing)
  BY DEF ForkInv, ListsOK
<1> DEFINE taken == Accept(run, run.existing, run.target, answer)
           named == [run EXCEPT !.renames = taken.renames, !.authored = taken.authored,
                                !.calls = calls, !.ok = <<>>]
           kept == [run.sections EXCEPT ![run.k] = taken.accepted]
           rest == DropRefused(run.prelude, run.sections, run.k, run.ok)
           dropped == [named EXCEPT !.sections = rest]
<1>4. taken \in Namings(run.target, run.existing)
  BY <1>3, AcceptKeeps
<1> HIDE DEF taken
<1>5. taken.renames \in Renamings(run.existing) /\ taken.authored \in SUBSET Own(run.existing)
      /\ taken.accepted \in Seq(S)
  BY <1>4 DEF Namings
<1>6. kept \in Seq(Seq(S)) /\ rest \in Seq(Seq(S))
  BY <1>3, <1>5, SectionsStay, DroppingStays
<1>7. /\ DOMAIN named = RunFields /\ named.sections = run.sections
      /\ named.renames = taken.renames /\ named.authored = taken.authored
      /\ \A f \in {"target", "existing", "prelude", "carried"} : named[f] = run[f]
  BY <1>3 DEF RunFields
<1>8. \/ run' = [named EXCEPT !.at = "reconciling", !.round = @ + 1,
                              !.sections = [named.sections EXCEPT ![run.k] = taken.accepted]]
      \/ run' = AfterSection([named EXCEPT !.sections = DropRefused(run.prelude, named.sections, run.k, run.ok)])
  BY <1>1 DEF taken
<1>9. \/ run' = [named EXCEPT !.at = "reconciling", !.round = @ + 1, !.sections = kept]
      \/ run' = AfterSection(dropped)
  BY <1>7, <1>8
<1> HIDE DEF named, kept, rest, S
<1>10. CASE run' = [named EXCEPT !.at = "reconciling", !.round = @ + 1, !.sections = kept]
  <2>1. /\ DOMAIN run' = RunFields /\ run'.at = "reconciling" /\ run'.sections = kept
        /\ run'.renames = named.renames /\ run'.authored = named.authored
        /\ \A f \in {"target", "existing", "prelude", "carried"} : run'[f] = named[f]
    BY <1>7, <1>10 DEF RunFields
  <2> QED
    BY <1>2, <1>5, <1>6, <1>7, <2>1, ForkLoop DEF Unread, S
<1>11. CASE run' = AfterSection(dropped)
  <2>1. /\ DOMAIN dropped = RunFields /\ dropped.sections = rest
        /\ \A f \in RunFields \ {"sections"} : dropped[f] = named[f]
    BY <1>7 DEF RunFields
  <2> HIDE DEF dropped
  <2>2. /\ DOMAIN run' = RunFields /\ run'.at \in {"authoring", "finishing"}
        /\ \A f \in RunFields \ {"at", "k"} : run'[f] = dropped[f]
    BY <1>11, <2>1, AfterSectionStays
  <2>3. /\ run'.at \notin Unread /\ run'.sections = rest
        /\ run'.renames = named.renames /\ run'.authored = named.authored
        /\ \A f \in {"target", "existing", "prelude", "carried"} : run'[f] = named[f]
    BY <2>1, <2>2 DEF Unread, RunFields
  <2> QED
    BY <1>2, <1>5, <1>6, <1>7, <2>2, <2>3, ForkLoop DEF S
<1> QED
  BY <1>9, <1>10, <1>11

LEMMA ForkFinish ==
  ASSUME ForkInv, Finish
  PROVE  ForkInv'
<1> DEFINE S == Offered(run.target, run.existing)
           ops == Operations(run.prelude, run.sections)
           result == Reconciled(book, run.target, ops, Sheet, EffectiveChecks(run.checks, run.renames))
           carried == AppliedCleanly(ops, result.ok)
<1>1. PICK at \in {"answering", "proposing"}, status \in {"partial", "done"} :
         run' = [run EXCEPT !.at = at, !.rows = result.rows, !.reported = book, !.status = status,
                            !.carried = carried]
  <2> HIDE DEF result, carried
  <2> DEFINE next == IF carried = <<>> THEN "answering" ELSE "proposing"
             status == IF run.incomplete \/ CountOf(result.rows, "mismatched") > 0
                       THEN "partial" ELSE "done"
  <2>1. run' = [run EXCEPT !.at = next, !.rows = result.rows, !.reported = book, !.status = status,
                           !.carried = carried]
    BY DEF Finish, result, carried
  <2>2. next \in {"answering", "proposing"} /\ status \in {"partial", "done"}
    OBVIOUS
  <2> HIDE DEF next, status
  <2> QED
    BY <2>1, <2>2
<1>2. run.at = "finishing" /\ book' = book /\ card' = card
  BY DEF Finish, At
<1>3. DOMAIN run = RunFields /\ run.prelude \in Seq(S) /\ run.sections \in Seq(Seq(S))
  BY DEF ForkInv, ListsOK
<1>4. carried \in Seq(S)
  <2>1. ops \in Seq(S)
    BY <1>3, OperationsAre
  <2> HIDE DEF ops, result
  <2> QED
    BY <2>1, WithoutPicks DEF AppliedCleanly
<1> HIDE DEF result, carried, S
<1>5. /\ DOMAIN run' = RunFields /\ run'.at = at /\ run'.carried = carried
      /\ \A f \in Lists \ {"carried"} : run'[f] = run[f]
  BY <1>1, <1>3 DEF Lists, RunFields
<1>6. /\ run'.target = run.target /\ run'.existing = run.existing /\ run'.prelude = run.prelude
      /\ run'.sections = run.sections /\ run'.renames = run.renames /\ run'.authored = run.authored
  BY <1>5 DEF Lists
<1>7. ListsOK(run')
  BY <1>2, <1>4, <1>5, <1>6 DEF ForkInv, ListsOK, Unread, S
<1> QED
  BY <1>2, <1>5, <1>6, <1>7 DEF ForkInv, Unread

(* The card is made of what is carried, and refreshed from itself.         *)
LEMMA ForkPropose ==
  ASSUME ForkInv, Propose
  PROVE  ForkInv'
<1> DEFINE S == Offered(run.target, run.existing)
<1>1. /\ run.at = "proposing" /\ book' = book
      /\ run' = [run EXCEPT !.at = "answering"] /\ card'.ops = DryRun(book, run.carried).ops
  BY DEF Propose, At
<1>2. DOMAIN run = RunFields /\ run.carried \in Seq(S)
  BY DEF ForkInv, ListsOK
<1>3. DryRun(book, run.carried).ops \in Seq(S)
  BY <1>2, DryRunTries
<1>4. DOMAIN run' = RunFields /\ run'.at = "answering" /\ \A f \in Lists : run'[f] = run[f]
  BY <1>1, <1>2 DEF Lists, RunFields
<1>5. ListsOK(run')
  BY <1>1, <1>4, ListsStay DEF ForkInv, Unread
<1>6. run'.target = run.target /\ run'.existing = run.existing
  BY <1>4 DEF Lists
<1> QED
  BY <1>1, <1>3, <1>4, <1>5, <1>6 DEF ForkInv, Unread

LEMMA ForkRefresh ==
  ASSUME ForkInv, RefreshCard
  PROVE  ForkInv'
<1> DEFINE S == Offered(run.target, run.existing)
<1>1. /\ card.status = "pending" /\ book' = book /\ run' = run
      /\ card'.ops = DryRun(book, card.ops).ops
  BY DEF RefreshCard
<1>2. DryRun(book, card.ops).ops \in Seq(S)
  BY DryRunTries DEF ForkInv
<1>3. run.at \notin Unread
  BY <1>1 DEF ForkInv, NoCard
<1> QED
  BY <1>1, <1>2, <1>3 DEF ForkInv

LEMMA ForkAccept ==
  ASSUME ForkInv, AcceptCard
  PROVE  ForkInv'
<1> DEFINE S == Offered(run.target, run.existing)
<1>1. /\ card.status = "pending" /\ run' = run /\ book' = Outcomes(book, card.ops).book
      /\ card' = [card EXCEPT !.status = "accepted"]
  BY DEF AcceptCard
<1>2. run.at \notin Unread
  BY <1>1 DEF ForkInv, NoCard
<1>3. card.ops \in Seq(S) /\ IsBook(book) /\ ListsOK(run)
  BY DEF ForkInv
<1>4. Len(card.ops) \in Nat /\ \A n \in 1 .. Len(card.ops) : card.ops[n].op \in OpKinds
  <2>1. \A n \in 1 .. Len(card.ops) : card.ops[n] \in S
    BY <1>3, ElementOfSeq
  <2> QED
    BY <1>3, <2>1, OfferedAreOperations, LenProperties
<1>5. IsBook(book')
  <2> DEFINE ops == card.ops
             b == book
             p == Path(b, ops)
             n == Len(ops)
  <2>1. IsBook(b) /\ n \in Nat /\ \A i \in 1 .. n : ops[i].op \in OpKinds
    BY <1>3, <1>4
  <2>2. Outcomes(b, ops).book = p[n]
    BY OutcomesArePaths
  <2> HIDE DEF b, ops
  <2>3. \A i \in 0 .. n : IsBook(p[i])
    BY <2>1, PathsKeepBooks
  <2> HIDE DEF p
  <2>4. IsBook(p[n])
    BY <2>1, <2>3
  <2> QED
    BY <1>1, <2>2, <2>4 DEF b, ops
<1>6. card'.ops = card.ops
  BY <1>1
<1> QED
  BY <1>1, <1>2, <1>3, <1>5, <1>6 DEF ForkInv

-----------------------------------------------------------------------------
LEMMA ForkQuietSteps ==
  ASSUME ForkInv,
         Open \/ StopAsking \/ Fails \/ Answer \/ WriteRow \/ CloseJournal \/ Shutdown
  PROVE  ForkInv'
<1>1. DOMAIN run = RunFields
  BY DEF ForkInv, ListsOK
<1> DEFINE Quiet == /\ book' = book /\ card' = card /\ run.at # "off" /\ DOMAIN run' = RunFields
                    /\ \A f \in Lists : run'[f] = run[f]
                    /\ (run'.at \in Unread => run.at \in Unread)
<1>2. ASSUME Open PROVE Quiet
  BY <1>1, <1>2 DEF Open, At, Lists, RunFields, Unread
<1>3. ASSUME StopAsking PROVE Quiet
  BY <1>1, <1>3 DEF StopAsking, Asking, Lists, RunFields, Unread
<1>4. ASSUME Fails PROVE Quiet
  BY <1>1, <1>4 DEF Fails, Asking, Lists, RunFields, Unread
<1>5. ASSUME Answer PROVE Quiet
  BY <1>1, <1>5 DEF Answer, At, Lists, RunFields, Unread
<1>6. ASSUME WriteRow PROVE Quiet
  BY <1>1, <1>6 DEF WriteRow, At, Lists, RunFields, Unread
<1>7. ASSUME CloseJournal PROVE Quiet
  BY <1>1, <1>7 DEF CloseJournal, At, Lists, RunFields, Unread
<1>8. ASSUME Shutdown PROVE Quiet
  BY <1>1, <1>8 DEF Shutdown, Working, Lists, RunFields, Unread
<1>9. Quiet
  BY <1>2, <1>3, <1>4, <1>5, <1>6, <1>7, <1>8
<1> QED
  BY <1>9, ForkQuiet

LEMMA ForkStep == ForkInv /\ [Next]_vars => ForkInv'
<1> SUFFICES ASSUME ForkInv, [Next]_vars PROVE ForkInv'
  OBVIOUS
<1>1. CASE Post
  BY <1>1, ForkPost
<1>2. CASE Open \/ StopAsking \/ Fails \/ Answer \/ WriteRow \/ CloseJournal \/ Shutdown
  BY <1>2, ForkQuietSteps
<1>3. CASE ReadBook
  BY <1>3, ForkRead
<1>4. CASE PlanSections
  BY <1>4, ForkPlan
<1>5. CASE Author
  BY <1>5, ForkAuthor
<1>6. CASE Reconcile
  BY <1>6, ForkReconcile
<1>7. CASE Revise
  BY <1>7, ForkRevise
<1>8. CASE Finish
  BY <1>8, ForkFinish
<1>9. CASE Propose
  BY <1>9, ForkPropose
<1>10. CASE RefreshCard
  BY <1>10, ForkRefresh
<1>11. CASE AcceptCard
  BY <1>11, ForkAccept
<1>12. ASSUME NEW move \in Moves, Move(move.op, move.place) PROVE ForkInv'
  <2>1. book' = ApplyOp(book, move.op, move.place) /\ run' = run /\ card' = card
    BY <1>12 DEF Move
  <2>2. move.op.op \in OpKinds /\ IsBook(book)
    BY MovesAreOperations DEF ForkInv, IsOperation
  <2>3. IsBook(book')
    BY <2>1, <2>2, ApplyKeepsBooks
  <2> QED
    BY <2>1, <2>3 DEF ForkInv
<1>13. ASSUME NEW l \in Listeners, Listen(l) \/ Deliver(l) \/ HangUp(l) PROVE ForkInv'
  <2>1. book' = book /\ run' = run /\ card' = card
    BY <1>13 DEF Listen, Deliver, HangUp
  <2> QED
    BY <2>1 DEF ForkInv
<1>14. CASE UNCHANGED vars
  BY <1>14 DEF vars, ForkInv
<1> QED
  BY <1>1, <1>2, <1>3, <1>4, <1>5, <1>6, <1>7, <1>8, <1>9, <1>10, <1>11, <1>12, <1>13, <1>14
     DEF Next, Work

-----------------------------------------------------------------------------
LEMMA OfferedForksAreSafe ==
  ASSUME NEW fork, NEW existing, NEW op \in InFork(fork, existing)
  PROVE  IsForkSafe(op, fork, existing)
<1>1. CASE op = ForkScenario(fork)
  BY <1>1 DEF IsForkSafe
<1>2. CASE op # ForkScenario(fork)
  <2>1. op \in Stamped(fork) /\ op.op \in ForkSafeOps /\ op.id \notin existing
    BY <1>2 DEF InFork
  <2>2. PICK i \in Intents, id \in Names : op = Name(Stamp(i, fork), id)
    BY <2>1 DEF Stamped
  <2>3. DOMAIN i = {"op", "id", "amount", "from", "until", "scenario"}
    BY IntentsAreOperations DEF IsOperation
  <2>4. op.scenario = fork
    BY <2>2, <2>3 DEF Name, Stamp
  <2> QED
    BY <2>1, <2>4 DEF IsForkSafe
<1> QED
  BY <1>1, <1>2

LEMMA OnlyForksFork ==
  ASSUME NEW target, NEW existing, ForkScenario(target.scenario) \in Offered(target, existing)
  PROVE  target.createdFork
<1> SUFFICES ASSUME ~target.createdFork PROVE FALSE
  OBVIOUS
<1>1. ForkScenario(target.scenario) \in InBase(target.scenario)
  BY DEF Offered
<1>2. ForkScenario(target.scenario).op = "fork_scenario"
  BY DEF ForkScenario, Op
<1>3. \A amount : SetOpeningBalance(amount).op = "set_opening_balance"
  BY DEF SetOpeningBalance, Op
<1>4. \A from, until : SetHorizon(from, until).op = "set_horizon"
  BY DEF SetHorizon, Op
<1>5. \A op \in InBase(target.scenario) : op.op \in ImportOps \cup {"set_opening_balance", "set_horizon"}
  BY <1>3, <1>4 DEF InBase
<1> QED
  BY <1>1, <1>2, <1>5 DEF ImportOps

(* What accepting a card that forks does to the book.                      *)
LEMMA AcceptedForksOnlyAdd ==
  ASSUME ForkInv, AcceptCard, ForkScenario(run.target.scenario) \in ToSet(card.ops)
  PROVE  /\ IsBook(book') /\ OnlyAdds(book, book', run.target.scenario, run.existing)
         /\ run.target.scenario \notin DOMAIN book.forks
<1> DEFINE fork == run.target.scenario
           existing == run.existing
           ops == card.ops
           S == Offered(run.target, existing)
<1>1. /\ card.status = "pending" /\ book' = Outcomes(book, ops).book /\ DryRun(book, ops).ok
  BY DEF AcceptCard
<1>2. run.at \notin Unread
  BY <1>1 DEF ForkInv, NoCard
<1>3. ops \in Seq(S) /\ IsBook(book) /\ ListsOK(run)
  BY DEF ForkInv
<1>4. Len(ops) \in Nat /\ DOMAIN ops = 1 .. Len(ops) /\ \A n \in 1 .. Len(ops) : ops[n] \in S
  BY <1>3, LenProperties, ElementOfSeq
<1>5. PICK n \in 1 .. Len(ops) : ops[n] = ForkScenario(fork)
  BY <1>4 DEF ToSet
<1>6. run.target.createdFork /\ fork # BaseScenario
  <2>1. ForkScenario(fork) \in S
    BY <1>4, <1>5
  <2>2. run.target.createdFork
    BY <2>1, OnlyForksFork
  <2> QED
    BY <1>2, <1>3, <2>2 DEF ListsOK, Unread
<1>7. \A i \in 1 .. Len(ops) : IsForkSafe(ops[i], fork, existing)
  <2>1. S = InFork(fork, existing)
    BY <1>6 DEF Offered
  <2> QED
    BY <1>4, <2>1, OfferedForksAreSafe
<1>8. \A i \in 1 .. Len(ops) : ~Refused(Path(book, ops)[i - 1], ops[i], i)
  <2> DEFINE ok == Outcomes(book, ops).ok
             bad == {i \in 1 .. Len(ops) : ~ok[i]}
  <2>1. bad = {}
    BY <1>1 DEF DryRun
  <2>2. ok = [i \in 1 .. Len(ops) |-> ~Refused(Path(book, ops)[i - 1], ops[i], i)]
    BY OutcomesArePaths
  <2> HIDE DEF ok
  <2> QED
    BY <2>1, <2>2
<1>9. book' = Path(book, ops)[Len(ops)]
  BY <1>1, OutcomesArePaths
<1> HIDE DEF fork, existing, ops, S
<1>10. /\ IsBook(Path(book, ops)[Len(ops)])
       /\ OnlyAdds(book, Path(book, ops)[Len(ops)], fork, existing)
       /\ (\E i \in 1 .. Len(ops) : ops[i] = ForkScenario(fork)) => fork \notin DOMAIN book.forks
  BY <1>3, <1>4, <1>6, <1>7, <1>8, ForkPathsAddOnly
<1> QED
  BY <1>5, <1>9, <1>10 DEF fork, existing

OnlyTheFork ==
    (/\ card.status = "pending" /\ card'.status = "accepted"
     /\ ForkScenario(run.target.scenario) \in ToSet(card.ops)) =>
       /\ [book' EXCEPT !.forks = book.forks] = book
       /\ \A s \in DOMAIN book.forks : book'.forks[s] = book.forks[s]
       /\ \A i \in run.existing \cap DOMAIN book.base :
             Lines(book', run.target.scenario)[i] = book.base[i]

LEMMA AcceptsOnlyAdd == ForkInv /\ [Next]_vars => [OnlyTheFork]_vars
<1> SUFFICES ASSUME ForkInv, [Next]_vars, card.status = "pending", card'.status = "accepted",
                    ForkScenario(run.target.scenario) \in ToSet(card.ops)
             PROVE  /\ [book' EXCEPT !.forks = book.forks] = book
                    /\ \A s \in DOMAIN book.forks : book'.forks[s] = book.forks[s]
                    /\ \A i \in run.existing \cap DOMAIN book.base :
                          Lines(book', run.target.scenario)[i] = book.base[i]
  BY DEF OnlyTheFork
<1> DEFINE fork == run.target.scenario
<1>1. AcceptCard
  <2>1. card' # card
    OBVIOUS
  <2>2. ~Propose /\ ~RefreshCard
    BY DEF Propose, RefreshCard
  <2> QED
    BY <2>1, <2>2
       DEF Next, Work, vars, Post, Open, ReadBook, StopAsking, Fails, PlanSections, Author, Reconcile,
           Revise, Finish, Answer, WriteRow, CloseJournal, Shutdown, Move, Listen, Deliver, HangUp
<1>2. /\ IsBook(book') /\ OnlyAdds(book, book', fork, run.existing) /\ fork \notin DOMAIN book.forks
  BY <1>1, AcceptedForksOnlyAdd
<1>3. IsBook(book)
  BY DEF ForkInv
<1> HIDE DEF fork
<1>4. /\ book'.opening = book.opening /\ book'.horizon = book.horizon /\ book'.base = book.base
      /\ book'.ledger = book.ledger /\ \A s \in DOMAIN book.forks : book'.forks[s] = book.forks[s]
      /\ fork \in DOMAIN book'.forks => DOMAIN book'.forks[fork] \cap run.existing = {}
  BY <1>2 DEF OnlyAdds
<1>5. [book' EXCEPT !.forks = book.forks] = book
  BY <1>2, <1>3, <1>4 DEF IsBook
<1>6. \A i \in run.existing \cap DOMAIN book.base : Lines(book', fork)[i] = book.base[i]
  BY <1>4 DEF Lines, Over
<1> QED
  BY <1>4, <1>5, <1>6 DEF fork

(* SPEC 7.3, for any workbook and any answers of the model: a card that    *)
(* forks, however the book was moved before it was accepted, changes the   *)
(* base, the other scenarios and the shared ledger in nothing, and leaves  *)
(* the lines the import read as they were in the new scenario.             *)
THEOREM ForkedImportsOnlyAdd == Spec => ForkImportsOnlyAdd
<1>1. Init => ForkInv
  BY ForkStart
<1>2. ForkInv /\ [Next]_vars => ForkInv'
  BY ForkStep
<1>3. ForkInv /\ [Next]_vars => [OnlyTheFork]_vars
  BY AcceptsOnlyAdd
<1> QED
  BY <1>1, <1>2, <1>3, PTL DEF Spec, ForkImportsOnlyAdd, OnlyTheFork
-----------------------------------------------------------------------------
(* What an operation does to what a book has, and to its amounts.          *)
Measured(op) ==
    /\ op.op \in OpKinds /\ op.amount \in Int
    /\ op.op = "set_horizon" => op.from..(op.until - 1) \subseteq AllMonths
LineOps == {"add_item", "set_amount"}
Named(b, s) == DOMAIN Lines(b, s)

LEMMA OfferedAreMeasured ==
  \A target, existing : \A op \in Offered(target, existing) : Measured(op)
<1> SUFFICES ASSUME NEW target, NEW existing, NEW op \in Offered(target, existing)
             PROVE  Measured(op)
  OBVIOUS
<1>1. ASSUME NEW scenario, NEW o \in Stamped(scenario) PROVE Measured(o)
  <2>1. PICK i \in Intents, id \in Names : o = Name(Stamp(i, scenario), id)
    BY DEF Stamped
  <2>2. DOMAIN i = {"op", "id", "amount", "from", "until", "scenario"} /\ Measured(i)
    BY IntentsAreOperations DEF IsOperation, Measured
  <2>3. o.op = i.op /\ o.amount = i.amount /\ o.from = i.from /\ o.until = i.until
    BY <2>1, <2>2 DEF Name, Stamp
  <2> QED
    BY <2>2, <2>3 DEF Measured
<1>2. \A name : Measured(ForkScenario(name))
  BY DEF ForkScenario, Op, Measured, OpKinds
<1>3. \A amount \in Int : Measured(SetOpeningBalance(amount))
  BY DEF SetOpeningBalance, Op, Measured, OpKinds
<1>4. \A plan \in {p \in Plans : p.horizon # None} : Measured(SetHorizon(plan.horizon[1], plan.horizon[2]))
  BY PlansAreReadable DEF SetHorizon, Op, Measured, OpKinds
<1> QED
  BY <1>1, <1>2, <1>3, <1>4 DEF Offered, InFork, InBase

LEMMA LinesAreSeries ==
  ASSUME NEW b, IsCounted(b)
  PROVE  \A s : \A i \in Named(b, s) : Lines(b, s)[i] \in Series
<1> SUFFICES ASSUME NEW s, NEW i \in Named(b, s) PROVE Lines(b, s)[i] \in Series
  OBVIOUS
<1>1. CASE s \in DOMAIN b.forks
  BY <1>1 DEF Named, Lines, Over, IsCounted
<1>2. CASE s \notin DOMAIN b.forks
  BY <1>2 DEF Named, Lines, IsCounted
<1> QED
  BY <1>1, <1>2

LEMMA PutSeries ==
  ASSUME NEW f, \A x \in DOMAIN f : f[x] \in Series, NEW k, NEW line \in Series
  PROVE  \A x \in DOMAIN Put(f, k, line) : Put(f, k, line)[x] \in Series
<1>1. DOMAIN Put(f, k, line) = {k} \cup DOMAIN f
  BY Joined
<1>2. Put(f, k, line)[k] = line
  BY Joined
<1>3. \A x \in DOMAIN f : x # k => Put(f, k, line)[x] = f[x]
  BY Joined
<1> HIDE DEF Series
<1> QED
  BY <1>1, <1>2, <1>3

LEMMA LinePut ==
  ASSUME NEW b, IsBook(b), IsCounted(b), NEW scenario \in Scenarios(b), NEW id, NEW line \in Series
  PROVE  LET c == WithLine(b, scenario, id, line) IN
         /\ IsCounted(c) /\ Scenarios(c) = Scenarios(b) /\ c.ledger = b.ledger
         /\ \A s : Named(c, s) = Named(b, s) \cup (IF scenario \in {BaseScenario, s} THEN {id} ELSE {})
<1> DEFINE c == WithLine(b, scenario, id, line)
<1>1. CASE scenario = BaseScenario
  <2> DEFINE base == Put(b.base, id, line)
  <2>1. /\ c.base = base /\ c.opening = b.opening /\ c.horizon = b.horizon /\ c.forks = b.forks
        /\ c.ledger = b.ledger
    BY <1>1 DEF WithLine, IsBook
  <2>2. DOMAIN base = {id} \cup DOMAIN b.base
    BY Joined
  <2>3. \A i \in DOMAIN base : base[i] \in Series
    BY PutSeries DEF IsCounted
  <2> HIDE DEF c, base
  <2>4. IsCounted(c) /\ Scenarios(c) = Scenarios(b)
    BY <2>1, <2>3 DEF IsCounted, Scenarios
  <2>5. ASSUME NEW s PROVE Named(c, s) = Named(b, s) \cup {id}
    <3>1. CASE s \in DOMAIN b.forks
      BY <2>1, <2>2, <3>1 DEF Named, Lines, Over
    <3>2. CASE s \notin DOMAIN b.forks
      BY <2>1, <2>2, <3>2 DEF Named, Lines
    <3> QED
      BY <3>1, <3>2
  <2> QED
    BY <1>1, <2>1, <2>4, <2>5 DEF c
<1>2. CASE scenario # BaseScenario
  <2> DEFINE old == b.forks[scenario]
             fork == Put(old, id, line)
             forks == [b.forks EXCEPT ![scenario] = fork]
  <2>0. scenario \in DOMAIN b.forks
    BY <1>2 DEF Scenarios
  <2>1. c = [b EXCEPT !.forks = forks]
    BY <1>2 DEF WithLine
  <2>2. /\ c.base = b.base /\ c.opening = b.opening /\ c.horizon = b.horizon /\ c.forks = forks
        /\ c.ledger = b.ledger
    <3> HIDE DEF c, forks
    <3> QED
      BY <2>1 DEF IsBook
  <2>3. DOMAIN fork = {id} \cup DOMAIN old
    <3> HIDE DEF old
    <3> QED
      BY Joined
  <2>4. \A i \in DOMAIN fork : fork[i] \in Series
    <3>1. \A i \in DOMAIN old : old[i] \in Series
      BY <2>0 DEF IsCounted
    <3> HIDE DEF old
    <3> QED
      BY <3>1, PutSeries
  <2>5. /\ DOMAIN forks = DOMAIN b.forks /\ forks[scenario] = fork
        /\ \A s \in DOMAIN b.forks : s # scenario => forks[s] = b.forks[s]
    BY <2>0
  <2> HIDE DEF c, fork, forks
  <2>6. IsCounted(c) /\ Scenarios(c) = Scenarios(b)
    BY <2>2, <2>4, <2>5 DEF IsCounted, Scenarios
  <2>7. ASSUME NEW s PROVE Named(c, s) = Named(b, s) \cup (IF scenario = s THEN {id} ELSE {})
    <3>1. CASE s = scenario
      BY <2>0, <2>2, <2>3, <2>5, <3>1 DEF Named, Lines, Over
    <3>2. CASE s # scenario /\ s \in DOMAIN b.forks
      BY <2>2, <2>5, <3>2 DEF Named, Lines, Over
    <3>3. CASE s \notin DOMAIN b.forks
      BY <2>0, <2>2, <2>5, <3>3 DEF Named, Lines
    <3> QED
      BY <3>1, <3>2, <3>3
  <2> QED
    BY <1>2, <2>2, <2>6, <2>7 DEF c
<1> QED
  BY <1>1, <1>2

Opens(o) == IF o.op = "fork_scenario" THEN {o.id} ELSE {}
Posts(o, k) == IF o.op = "add_event" THEN {Entry(o, k)} ELSE {}
Writes(o, s) == IF o.op \in LineOps /\ o.scenario \in {BaseScenario, s} THEN {o.id} ELSE {}

LEMMA ApplyGrows ==
  ASSUME NEW b, IsBook(b), IsCounted(b), NEW o, Measured(o), NEW k, ~Refused(b, o, k)
  PROVE  LET c == ApplyOp(b, o, k) IN
         /\ IsCounted(c) /\ Scenarios(c) = Scenarios(b) \cup Opens(o) /\ c.ledger = b.ledger \cup Posts(o, k)
         /\ \A s : Named(c, s) = Named(b, s) \cup Writes(o, s)
<1> DEFINE c == ApplyOp(b, o, k)
<1>1. CASE o.op \in LineOps
  <2>1. o.scenario \in Scenarios(b) /\ (o.op = "set_amount" => o.id \in Named(b, o.scenario))
    BY <1>1 DEF Refused, LineOps, Named
  <2>2. PICK line \in Series : c = WithLine(b, o.scenario, o.id, line)
    <3>1. CASE o.op = "add_item"
      <4>1. Constantly(o.amount, o.from, o.until) \in Series
        BY DEF Constantly, Series, Measured
      <4> QED
        BY <3>1, <4>1 DEF ApplyOp
    <3>2. CASE o.op = "set_amount"
      <4> DEFINE line == Lines(b, o.scenario)[o.id]
      <4>1. line \in Series
        BY <2>1, <3>2, LinesAreSeries
      <4> HIDE DEF line
      <4>2. Amended(line, o) \in Series
        BY <4>1 DEF Amended, Series, Measured
      <4> QED
        BY <3>2, <4>2 DEF ApplyOp, line
    <3> QED
      BY <1>1, <3>1, <3>2 DEF LineOps
  <2>3. /\ IsCounted(c) /\ Scenarios(c) = Scenarios(b) /\ c.ledger = b.ledger
        /\ \A s : Named(c, s) = Named(b, s) \cup (IF o.scenario \in {BaseScenario, s} THEN {o.id} ELSE {})
    BY <2>1, <2>2, LinePut
  <2>4. Opens(o) = {} /\ Posts(o, k) = {}
    BY <1>1 DEF Opens, Posts, LineOps
  <2> QED
    BY <1>1, <2>3, <2>4 DEF Writes
<1>2. CASE o.op = "fork_scenario"
  <2> DEFINE none == <<>>
             old == b.forks
             forks == Put(old, o.id, none)
  <2>1. c = [b EXCEPT !.forks = forks]
    BY <1>2 DEF ApplyOp
  <2>2. /\ c.base = b.base /\ c.opening = b.opening /\ c.horizon = b.horizon /\ c.forks = forks
        /\ c.ledger = b.ledger
    <3> HIDE DEF c, forks
    <3> QED
      BY <2>1 DEF IsBook
  <2>3. DOMAIN none = {}
    BY Z3
  <2>4. o.id \notin DOMAIN old /\ o.id # BaseScenario
    BY <1>2 DEF Refused, Scenarios
  <2>5. /\ DOMAIN forks = {o.id} \cup DOMAIN old /\ forks[o.id] = none
        /\ \A s \in DOMAIN old : forks[s] = old[s]
    <3> DEFINE name == o.id
    <3>1. Put(old, name, none) = forks /\ name \notin DOMAIN old
      BY <2>4
    <3> HIDE DEF none, old, forks, name
    <3>2. DOMAIN Put(old, name, none) = {name} \cup DOMAIN old
      BY Joined
    <3>3. Put(old, name, none)[name] = none
      BY Joined
    <3>4. \A s \in DOMAIN old : s # name => Put(old, name, none)[s] = old[s]
      BY Joined
    <3> QED
      BY <3>1, <3>2, <3>3, <3>4 DEF name
  <2> HIDE DEF c, forks, none
  <2>6. IsCounted(c) /\ Scenarios(c) = Scenarios(b) \cup {o.id}
    BY <2>2, <2>3, <2>4, <2>5 DEF IsCounted, Scenarios
  <2>7. ASSUME NEW s PROVE Named(c, s) = Named(b, s)
    <3>1. CASE s = o.id
      BY <2>2, <2>3, <2>4, <2>5, <3>1 DEF Named, Lines, Over
    <3>2. CASE s # o.id /\ s \in DOMAIN old
      BY <2>2, <2>5, <3>2 DEF Named, Lines, Over
    <3>3. CASE s # o.id /\ s \notin DOMAIN old
      BY <2>2, <2>5, <3>3 DEF Named, Lines
    <3> QED
      BY <3>1, <3>2, <3>3
  <2>8. Opens(o) = {o.id} /\ Posts(o, k) = {} /\ \A s : Writes(o, s) = {}
    BY <1>2 DEF Opens, Posts, Writes, LineOps
  <2> QED
    BY <2>2, <2>6, <2>7, <2>8 DEF c
<1>3. CASE o.op = "add_event"
  <2>1. c = [b EXCEPT !.ledger = b.ledger \cup {Entry(o, k)}]
    BY <1>3 DEF ApplyOp
  <2>2. /\ c.base = b.base /\ c.opening = b.opening /\ c.horizon = b.horizon /\ c.forks = b.forks
        /\ c.ledger = b.ledger \cup {Entry(o, k)}
    BY <2>1 DEF IsBook
  <2> HIDE DEF c
  <2>3. IsFiniteSet(c.ledger) /\ \A e \in c.ledger : e.amount \in Int
    <3>1. IsFiniteSet(b.ledger) /\ \A e \in b.ledger : e.amount \in Int
      BY DEF IsCounted
    <3>2. IsFiniteSet(b.ledger \cup {Entry(o, k)})
      BY <3>1, FS_AddElement
    <3>3. Entry(o, k).amount \in Int
      BY DEF Entry, Measured
    <3> QED
      BY <2>2, <3>1, <3>2, <3>3
  <2>4. IsCounted(c)
    BY <2>2, <2>3 DEF IsCounted
  <2>5. Opens(o) = {} /\ Posts(o, k) = {Entry(o, k)} /\ \A s : Writes(o, s) = {}
    BY <1>3 DEF Opens, Posts, Writes, LineOps
  <2>6. Scenarios(c) = Scenarios(b) /\ \A s : Named(c, s) = Named(b, s)
    BY <2>2 DEF Scenarios, Named, Lines
  <2> QED
    BY <2>2, <2>4, <2>5, <2>6 DEF c
<1>4. CASE o.op \in {"set_opening_balance", "set_horizon"}
  <2>1. /\ c.base = b.base /\ c.forks = b.forks /\ c.ledger = b.ledger
        /\ c.opening \in Int /\ c.horizon \subseteq AllMonths
    <3>1. CASE o.op = "set_opening_balance"
      BY <3>1 DEF ApplyOp, IsBook, IsCounted, Measured
    <3>2. CASE o.op = "set_horizon"
      BY <3>2 DEF ApplyOp, IsBook, IsCounted, Measured
    <3> QED
      BY <1>4, <3>1, <3>2
  <2> HIDE DEF c
  <2>2. IsCounted(c)
    BY <2>1 DEF IsCounted
  <2>3. Opens(o) = {} /\ Posts(o, k) = {} /\ \A s : Writes(o, s) = {}
    BY <1>4 DEF Opens, Posts, Writes, LineOps
  <2>4. Scenarios(c) = Scenarios(b) /\ \A s : Named(c, s) = Named(b, s)
    BY <2>1 DEF Scenarios, Named, Lines
  <2> QED
    BY <2>1, <2>2, <2>3, <2>4 DEF c
<1> QED
  BY <1>1, <1>2, <1>3, <1>4 DEF Measured, OpKinds, LineOps
-----------------------------------------------------------------------------
(* What a book c has that has come from b; level with it where nothing was *)
(* added that could make an operation be refused.                          *)
Reaches(b, c) ==
    /\ Scenarios(b) \subseteq Scenarios(c) /\ b.ledger \subseteq c.ledger
    /\ \A s : Named(b, s) \subseteq Named(c, s)
Level(b, c) == Scenarios(b) = Scenarios(c) /\ b.ledger = c.ledger
Moved(b, c) == Reaches(b, c) /\ ~Level(b, c)
Clear(b, ops) == \A n \in 1 .. Len(ops) : ~Refused(Path(b, ops)[n - 1], ops[n], n)
Good(b) == IsBook(b) /\ IsCounted(b)

LEMMA ReachesOn == \A b, c, d : Reaches(b, c) /\ Reaches(c, d) => Reaches(b, d)
<1> SUFFICES ASSUME NEW b, NEW c, NEW d, Reaches(b, c), Reaches(c, d) PROVE Reaches(b, d)
  OBVIOUS
<1>1. \A s : Named(b, s) \subseteq Named(d, s)
  BY DEF Reaches
<1> QED
  BY <1>1 DEF Reaches

LEMMA MovedOn == \A b, c, d : Moved(b, c) /\ Reaches(c, d) => Moved(b, d)
<1> SUFFICES ASSUME NEW b, NEW c, NEW d, Moved(b, c), Reaches(c, d) PROVE Moved(b, d)
  OBVIOUS
<1>1. Reaches(b, d)
  BY ReachesOn DEF Moved
<1>2. ~Level(b, d)
  <2>1. Scenarios(b) \subseteq Scenarios(c) /\ Scenarios(c) \subseteq Scenarios(d)
        /\ b.ledger \subseteq c.ledger /\ c.ledger \subseteq d.ledger /\ ~Level(b, c)
    BY DEF Moved, Reaches
  <2> QED
    BY <2>1 DEF Level
<1> QED
  BY <1>1, <1>2 DEF Moved

LEMMA ReachesItself == \A b : Reaches(b, b) /\ Level(b, b)
BY DEF Reaches, Level

LEMMA ApplyReaches ==
  ASSUME NEW b, Good(b), NEW o, Measured(o), NEW k
  PROVE  Good(ApplyOp(b, o, k)) /\ Reaches(b, ApplyOp(b, o, k))
<1>1. CASE Refused(b, o, k)
  BY <1>1, ReachesItself DEF ApplyOp
<1>2. CASE ~Refused(b, o, k)
  <2> DEFINE c == ApplyOp(b, o, k)
  <2>1. /\ IsCounted(c) /\ Scenarios(c) = Scenarios(b) \cup Opens(o) /\ c.ledger = b.ledger \cup Posts(o, k)
        /\ \A s : Named(c, s) = Named(b, s) \cup Writes(o, s)
    BY <1>2, ApplyGrows DEF Good
  <2>2. IsBook(c)
    BY ApplyKeepsBooks DEF Good, Measured
  <2> HIDE DEF c
  <2>3. Reaches(b, c)
    BY <2>1 DEF Reaches
  <2> QED
    BY <2>1, <2>2, <2>3 DEF Good, c
<1> QED
  BY <1>1, <1>2

LEMMA ApplyKeepsLevel ==
  ASSUME NEW b, Good(b), NEW c, Good(c), Reaches(b, c), Level(b, c),
         NEW o, Measured(o), NEW k, Refused(b, o, k) => o.op = "add_event"
  PROVE  /\ Refused(c, o, k) => Refused(b, o, k)
         /\ Reaches(ApplyOp(b, o, k), ApplyOp(c, o, k)) /\ Level(ApplyOp(b, o, k), ApplyOp(c, o, k))
<1>1. CASE Refused(b, o, k)
  <2>1. o.op = "add_event" /\ Refused(c, o, k)
    BY <1>1 DEF Refused, Level, EventIds
  <2>2. ApplyOp(b, o, k) = b /\ ApplyOp(c, o, k) = c
    BY <1>1, <2>1 DEF ApplyOp
  <2> QED
    BY <1>1, <2>2
<1>2. CASE ~Refused(b, o, k)
  <2>1. ~Refused(c, o, k)
    <3>1. \A s : DOMAIN Lines(b, s) \subseteq DOMAIN Lines(c, s)
      BY DEF Reaches, Named
    <3>2. EventIds(c) = EventIds(b)
      BY DEF Level, EventIds
    <3> QED
      BY <1>2, <3>1, <3>2 DEF Refused, Level
  <2> DEFINE d == ApplyOp(b, o, k)
             e == ApplyOp(c, o, k)
  <2>2. /\ Scenarios(d) = Scenarios(b) \cup Opens(o) /\ d.ledger = b.ledger \cup Posts(o, k)
        /\ \A s : Named(d, s) = Named(b, s) \cup Writes(o, s)
    BY <1>2, ApplyGrows DEF Good
  <2>3. /\ Scenarios(e) = Scenarios(c) \cup Opens(o) /\ e.ledger = c.ledger \cup Posts(o, k)
        /\ \A s : Named(e, s) = Named(c, s) \cup Writes(o, s)
    BY <2>1, ApplyGrows DEF Good
  <2> HIDE DEF d, e
  <2>4. \A s : Named(d, s) \subseteq Named(e, s)
    <3>1. \A s : Named(b, s) \subseteq Named(c, s)
      BY DEF Reaches
    <3> QED
      BY <2>2, <2>3, <3>1
  <2>5. Reaches(d, e) /\ Level(d, e)
    BY <2>2, <2>3, <2>4 DEF Reaches, Level
  <2> QED
    BY <2>1, <2>5 DEF d, e
<1> QED
  BY <1>1, <1>2

LEMMA PathsReach ==
  ASSUME NEW b, Good(b), NEW ops, Len(ops) \in Nat, \A n \in 1 .. Len(ops) : Measured(ops[n])
  PROVE  \A n \in 0 .. Len(ops) : Good(Path(b, ops)[n]) /\ Reaches(b, Path(b, ops)[n])
<1> DEFINE f == Path(b, ops)
           Bad == {n \in 0 .. Len(ops) : ~(Good(f[n]) /\ Reaches(b, f[n]))}
<1>1. f[0] = b /\ \A n \in 1 .. Len(ops) : f[n] = ApplyOp(f[n - 1], ops[n], n)
  BY PathSteps
<1> HIDE DEF f
<1>2. SUFFICES ASSUME Bad # {} PROVE FALSE
  BY DEF f
<1>3. Bad \subseteq Nat
  OBVIOUS
<1>4. PICK m \in Bad : \A n \in Bad : m <= n
  <2> HIDE DEF Bad
  <2> QED
    BY <1>2, <1>3, LeastNatural
<1>5. m # 0
  BY <1>1, <1>4, ReachesItself
<1>6. m \in 1 .. Len(ops) /\ m - 1 \in 0 .. Len(ops) /\ m - 1 \notin Bad
  BY <1>4, <1>5
<1>7. Good(f[m - 1]) /\ Reaches(b, f[m - 1]) /\ Measured(ops[m]) /\ f[m] = ApplyOp(f[m - 1], ops[m], m)
  BY <1>1, <1>6
<1>8. Good(f[m]) /\ Reaches(f[m - 1], f[m])
  BY <1>7, ApplyReaches
<1>9. Reaches(b, f[m])
  BY <1>7, <1>8, ReachesOn
<1> QED
  BY <1>4, <1>8, <1>9

(* Operations of which a book refuses events only, and those for the place *)
(* they have in the list: the book had one there before.                   *)
Crowded(b, o, k) == o.op = "add_event" /\ EventId(o, k) \in EventIds(b)
OnlyPlacesFail(b, ops) ==
    \A n \in 1 .. Len(ops) : Refused(Path(b, ops)[n - 1], ops[n], n) => Crowded(b, ops[n], n)

(* What a book takes, one that is level with it takes.                     *)
LEMMA PlacesStay ==
  ASSUME NEW b, Good(b), NEW c, Good(c), Reaches(b, c), Level(b, c),
         NEW ops, Len(ops) \in Nat, \A n \in 1 .. Len(ops) : Measured(ops[n]), OnlyPlacesFail(b, ops)
  PROVE  OnlyPlacesFail(c, ops) /\ EventIds(c) = EventIds(b)
<1> DEFINE f == Path(b, ops)
           g == Path(c, ops)
           Bad == {n \in 0 .. Len(ops) : ~(Reaches(f[n], g[n]) /\ Level(f[n], g[n]))}
<1>1. /\ f[0] = b /\ \A n \in 1 .. Len(ops) : f[n] = ApplyOp(f[n - 1], ops[n], n)
      /\ g[0] = c /\ \A n \in 1 .. Len(ops) : g[n] = ApplyOp(g[n - 1], ops[n], n)
  BY PathSteps
<1>2. \A n \in 0 .. Len(ops) : Good(f[n]) /\ Good(g[n])
  BY PathsReach
<1>3. \A n \in 1 .. Len(ops) : Refused(f[n - 1], ops[n], n) => Crowded(b, ops[n], n)
  BY DEF OnlyPlacesFail
<1> HIDE DEF f, g
<1>4. ASSUME NEW n \in 1 .. Len(ops), n - 1 \notin Bad
      PROVE  (Refused(g[n - 1], ops[n], n) => Refused(f[n - 1], ops[n], n)) /\ n \notin Bad
  <2>1. n - 1 \in 0 .. Len(ops)
    OBVIOUS
  <2>2. /\ Good(f[n - 1]) /\ Good(g[n - 1]) /\ Reaches(f[n - 1], g[n - 1]) /\ Level(f[n - 1], g[n - 1])
        /\ Measured(ops[n]) /\ (Refused(f[n - 1], ops[n], n) => ops[n].op = "add_event")
    BY <1>2, <1>3, <1>4, <2>1 DEF Crowded
  <2>3. /\ Refused(g[n - 1], ops[n], n) => Refused(f[n - 1], ops[n], n)
        /\ Reaches(ApplyOp(f[n - 1], ops[n], n), ApplyOp(g[n - 1], ops[n], n))
        /\ Level(ApplyOp(f[n - 1], ops[n], n), ApplyOp(g[n - 1], ops[n], n))
    BY <2>2, ApplyKeepsLevel
  <2> QED
    BY <1>1, <2>3
<1>5. Bad = {}
  <2>1. SUFFICES ASSUME Bad # {} PROVE FALSE
    OBVIOUS
  <2>2. Bad \subseteq Nat
    OBVIOUS
  <2>3. PICK m \in Bad : \A n \in Bad : m <= n
    <3> HIDE DEF Bad
    <3> QED
      BY <2>1, <2>2, LeastNatural
  <2>4. m \in 1 .. Len(ops) /\ m - 1 \notin Bad
    <3>1. m # 0
      BY <1>1, <2>3
    <3> QED
      BY <2>3, <3>1
  <2> HIDE DEF Bad
  <2> QED
    BY <1>4, <2>3, <2>4
<1> HIDE DEF Bad
<1>6. EventIds(c) = EventIds(b)
  BY DEF Level, EventIds
<1>7. \A n \in 1 .. Len(ops) : Refused(g[n - 1], ops[n], n) => Crowded(c, ops[n], n)
  BY <1>3, <1>4, <1>5, <1>6 DEF Crowded
<1> QED
  BY <1>6, <1>7 DEF OnlyPlacesFail, g

(* No place is taken: every operation is.                                  *)
LEMMA FreePlacesClear ==
  ASSUME NEW b, NEW S, NEW ops \in Seq(S), OnlyPlacesFail(b, ops), ~TakenPlaces(b, ops)
  PROVE  Clear(b, ops)
<1>1. DOMAIN ops = 1 .. Len(ops)
  BY LenProperties
<1> QED
  BY <1>1 DEF OnlyPlacesFail, TakenPlaces, Crowded, Clear

(* A rehearsal tells which of the two it is, and keeps what it tried.      *)
Rehearsed(dry, b, ops) ==
    \/ dry.ok = TRUE /\ dry.ops = ops /\ ~TakenPlaces(b, ops)
    \/ /\ dry.ok = FALSE /\ TakenPlaces(b, ops) /\ TakenPlaces(b, dry.ops)
       /\ \E m \in 1 .. Len(ops) : dry.ops = SubSeq(ops, 1, m)

LEMMA DryRunTells ==
  ASSUME NEW b, Good(b), NEW S, NEW ops \in Seq(S), \A n \in 1 .. Len(ops) : Measured(ops[n]),
         OnlyPlacesFail(b, ops)
  PROVE  Rehearsed(DryRun(b, ops), b, ops)
<1> DEFINE ok == Outcomes(b, ops).ok
           bad == {n \in 1 .. Len(ops) : ~ok[n]}
           f == Path(b, ops)
           m == Min(bad)
           dry == DryRun(b, ops)
<1>1. Len(ops) \in Nat /\ DOMAIN ops = 1 .. Len(ops)
  BY LenProperties
<1>2. \A n \in 1 .. Len(ops) : n \in bad <=> Refused(f[n - 1], ops[n], n)
  <2>1. ok = [n \in 1 .. Len(ops) |-> ~Refused(f[n - 1], ops[n], n)]
    BY OutcomesArePaths
  <2> HIDE DEF ok, f
  <2> QED
    BY <2>1
<1>3. \A n \in 1 .. Len(ops) : Reaches(b, f[n - 1])
  <2>1. \A n \in 0 .. Len(ops) : Reaches(b, f[n])
    BY <1>1, PathsReach
  <2>2. \A n \in 1 .. Len(ops) : n - 1 \in 0 .. Len(ops)
    BY <1>1
  <2> HIDE DEF f
  <2> QED
    BY <2>1, <2>2
<1>4. dry = IF bad = {} THEN [ok |-> TRUE, ops |-> ops] ELSE [ok |-> FALSE, ops |-> SubSeq(ops, 1, m)]
  BY DEF DryRun
<1>5. bad \subseteq 1 .. Len(ops)
  OBVIOUS
<1> HIDE DEF bad, ok, f, dry
<1>6. CASE bad = {}
  <2>1. ASSUME TakenPlaces(b, ops) PROVE FALSE
    <3>1. PICK n \in 1 .. Len(ops) : ops[n].op = "add_event" /\ EventId(ops[n], n) \in EventIds(b)
      BY <1>1, <2>1 DEF TakenPlaces
    <3>2. EventId(ops[n], n) \in EventIds(f[n - 1])
      BY <1>3, <3>1 DEF Reaches, EventIds
    <3>3. Refused(f[n - 1], ops[n], n)
      BY <3>1, <3>2 DEF Refused
    <3> QED
      BY <1>2, <1>6, <3>3
  <2> QED
    BY <1>4, <1>6, <2>1 DEF Rehearsed, dry
<1>7. CASE bad # {}
  <2>0. bad \subseteq Nat
    BY <1>1, <1>5
  <2>1. m \in bad
    BY <1>7, <2>0, MinIsLeast
  <2>2. m \in 1 .. Len(ops) /\ Refused(f[m - 1], ops[m], m)
    BY <1>2, <1>5, <2>1
  <2> HIDE DEF m
  <2>3. Crowded(b, ops[m], m)
    BY <2>2 DEF OnlyPlacesFail, f
  <2>4. TakenPlaces(b, ops)
    BY <1>1, <2>2, <2>3 DEF TakenPlaces, Crowded
  <2>5. m \in DOMAIN SubSeq(ops, 1, m) /\ SubSeq(ops, 1, m)[m] = ops[m]
    <3>1. /\ m \in Int /\ 1 <= m
          /\ SubSeq(ops, 1, m) = [i \in 1 .. m |-> ops[i]]
      BY <2>2
    <3> QED
      BY <3>1
  <2>6. TakenPlaces(b, SubSeq(ops, 1, m))
    BY <2>3, <2>5 DEF TakenPlaces, Crowded
  <2>7. dry.ok = FALSE /\ dry.ops = SubSeq(ops, 1, m)
    BY <1>4, <1>7
  <2> QED
    BY <2>2, <2>4, <2>6, <2>7 DEF Rehearsed, dry
<1> QED
  BY <1>6, <1>7

(* The first of some operations, and one operation more.                   *)
LEMMA PathsBegin ==
  ASSUME NEW b, NEW ops, NEW more, Len(ops) \in Nat, Len(more) \in Nat, Len(ops) <= Len(more),
         \A n \in 1 .. Len(ops) : more[n] = ops[n]
  PROVE  /\ \A n \in 0 .. Len(ops) : Path(b, more)[n] = Path(b, ops)[n]
         /\ OnlyPlacesFail(b, more) => OnlyPlacesFail(b, ops)
<1> DEFINE f == Path(b, ops)
           g == Path(b, more)
           L == Len(ops)
           Bad == {n \in 0 .. L : g[n] # f[n]}
<1>1. /\ f[0] = b /\ \A n \in 1 .. L : f[n] = ApplyOp(f[n - 1], ops[n], n)
      /\ g[0] = b /\ \A n \in 1 .. Len(more) : g[n] = ApplyOp(g[n - 1], more[n], n)
  BY PathSteps
<1> HIDE DEF f, g
<1>2. Bad = {}
  <2>1. SUFFICES ASSUME Bad # {} PROVE FALSE
    OBVIOUS
  <2>2. Bad \subseteq Nat
    OBVIOUS
  <2>3. PICK m \in Bad : \A n \in Bad : m <= n
    <3> HIDE DEF Bad
    <3> QED
      BY <2>1, <2>2, LeastNatural
  <2>4. m \in 1 .. L /\ m \in 1 .. Len(more) /\ m - 1 \in 0 .. L /\ m - 1 \notin Bad
    <3>1. m # 0
      BY <1>1, <2>3
    <3> QED
      BY <2>3, <3>1
  <2>5. g[m] = f[m]
    BY <1>1, <2>4
  <2> QED
    BY <2>3, <2>5
<1>3. \A n \in 0 .. L : g[n] = f[n]
  BY <1>2
<1>4. ASSUME OnlyPlacesFail(b, more), NEW n \in 1 .. L, Refused(f[n - 1], ops[n], n)
      PROVE  Crowded(b, ops[n], n)
  <2>1. n \in 1 .. Len(more) /\ n - 1 \in 0 .. L
    OBVIOUS
  <2>2. more[n] = ops[n] /\ g[n - 1] = f[n - 1]
    BY <1>3, <2>1
  <2> QED
    BY <1>4, <2>1, <2>2 DEF OnlyPlacesFail, g
<1> QED
  BY <1>3, <1>4 DEF OnlyPlacesFail, f, g

LEMMA PathsExtend ==
  ASSUME NEW b, NEW ops, NEW more, Len(ops) \in Nat, Len(more) = Len(ops) + 1,
         \A n \in 1 .. Len(ops) : more[n] = ops[n], OnlyPlacesFail(b, ops),
         Refused(Path(b, ops)[Len(ops)], more[Len(more)], Len(more)) => Crowded(b, more[Len(more)], Len(more))
  PROVE  /\ Path(b, more)[Len(more)] = ApplyOp(Path(b, ops)[Len(ops)], more[Len(more)], Len(more))
         /\ OnlyPlacesFail(b, more)
<1> DEFINE f == Path(b, ops)
           g == Path(b, more)
           L == Len(ops)
           next == L + 1
<1>1. \A n \in 1 .. next : g[n] = ApplyOp(g[n - 1], more[n], n)
  BY PathSteps
<1>2. \A n \in 0 .. L : g[n] = f[n]
  BY PathsBegin
<1> HIDE DEF f, g
<1>3. next \in 1 .. next /\ next - 1 = L /\ L \in 0 .. L
  OBVIOUS
<1>4. g[next] = ApplyOp(g[L], more[next], next) /\ g[L] = f[L]
  BY <1>1, <1>2, <1>3
<1>5. ASSUME NEW n \in 1 .. next, Refused(g[n - 1], more[n], n) PROVE Crowded(b, more[n], n)
  <2>1. CASE n = next
    BY <1>3, <1>4, <1>5, <2>1 DEF f
  <2>2. CASE n # next
    <3>1. n \in 1 .. L /\ n - 1 \in 0 .. L
      BY <2>2
    <3>2. g[n - 1] = f[n - 1] /\ more[n] = ops[n]
      BY <1>2, <3>1
    <3> QED
      BY <1>5, <3>1, <3>2 DEF OnlyPlacesFail, f
  <2> QED
    BY <2>1, <2>2
<1>6. OnlyPlacesFail(b, more)
  BY <1>5 DEF OnlyPlacesFail, g
<1> QED
  BY <1>4, <1>6 DEF f, g
-----------------------------------------------------------------------------
(* What the entries of a month come to.                                    *)
AmountsOf(entries) == [e \in entries |-> e.amount]
OfMonth(b, m) == {e \in b.ledger : e.month = m}

LEMMA EntriesTotal ==
  ASSUME NEW entries, IsFiniteSet(entries)
  PROVE  MapThenSumSet(LAMBDA e : e.amount, entries) = TotalOf(AmountsOf(entries), entries)
<1> DEFINE S == entries
           f == AmountsOf(entries)
           Adding(F) == [s \in SUBSET S |-> IF s = {} THEN 0 ELSE Pick(s).amount + F[Rest(s)]]
           G == CHOOSE F : F = Adding(F)
<1>1. \A s \in SUBSET S : s # {} => f[Pick(s)] = Pick(s).amount
  BY PickIn DEF AmountsOf
<1>2. \A F : F = Adding(F) <=> AreTotals(F, f, S)
  BY <1>1 DEF AreTotals, Adds
<1>3. MapThenSumSet(LAMBDA e : e.amount, entries) = G[S]
  BY DEF MapThenSumSet, MapThenFoldSet, Pick, Rest
<1>4. AreTotals(G, f, S)
  <2> HIDE DEF Adding, f, S
  <2>1. \E F : F = Adding(F)
    BY <1>2, TotalsExist DEF S
  <2>2. G = Adding(G)
    BY <2>1
  <2> QED
    BY <1>2, <2>2
<1> HIDE DEF G, f
<1> QED
  BY <1>3, <1>4, SolvedTotal DEF f

MonthsTally(ledger) == [m \in AllMonths |-> MapThenSumSet(LAMBDA e : e.amount, {e \in ledger : e.month = m})]

LEMMA LedgersTally == \A b : Unattached(b) = MonthsTally(b.ledger)
BY DEF Unattached, MonthsTally, MapThenSumSet, MapThenFoldSet

LEMMA MonthTotal ==
  ASSUME NEW b, IsCounted(b), NEW m \in AllMonths
  PROVE  LET entries == OfMonth(b, m) IN
         /\ IsFiniteSet(entries) /\ \A e \in entries : AmountsOf(entries)[e] \in Int
         /\ Unattached(b)[m] = TotalOf(AmountsOf(entries), entries)
<1> DEFINE entries == {e \in b.ledger : e.month = m}
<1>1. IsFiniteSet(entries) /\ \A e \in entries : AmountsOf(entries)[e] \in Int
  BY FS_Subset DEF IsCounted, AmountsOf
<1>2. Unattached(b)[m] = MapThenSumSet(LAMBDA e : e.amount, entries)
  BY DEF Unattached, MapThenSumSet, MapThenFoldSet
<1>3. OfMonth(b, m) = entries
  BY DEF OfMonth
<1> HIDE DEF entries
<1>4. MapThenSumSet(LAMBDA e : e.amount, entries) = TotalOf(AmountsOf(entries), entries)
  BY <1>1, EntriesTotal
<1> QED
  BY <1>1, <1>2, <1>3, <1>4

LEMMA UnattachedCounts ==
  ASSUME NEW b, IsCounted(b), NEW m \in AllMonths
  PROVE  Unattached(b)[m] \in Int
BY MonthTotal, TotalIsInt

(* Books that differ in their ledgers only.                                *)
SameButLedger(b, c) ==
    c.opening = b.opening /\ c.horizon = b.horizon /\ c.base = b.base /\ c.forks = b.forks

LEMMA ApplyBeside ==
  ASSUME NEW b, Good(b), NEW c, Good(c), SameButLedger(b, c), NEW o, Measured(o), o.op # "add_event",
         NEW n, NEW k, ~Refused(b, o, n)
  PROVE  /\ ~Refused(c, o, k) /\ SameButLedger(ApplyOp(b, o, n), ApplyOp(c, o, k))
         /\ ApplyOp(b, o, n).ledger = b.ledger /\ ApplyOp(c, o, k).ledger = c.ledger
<1> DEFINE d == ApplyOp(b, o, n)
           e == ApplyOp(c, o, k)
<1>1. Scenarios(c) = Scenarios(b) /\ \A s : Lines(c, s) = Lines(b, s)
  BY DEF SameButLedger, Scenarios, Lines
<1>2. ~Refused(c, o, k)
  BY <1>1 DEF Refused
<1>3. d.ledger = b.ledger /\ e.ledger = c.ledger
  <2>1. Posts(o, n) = {} /\ Posts(o, k) = {}
    BY DEF Posts
  <2>2. d.ledger = b.ledger \cup Posts(o, n)
    BY ApplyGrows DEF Good
  <2>3. e.ledger = c.ledger \cup Posts(o, k)
    BY <1>2, ApplyGrows DEF Good
  <2> QED
    BY <2>1, <2>2, <2>3
<1>4. SameButLedger(d, e)
  <2>1. CASE o.op \in LineOps
    <3>1. \E line : d = WithLine(b, o.scenario, o.id, line) /\ e = WithLine(c, o.scenario, o.id, line)
      BY <1>1, <1>2, <2>1 DEF ApplyOp, LineOps
    <3>2. PICK line : d = WithLine(b, o.scenario, o.id, line) /\ e = WithLine(c, o.scenario, o.id, line)
      BY <3>1
    <3> HIDE DEF d, e
    <3>3. CASE o.scenario = BaseScenario
      <4> DEFINE base == Put(b.base, o.id, line)
      <4>1. Put(c.base, o.id, line) = base
        BY DEF SameButLedger
      <4>2. d = [b EXCEPT !.base = base] /\ e = [c EXCEPT !.base = base]
        BY <3>2, <3>3, <4>1 DEF WithLine
      <4> HIDE DEF base
      <4> QED
        BY <4>2 DEF SameButLedger, Good, IsBook
    <3>4. CASE o.scenario # BaseScenario
      <4> DEFINE forks == [b.forks EXCEPT ![o.scenario] = Put(@, o.id, line)]
      <4>1. [c.forks EXCEPT ![o.scenario] = Put(@, o.id, line)] = forks
        BY DEF SameButLedger
      <4>2. d = [b EXCEPT !.forks = forks] /\ e = [c EXCEPT !.forks = forks]
        BY <3>2, <3>4, <4>1 DEF WithLine
      <4> HIDE DEF forks
      <4> QED
        BY <4>2 DEF SameButLedger, Good, IsBook
    <3> QED
      BY <3>3, <3>4
  <2>2. CASE o.op = "fork_scenario"
    <3> DEFINE forks == Put(b.forks, o.id, <<>>)
    <3>1. Put(c.forks, o.id, <<>>) = forks
      BY DEF SameButLedger
    <3>2. d = [b EXCEPT !.forks = forks] /\ e = [c EXCEPT !.forks = forks]
      BY <1>2, <2>2, <3>1 DEF ApplyOp
    <3> HIDE DEF forks, d, e
    <3> QED
      BY <3>2 DEF SameButLedger, Good, IsBook
  <2>3. CASE o.op = "set_opening_balance"
    <3>1. d = [b EXCEPT !.opening = o.amount] /\ e = [c EXCEPT !.opening = o.amount]
      BY <1>2, <2>3 DEF ApplyOp
    <3> HIDE DEF d, e
    <3> QED
      BY <3>1 DEF SameButLedger, Good, IsBook
  <2>4. CASE o.op = "set_horizon"
    <3> DEFINE span == o.from..(o.until - 1)
    <3>1. d = [b EXCEPT !.horizon = span] /\ e = [c EXCEPT !.horizon = span]
      BY <1>2, <2>4 DEF ApplyOp
    <3> HIDE DEF d, e, span
    <3> QED
      BY <3>1 DEF SameButLedger, Good, IsBook
  <2> QED
    BY <2>1, <2>2, <2>3, <2>4 DEF Measured, OpKinds, LineOps
<1> QED
  BY <1>2, <1>3, <1>4

(* An event that is taken adds its amount to its month.                    *)
Raised(tally, o) == [m \in AllMonths |-> tally[m] + (IF m = o.from THEN o.amount ELSE 0)]

LEMMA EventLands ==
  ASSUME NEW b, Good(b), NEW o, Measured(o), o.op = "add_event", NEW n, ~Refused(b, o, n)
  PROVE  LET c == ApplyOp(b, o, n) IN
         /\ SameButLedger(b, c) /\ c.ledger = b.ledger \cup {Entry(o, n)}
         /\ Unattached(c) = Raised(Unattached(b), o)
<1> DEFINE c == ApplyOp(b, o, n)
           e == Entry(o, n)
<1>1. SameButLedger(b, c) /\ c.ledger = b.ledger \cup {e}
  <2>1. c = [b EXCEPT !.ledger = b.ledger \cup {e}]
    BY DEF ApplyOp
  <2> HIDE DEF c, e
  <2> QED
    BY <2>1 DEF SameButLedger, Good, IsBook
<1>2. IsCounted(c) /\ IsCounted(b)
  BY ApplyGrows DEF Good
<1>3. e \notin b.ledger /\ e.month = o.from /\ e.amount = o.amount /\ o.amount \in Int
  BY DEF Refused, EventIds, Entry, Measured
<1> HIDE DEF c, e
<1>4. ASSUME NEW m \in AllMonths
      PROVE  Unattached(c)[m] = Unattached(b)[m] + (IF m = o.from THEN o.amount ELSE 0)
  <2> DEFINE S == OfMonth(b, m)
             T == OfMonth(c, m)
             f == AmountsOf(S)
             g == AmountsOf(T)
  <2>1. /\ IsFiniteSet(S) /\ \A x \in S : f[x] \in Int
        /\ Unattached(b)[m] = TotalOf(f, S) /\ Unattached(b)[m] \in Int
    BY <1>2, MonthTotal, UnattachedCounts
  <2>2. IsFiniteSet(T) /\ (\A x \in T : g[x] \in Int) /\ Unattached(c)[m] = TotalOf(g, T)
    BY <1>2, MonthTotal
  <2>3. CASE m = o.from
    <3>1. T = S \cup {e} /\ e \in T /\ T \ {e} = S /\ g[e] = o.amount
      BY <1>1, <1>3, <2>3 DEF OfMonth, AmountsOf
    <3>2. \A x \in S : f[x] \in Int /\ g[x] = f[x]
      BY <2>1, <3>1 DEF AmountsOf
    <3> HIDE DEF S, T, f, g
    <3>3. TotalOf(g, T) = g[e] + TotalOf(g, T \ {e})
      BY <2>2, <3>1, TotalTakes
    <3>4. TotalOf(f, S) = TotalOf(g, S)
      BY <2>1, <3>2, TotalsAgreeing
    <3>5. Unattached(c)[m] = o.amount + Unattached(b)[m]
      BY <2>1, <2>2, <3>1, <3>3, <3>4
    <3> QED
      BY <1>3, <2>1, <2>3, <3>5
  <2>4. CASE m # o.from
    <3>1. T = S
      BY <1>1, <1>3, <2>4 DEF OfMonth
    <3>2. Unattached(c)[m] = Unattached(b)[m]
      BY <2>1, <2>2, <3>1
    <3> QED
      BY <2>1, <2>4, <3>2
  <2> QED
    BY <2>3, <2>4
<1>5. Unattached(c) = Raised(Unattached(b), o)
  <2>1. Unattached(c) = [m \in AllMonths |-> Unattached(c)[m]]
    BY DEF Unattached
  <2> DEFINE u == Unattached(c)
             v == Unattached(b)
  <2>2. u = [m \in AllMonths |-> u[m]]
    BY <2>1
  <2>3. \A m \in AllMonths : u[m] = v[m] + (IF m = o.from THEN o.amount ELSE 0)
    BY <1>4
  <2> HIDE DEF u, v
  <2>4. u = Raised(v, o)
    BY <2>2, <2>3 DEF Raised
  <2> QED
    BY <2>4 DEF u, v
<1> QED
  BY <1>1, <1>5 DEF c, e

(* Two books from one, g along k of the operations that f was led along:   *)
(* what g has in its ledger is b's, or was put there under its place or    *)
(* under an identity of its own.                                           *)
Beside(b, f, g, k) ==
    /\ Good(f) /\ Good(g) /\ SameButLedger(f, g)
    /\ \A e \in g.ledger : e \in b.ledger \/ e.id[1] \in 1 .. k \/ (e.id[1] = 0 /\ e.id \in EventIds(f))

LEMMA BesideStep ==
  ASSUME NEW b, NEW f, NEW g, NEW k \in Nat, Beside(b, f, g, k),
         NEW o, Measured(o), NEW n, ~Refused(f, o, n)
  PROVE  LET d == ApplyOp(f, o, n)
             e == ApplyOp(g, o, k + 1)
         IN  /\ Beside(b, d, e, k + 1)
             /\ Refused(g, o, k + 1) => Crowded(b, o, k + 1)
             /\ ~Refused(g, o, k + 1) /\ Unattached(f) = Unattached(g) => Unattached(d) = Unattached(e)
<1> DEFINE d == ApplyOp(f, o, n)
           next == k + 1
           e == ApplyOp(g, o, next)
<1>1. /\ Good(f) /\ Good(g) /\ SameButLedger(f, g)
      /\ \A x \in g.ledger : x \in b.ledger \/ x.id[1] \in 1 .. k \/ (x.id[1] = 0 /\ x.id \in EventIds(f))
  BY DEF Beside
<1>2. next \in 1 .. next /\ next \notin 1 .. k /\ next # 0 /\ 0 \notin 1 .. k /\ 1 .. k \subseteq 1 .. next
  OBVIOUS
<1> HIDE DEF next
<1>3. Good(d) /\ Good(e)
  BY <1>1, ApplyReaches
<1>4. CASE o.op # "add_event"
  <2>1. /\ ~Refused(g, o, next) /\ SameButLedger(d, e) /\ d.ledger = f.ledger /\ e.ledger = g.ledger
    BY <1>1, <1>4, ApplyBeside
  <2> HIDE DEF d, e
  <2>2. Beside(b, d, e, next)
    BY <1>1, <1>2, <1>3, <2>1 DEF Beside, EventIds
  <2>3. Unattached(f) = Unattached(g) => Unattached(d) = Unattached(e)
    <3>1. Unattached(d) = Unattached(f) /\ Unattached(e) = Unattached(g)
      BY <2>1, LedgersTally
    <3> QED
      BY <3>1
  <2> QED
    BY <2>1, <2>2, <2>3 DEF d, e, next
<1>5. CASE o.op = "add_event"
  <2>1. /\ SameButLedger(f, d) /\ d.ledger = f.ledger \cup {Entry(o, n)}
        /\ Unattached(d) = Raised(Unattached(f), o)
    BY <1>1, <1>5, EventLands
  <2>2. EventId(o, n) \notin EventIds(f)
    BY <1>5 DEF Refused
  <2>3. /\ \/ EventId(o, next)[1] = 0 /\ EventId(o, next) = EventId(o, n)
           \/ EventId(o, next)[1] = next
        /\ Entry(o, next).id = EventId(o, next) /\ Entry(o, n).id = EventId(o, n)
    BY DEF EventId, Entry
  <2>4. Refused(g, o, next) => Crowded(b, o, next)
    <3>1. SUFFICES ASSUME Refused(g, o, next) PROVE Crowded(b, o, next)
      OBVIOUS
    <3>2. PICK x \in g.ledger : x.id = EventId(o, next)
      BY <1>5, <3>1 DEF Refused, EventIds
    <3>3. x \in b.ledger
      BY <1>1, <1>2, <2>2, <2>3, <3>2
    <3> QED
      BY <1>5, <3>2, <3>3 DEF Crowded, EventIds
  <2>5. EventIds(d) = EventIds(f) \cup {EventId(o, n)}
    BY <2>1, <2>3 DEF EventIds
  <2>6. CASE Refused(g, o, next)
    <3>1. e = g
      BY <2>6 DEF ApplyOp
    <3> HIDE DEF d, e
    <3>2. SameButLedger(d, e)
      BY <1>1, <2>1, <3>1 DEF SameButLedger
    <3>3. Beside(b, d, e, next)
      BY <1>1, <1>2, <1>3, <2>5, <3>1, <3>2 DEF Beside
    <3> QED
      BY <2>4, <2>6, <3>3 DEF d, e, next
  <2>7. CASE ~Refused(g, o, next)
    <3>1. /\ SameButLedger(g, e) /\ e.ledger = g.ledger \cup {Entry(o, next)}
          /\ Unattached(e) = Raised(Unattached(g), o)
      BY <1>1, <1>5, <2>7, EventLands
    <3> HIDE DEF d, e
    <3>2. SameButLedger(d, e)
      BY <1>1, <2>1, <3>1 DEF SameButLedger
    <3>3. ASSUME NEW x \in e.ledger
          PROVE  x \in b.ledger \/ x.id[1] \in 1 .. next \/ (x.id[1] = 0 /\ x.id \in EventIds(d))
      <4>1. CASE x \in g.ledger
        BY <1>1, <1>2, <2>5, <4>1
      <4>2. CASE x = Entry(o, next)
        BY <1>2, <2>3, <2>5, <4>2
      <4> QED
        BY <3>1, <4>1, <4>2
    <3>4. Beside(b, d, e, next)
      BY <1>3, <3>2, <3>3 DEF Beside
    <3>5. Unattached(f) = Unattached(g) => Unattached(d) = Unattached(e)
      BY <2>1, <3>1
    <3> QED
      BY <2>4, <2>7, <3>4, <3>5 DEF d, e, next
  <2> QED
    BY <2>6, <2>7
<1> QED
  BY <1>4, <1>5

(* Without what a book refused on the way, operations lead to the same     *)
(* book but for the names of its events, and it refuses none of them but   *)
(* an event that now has the place of another.                             *)
LEMMA CleanPaths ==
  ASSUME NEW b, Good(b), NEW S, \A op \in S : Measured(op), NEW ops \in Seq(S),
         NEW kept, kept = AppliedCleanly(ops, Outcomes(b, ops).ok)
  PROVE  /\ kept \in Seq(S) /\ OnlyPlacesFail(b, kept)
         /\ SameButLedger(Path(b, ops)[Len(ops)], Path(b, kept)[Len(kept)])
         /\ ~TakenPlaces(b, kept) =>
               Unattached(Path(b, ops)[Len(ops)]) = Unattached(Path(b, kept)[Len(kept)])
<1> DEFINE L == Len(ops)
           f == Path(b, ops)
           ok == Outcomes(b, ops).ok
           refused == {n \in DOMAIN ok : ~ok[n]}
           K == Picked(ops, refused)
           Alike(s, fn) == LET g == Path(b, s)[Len(s)] IN
                           /\ s \in Seq(S) /\ OnlyPlacesFail(b, s) /\ Beside(b, fn, g, Len(s))
                           /\ ~TakenPlaces(b, s) => Unattached(fn) = Unattached(g)
           Same(n) == Alike(K[1 .. n], f[n])
           Bad == {n \in 0 .. L : ~Same(n)}
<1>1. L \in Nat /\ DOMAIN ops = 1 .. L /\ \A n \in 1 .. L : ops[n] \in S
  BY LenProperties, ElementOfSeq
<1>2. DOMAIN Places(ops) = 1 .. L /\ \A n \in 1 .. L : Places(ops)[n] = n
  BY <1>1 DEF Places
<1>3. \A n \in 1 .. L : n \in refused <=> Refused(f[n - 1], ops[n], n)
  <2>1. ok = [n \in 1 .. L |-> ~Refused(f[n - 1], ops[n], n)]
    BY OutcomesArePaths
  <2> HIDE DEF ok, f, L
  <2> QED
    BY <2>1
<1>4. f[0] = b /\ \A n \in 1 .. L : f[n] = ApplyOp(f[n - 1], ops[n], n)
  BY <1>1, PathSteps
<1> HIDE DEF f, ok, refused
<1>5. \A s \in SUBSET (1 .. L) : K[s] = IF s = {} THEN <<>> ELSE Kept(K[s \ {Max(s)}], ops, refused, Places(ops)[Max(s)])
  <2>1. IsKept(K, ops, refused)
    BY KeepsIs
  <2> HIDE DEF K, L
  <2> QED
    BY <1>2, <2>1 DEF IsKept
<1> HIDE DEF K, L
<1>6. Same(0)
  <2>1. 1 .. 0 = {} /\ 1 .. 0 \in SUBSET (1 .. L)
    OBVIOUS
  <2>2. K[1 .. 0] = <<>>
    BY <1>5, <2>1
  <2> DEFINE s == <<>>
  <2>3. s \in Seq(S) /\ Len(s) = 0 /\ DOMAIN s = {} /\ 1 .. Len(s) = {}
    BY Z3
  <2>4. K[1 .. 0] = s
    BY <2>2
  <2> HIDE DEF s
  <2>5. Path(b, s)[0] = b
    BY <2>3, PathSteps
  <2>6. OnlyPlacesFail(b, s)
    BY <2>3 DEF OnlyPlacesFail
  <2>7. Beside(b, b, b, 0)
    BY DEF Beside, SameButLedger
  <2> QED
    BY <1>4, <2>3, <2>4, <2>5, <2>6, <2>7
<1>7. ASSUME NEW n \in 1 .. L, Same(n - 1) PROVE Same(n)
  <2> DEFINE old == K[1 .. n - 1]
             new == K[1 .. n]
             o == ops[n]
             g == Path(b, old)[Len(old)]
  <2>1. Max(1 .. n) = n
    <3> DEFINE s == 1 .. n
    <3>1. s \in SUBSET (1 .. L) /\ s # {} /\ L \in Nat /\ n \in s
      <4>1. L \in Nat /\ n \in Nat /\ 1 <= n /\ n <= L
        BY <1>1
      <4>2. n \in 1 .. n
        BY <4>1
      <4>3. \A k \in 1 .. n : k \in 1 .. L
        BY <4>1
      <4> QED
        BY <4>1, <4>2, <4>3
    <3> HIDE DEF s
    <3>2. Max(s) \in s /\ \A k \in s : k <= Max(s)
      BY <3>1, MaxIsLargest
    <3> QED
      BY <3>1, <3>2 DEF s
  <2>2. (1 .. n) \ {n} = 1 .. n - 1 /\ 1 .. n # {} /\ 1 .. n \in SUBSET (1 .. L)
    <3>1. L \in Nat /\ n \in Nat /\ 1 <= n /\ n <= L
      BY <1>1
    <3> HIDE DEF old, new, o, g, Same, Alike, Bad
    <3>2. (1 .. n) \ {n} = 1 .. n - 1 /\ n \in 1 .. n
      BY <3>1
    <3>3. \A i \in 1 .. n : i \in 1 .. L
      BY <3>1
    <3> QED
      BY <3>2, <3>3
  <2>3. new = Kept(old, ops, refused, n)
    BY <1>2, <1>5, <2>1, <2>2
  <2>4. /\ old \in Seq(S) /\ OnlyPlacesFail(b, old) /\ Beside(b, f[n - 1], g, Len(old))
        /\ ~TakenPlaces(b, old) => Unattached(f[n - 1]) = Unattached(g)
    BY <1>7
  <2>a. o \in S /\ Measured(o)
    BY <1>1
  <2>5. CASE n \in refused
    <3>1. f[n] = f[n - 1]
      BY <1>3, <1>4, <2>5 DEF ApplyOp
    <3>2. new = old
      BY <2>3, <2>5 DEF Kept
    <3> QED
      BY <1>7, <3>1, <3>2
  <2>6. CASE n \notin refused
    <3> DEFINE k == Len(old)
    <3>1. new = Append(old, o)
      BY <2>3, <2>6 DEF Kept
    <3> HIDE DEF old, new, o
    <3>2. /\ new \in Seq(S) /\ k \in Nat /\ Len(new) = k + 1 /\ new[k + 1] = o
          /\ DOMAIN old = 1 .. k /\ DOMAIN new = 1 .. k + 1
          /\ \A i \in 1 .. k : new[i] = old[i]
      BY <2>4, <2>a, <3>1, AppendProperties, LenProperties
    <3>3. ~Refused(f[n - 1], o, n) /\ f[n] = ApplyOp(f[n - 1], o, n)
      BY <1>3, <1>4, <2>6 DEF o
    <3>4. /\ Beside(b, f[n], ApplyOp(g, o, k + 1), k + 1)
          /\ Refused(g, o, k + 1) => Crowded(b, o, k + 1)
          /\ ~Refused(g, o, k + 1) /\ Unattached(f[n - 1]) = Unattached(g) =>
                Unattached(f[n]) = Unattached(ApplyOp(g, o, k + 1))
      <4> DEFINE fn == f[n - 1]
      <4>1. /\ Beside(b, fn, g, k) /\ k \in Nat /\ Measured(o) /\ ~Refused(fn, o, n)
            /\ f[n] = ApplyOp(fn, o, n)
        BY <2>4, <2>a, <3>2, <3>3
      <4> HIDE DEF fn, g, k
      <4>2. LET d == ApplyOp(fn, o, n)
                e == ApplyOp(g, o, k + 1)
            IN  /\ Beside(b, d, e, k + 1)
                /\ Refused(g, o, k + 1) => Crowded(b, o, k + 1)
                /\ ~Refused(g, o, k + 1) /\ Unattached(fn) = Unattached(g) => Unattached(d) = Unattached(e)
        BY <4>1, BesideStep
      <4> QED
        BY <4>1, <4>2 DEF fn
    <3>5. /\ Path(b, new)[k + 1] = ApplyOp(g, o, k + 1) /\ OnlyPlacesFail(b, new)
      <4>1. /\ Len(old) \in Nat /\ Len(new) = Len(old) + 1 /\ OnlyPlacesFail(b, old)
            /\ \A i \in 1 .. Len(old) : new[i] = old[i]
            /\ Refused(Path(b, old)[Len(old)], new[Len(new)], Len(new)) => Crowded(b, new[Len(new)], Len(new))
        BY <2>4, <3>2, <3>4
      <4>2. /\ Path(b, new)[Len(new)] = ApplyOp(Path(b, old)[Len(old)], new[Len(new)], Len(new))
            /\ OnlyPlacesFail(b, new)
        BY <4>1, PathsExtend
      <4> QED
        BY <3>2, <4>2
    <3>6. ~TakenPlaces(b, new) => Unattached(f[n]) = Unattached(Path(b, new)[k + 1])
      <4>1. SUFFICES ASSUME ~TakenPlaces(b, new) PROVE Unattached(f[n]) = Unattached(Path(b, new)[k + 1])
        OBVIOUS
      <4>2. k + 1 \in 1 .. k + 1 /\ \A i \in 1 .. k : i \in 1 .. k + 1
        BY <3>2
      <4>3. ~Crowded(b, o, k + 1)
        BY <3>2, <4>1, <4>2 DEF TakenPlaces, Crowded
      <4>4. ~TakenPlaces(b, old)
        BY <3>2, <4>1, <4>2 DEF TakenPlaces
      <4> QED
        BY <2>4, <3>4, <3>5, <4>3, <4>4
    <3> HIDE DEF k
    <3>7. Alike(new, f[n])
      BY <3>2, <3>4, <3>5, <3>6
    <3> QED
      BY <3>7 DEF new
  <2> QED
    BY <2>5, <2>6
<1> HIDE DEF Same
<1>8. Bad = {}
  <2>1. SUFFICES ASSUME Bad # {} PROVE FALSE
    OBVIOUS
  <2>2. Bad \subseteq Nat
    BY <1>1
  <2>3. PICK m \in Bad : \A n \in Bad : m <= n
    <3> HIDE DEF Bad
    <3> QED
      BY <2>1, <2>2, LeastNatural
  <2>4. m \in 1 .. L /\ m - 1 \in 0 .. L /\ m - 1 \notin Bad
    <3>1. m # 0
      BY <1>6, <2>3
    <3> QED
      BY <1>1, <2>3, <3>1
  <2>5. Same(m)
    BY <1>7, <2>4
  <2> QED
    BY <2>3, <2>5
<1>9. Same(L)
  BY <1>1, <1>8
<1>10. kept = K[1 .. L]
  BY <1>2, WithoutKeeps DEF AppliedCleanly, K, refused, ok
<1> QED
  BY <1>9, <1>10 DEF Same, Beside, L, f

(* The figures of a book, but for the names of its events.                 *)
FiguresMade(lines, unattached, opening, horizon) ==
    LET Up(n) == IF n > 0 THEN n ELSE 0
        In(m) == Up(unattached[m]) + MapThenSumSet(LAMBDA i : Up(lines[i][m]), DOMAIN lines)
        Out(m) == -Up(-unattached[m]) - MapThenSumSet(LAMBDA i : Up(-lines[i][m]), DOMAIN lines)
        Net(m) == In(m) + Out(m)
    IN  [basis |-> "absolute", months |-> horizon,
         inflow |-> [m \in horizon |-> In(m)],
         outflow |-> [m \in horizon |-> Out(m)],
         net |-> [m \in horizon |-> Net(m)],
         closing |-> [m \in horizon |-> opening + MapThenSumSet(Net, {n \in horizon : n <= m})],
         perItem |-> lines]

LEMMA FiguresAlike ==
  ASSUME NEW b, NEW c, SameButLedger(b, c), Unattached(b) = Unattached(c), NEW target
  PROVE  FiguresFor(b, target) = FiguresFor(c, target)
<1>1. \A d, s : FiguresOf(d, s) = FiguresMade(Lines(d, s), Unattached(d), d.opening, d.horizon)
  BY DEF FiguresOf, FiguresMade
<1>2. \A s : Lines(b, s) = Lines(c, s)
  BY DEF Lines, SameButLedger
<1>3. \A s : FiguresOf(b, s) = FiguresOf(c, s)
  BY <1>1, <1>2 DEF SameButLedger
<1> QED
  BY <1>3 DEF FiguresFor
-----------------------------------------------------------------------------
(* The report is of the book as it was when it was made.  Since then that  *)
(* book has only been added to; and the card applies to it, then it is all *)
(* that the report carries and no event's place is taken, or one is, or    *)
(* the book had moved.                                                     *)
PreReport == {"off", "opening", "reading", "planning", "authoring", "reconciling", "revising", "finishing"}
ChecksOK(checks) == IsList(checks) /\ \A n \in DOMAIN checks : IsCheck(checks[n])
ReportOf(r) ==
    LET ops == Operations(r.prelude, r.sections)
        result == Reconciled(r.reported, r.target, ops, Sheet, EffectiveChecks(r.checks, r.renames))
    IN  /\ r.rows = result.rows /\ r.carried = AppliedCleanly(ops, result.ok)
        /\ r.status = "done" => ~(CountOf(r.rows, "mismatched") > 0)
        /\ Good(r.reported)
CardFollows(c, r, b) ==
    \/ c = NoCard
    \/ c.ok = TRUE /\ c.ops = r.carried /\ ~TakenPlaces(r.reported, r.carried)
    \/ /\ c.ok = FALSE /\ OnlyPlacesFail(r.reported, c.ops)
       /\ TakenPlaces(r.reported, c.ops) /\ TakenPlaces(r.reported, r.carried)
    \/ Moved(r.reported, c.stamp) /\ Moved(r.reported, b)

HonestInv ==
    /\ ForkInv /\ IsCounted(book)
    /\ ChecksOK(run.checks)
    /\ run.at \in PreReport => run.reported = None /\ card = NoCard
    /\ run.reported # None => /\ ReportOf(run) /\ Reaches(run.reported, book)
                              /\ CardFollows(card, run, book)

LEMMA HonestStart == Init => HonestInv
<1> SUFFICES ASSUME Init PROVE HonestInv
  OBVIOUS
<1>1. ForkInv
  BY ForkStart
<1>2. IsCounted(book) /\ run.checks = <<>> /\ run.reported = None /\ card = NoCard
  BY BooksAreBooks DEF Init
<1>3. IsList(<<>>) /\ DOMAIN <<>> = {}
  BY Z3 DEF IsList
<1> QED
  BY <1>1, <1>2, <1>3 DEF HonestInv, ChecksOK

(* Before there is a report.                                               *)
LEMMA EarlyKeeps ==
  ASSUME HonestInv, ForkInv', run.at \in PreReport, book' = book, card' = card,
         run'.reported = run.reported, ChecksOK(run'.checks)
  PROVE  HonestInv'
BY DEF HonestInv

(* Once there is one, the task only moves on.                              *)
ReportFields == {"prelude", "sections", "target", "checks", "renames", "rows", "carried", "reported"}
LEMMA LateKeeps ==
  ASSUME HonestInv, ForkInv', run.at \notin PreReport, run'.at \notin PreReport,
         \A f \in ReportFields : run'[f] = run[f], run'.status \in {run.status, "failed"}, Good(book'),
         run.reported # None => Reaches(run.reported, book') /\ CardFollows(card', run, book')
  PROVE  HonestInv'
<1>1. /\ run'.prelude = run.prelude /\ run'.sections = run.sections /\ run'.target = run.target
      /\ run'.checks = run.checks /\ run'.renames = run.renames /\ run'.rows = run.rows
      /\ run'.carried = run.carried /\ run'.reported = run.reported
  BY DEF ReportFields
<1>2. ReportOf(run) => ReportOf(run')
  BY <1>1 DEF ReportOf
<1>3. CardFollows(card', run, book') => CardFollows(card', run', book')
  BY <1>1 DEF CardFollows
<1> QED
  BY <1>1, <1>2, <1>3 DEF HonestInv, Good

LEMMA PlansHaveChecks ==
  ASSUME NEW plan \in Plans
  PROVE  ChecksOK(plan.checks)
<1>1. IsList(plan.checks) /\ \A check \in ToSet(plan.checks) : IsCheck(check)
  BY PlansAreReadable
<1> QED
  BY <1>1 DEF ChecksOK, ToSet

LEMMA EarlySteps ==
  ASSUME HonestInv, ForkInv', run.at \in PreReport,
         \/ Post \/ Open \/ ReadBook \/ StopAsking \/ Fails \/ PlanSections \/ Author \/ Reconcile \/ Revise
         \/ Shutdown
  PROVE  HonestInv'
<1> DEFINE Early == book' = book /\ card' = card /\ run'.reported = run.reported /\ ChecksOK(run'.checks)
<1>1. DOMAIN run = RunFields /\ ChecksOK(run.checks)
  BY DEF HonestInv, ForkInv, ListsOK
<1>2. ASSUME Post \/ Open \/ ReadBook \/ StopAsking \/ Fails \/ Shutdown PROVE Early
  <2>1. book' = book /\ card' = card
    BY <1>2 DEF Post, Open, ReadBook, StopAsking, Fails, Shutdown
  <2>2. run'.reported = run.reported /\ run'.checks = run.checks
    BY <1>1, <1>2 DEF Post, Open, ReadBook, StopAsking, Fails, Shutdown, RunFields
  <2> QED
    BY <1>1, <2>1, <2>2
<1>3. ASSUME PlanSections PROVE Early
  <2>1. PICK plan \in Plans, calls \in 1 .. MaxCalls :
           run' = [run EXCEPT !.at = "authoring", !.calls = calls, !.checks = plan.checks,
                              !.sections = [n \in 1 .. plan.sections |-> <<>>], !.k = 1,
                              !.prelude = PreludeFrom(Sheet, run.target, plan)]
    BY <1>3 DEF PlanSections
  <2>2. book' = book /\ card' = card
    BY <1>3 DEF PlanSections
  <2>3. run'.reported = run.reported /\ run'.checks = plan.checks
    BY <1>1, <2>1 DEF RunFields
  <2> QED
    BY <2>2, <2>3, PlansHaveChecks
<1>4. ASSUME Author PROVE Early
  <2>1. PICK answer \in Answers, calls \in 1 .. MaxCalls :
           LET taken == Accept(run, run.existing, run.target, answer)
           IN  run' = [run EXCEPT !.at = "reconciling", !.calls = calls, !.round = 0,
                                  !.sections[run.k] = taken.accepted,
                                  !.renames = taken.renames, !.authored = taken.authored]
    BY <1>4 DEF Author
  <2>2. book' = book /\ card' = card
    BY <1>4 DEF Author
  <2>3. run'.reported = run.reported /\ run'.checks = run.checks
    BY <1>1, <2>1 DEF RunFields
  <2> QED
    BY <1>1, <2>2, <2>3
<1>5. ASSUME Reconcile PROVE Early
  <2> DEFINE checks == EffectiveChecks(run.checks, run.renames)
             ops == Operations(run.prelude, run.sections)
             result == Reconciled(book, run.target, ops, Sheet, checks)
             new == DropRefused(run.prelude, run.sections, run.k, result.ok)
             dropped == [run EXCEPT !.sections = new]
  <2>1. /\ book' = book /\ card' = card
        /\ \/ run' = AfterSection(run) \/ run' = AfterSection(dropped)
           \/ run' = [run EXCEPT !.at = "revising", !.ok = result.ok]
    BY <1>5 DEF Reconcile, At
  <2> HIDE DEF result, new
  <2>2. /\ DOMAIN dropped = RunFields /\ dropped.reported = run.reported /\ dropped.checks = run.checks
    BY <1>1 DEF RunFields
  <2> HIDE DEF dropped
  <2>3. \A r : DOMAIN r = RunFields =>
           AfterSection(r).reported = r.reported /\ AfterSection(r).checks = r.checks
    BY AfterSectionStays DEF RunFields
  <2>4. run'.reported = run.reported /\ run'.checks = run.checks
    BY <1>1, <2>1, <2>2, <2>3 DEF RunFields
  <2> QED
    BY <1>1, <2>1, <2>4
<1>6. ASSUME Revise PROVE Early
  <2>1. PICK answer \in Answers, calls \in 1 .. MaxCalls :
           LET taken == Accept(run, run.existing, run.target, answer)
               named == [run EXCEPT !.renames = taken.renames, !.authored = taken.authored,
                                    !.calls = calls, !.ok = <<>>]
           IN  \/ run' = [named EXCEPT !.at = "reconciling", !.round = @ + 1,
                                       !.sections[run.k] = taken.accepted]
               \/ run' = AfterSection([named EXCEPT
                                  !.sections = DropRefused(run.prelude, @, run.k, run.ok)])
    BY <1>6 DEF Revise
  <2>2. book' = book /\ card' = card
    BY <1>6 DEF Revise
  <2> DEFINE taken == Accept(run, run.existing, run.target, answer)
             named == [run EXCEPT !.renames = taken.renames, !.authored = taken.authored,
                                  !.calls = calls, !.ok = <<>>]
             kept == [named.sections EXCEPT ![run.k] = taken.accepted]
             rest == DropRefused(run.prelude, named.sections, run.k, run.ok)
             dropped == [named EXCEPT !.sections = rest]
  <2>3. \/ run' = [named EXCEPT !.at = "reconciling", !.round = @ + 1, !.sections = kept]
        \/ run' = AfterSection(dropped)
    BY <2>1
  <2> HIDE DEF taken
  <2>4. DOMAIN named = RunFields /\ named.reported = run.reported /\ named.checks = run.checks
    BY <1>1 DEF RunFields
  <2> HIDE DEF named, kept, rest
  <2>5. DOMAIN dropped = RunFields /\ dropped.reported = run.reported /\ dropped.checks = run.checks
    BY <2>4 DEF RunFields
  <2> HIDE DEF dropped
  <2>6. \A r : DOMAIN r = RunFields =>
           AfterSection(r).reported = r.reported /\ AfterSection(r).checks = r.checks
    BY AfterSectionStays DEF RunFields
  <2>7. run'.reported = run.reported /\ run'.checks = run.checks
    BY <2>3, <2>4, <2>5, <2>6 DEF RunFields
  <2> QED
    BY <1>1, <2>2, <2>7
<1>7. Early
  BY <1>2, <1>3, <1>4, <1>5, <1>6
<1> QED
  BY <1>7, EarlyKeeps

LEMMA HonestFinish ==
  ASSUME HonestInv, ForkInv', Finish
  PROVE  HonestInv'
<1> DEFINE ops == Operations(run.prelude, run.sections)
           result == Reconciled(book, run.target, ops, Sheet, EffectiveChecks(run.checks, run.renames))
           next == IF AppliedCleanly(ops, result.ok) = <<>> THEN "answering" ELSE "proposing"
           status == IF run.incomplete \/ CountOf(result.rows, "mismatched") > 0 THEN "partial" ELSE "done"
           carried == AppliedCleanly(ops, result.ok)
<1>1. /\ run.at = "finishing" /\ book' = book /\ card' = card
      /\ run' = [run EXCEPT !.at = next, !.rows = result.rows, !.reported = book, !.status = status,
                            !.carried = carried]
  BY DEF Finish, At
<1>2. DOMAIN run = RunFields /\ ChecksOK(run.checks) /\ card = NoCard /\ Good(book)
  BY <1>1 DEF HonestInv, ForkInv, ListsOK, PreReport, Good
<1>3. next \in {"answering", "proposing"} /\ (status = "done" => ~(CountOf(result.rows, "mismatched") > 0))
  OBVIOUS
<1> HIDE DEF result, next, status, carried
<1>4. /\ run'.at = next /\ run'.rows = result.rows /\ run'.reported = book /\ run'.status = status
      /\ run'.carried = carried /\ run'.prelude = run.prelude /\ run'.sections = run.sections
      /\ run'.target = run.target /\ run'.checks = run.checks /\ run'.renames = run.renames
  BY <1>1, <1>2 DEF RunFields
<1>5. ReportOf(run')
  BY <1>2, <1>3, <1>4 DEF ReportOf, result, carried
<1>6. CardFollows(card', run', book')
  BY <1>1, <1>2 DEF CardFollows
<1>7. run'.at \notin PreReport
  BY <1>3, <1>4 DEF PreReport
<1> QED
  BY <1>1, <1>2, <1>4, <1>5, <1>6, <1>7, ReachesItself DEF HonestInv, Good
-----------------------------------------------------------------------------
LEMMA CarriedIs ==
  ASSUME HonestInv, run.reported # None
  PROVE  LET b == run.reported
             ops == Operations(run.prelude, run.sections)
             d == Path(b, ops)[Len(ops)]
             c == Path(b, run.carried)[Len(run.carried)]
         IN  /\ OnlyPlacesFail(b, run.carried) /\ SameButLedger(d, c) /\ Good(d)
             /\ ~TakenPlaces(b, run.carried) => Unattached(d) = Unattached(c)
             /\ run.carried \in Seq(Offered(run.target, run.existing))
<1> DEFINE S == Offered(run.target, run.existing)
           b == run.reported
           ops == Operations(run.prelude, run.sections)
           kept == run.carried
<1>1. run.prelude \in Seq(S) /\ run.sections \in Seq(Seq(S)) /\ kept \in Seq(S)
  BY DEF HonestInv, ForkInv, ListsOK
<1>2. ops \in Seq(S)
  BY <1>1, OperationsAre
<1>3. kept = AppliedCleanly(ops, Outcomes(b, ops).ok) /\ Good(b)
  BY DEF HonestInv, ReportOf, Reconciled
<1>4. \A op \in S : Measured(op)
  BY OfferedAreMeasured
<1> HIDE DEF S, ops, b, kept
<1>5. /\ OnlyPlacesFail(b, kept)
      /\ SameButLedger(Path(b, ops)[Len(ops)], Path(b, kept)[Len(kept)])
      /\ ~TakenPlaces(b, kept) =>
            Unattached(Path(b, ops)[Len(ops)]) = Unattached(Path(b, kept)[Len(kept)])
  BY <1>2, <1>3, <1>4, CleanPaths
<1>6. Len(ops) \in Nat /\ \A n \in 1 .. Len(ops) : Measured(ops[n])
  BY <1>2, <1>4, LenProperties, ElementOfSeq
<1>7. Good(Path(b, ops)[Len(ops)])
  <2>1. Len(ops) \in 0 .. Len(ops)
    BY <1>6
  <2> QED
    BY <1>3, <1>6, <2>1, PathsReach
<1> QED
  BY <1>1, <1>5, <1>7 DEF ops, b, kept, S

(* A card is made of what is carried, or made again of what it has.        *)
LEMMA CardIsMade ==
  ASSUME HonestInv, run.reported # None,
         NEW ops \in Seq(Offered(run.target, run.existing)), OnlyPlacesFail(run.reported, ops),
         TakenPlaces(run.reported, ops) <=> TakenPlaces(run.reported, run.carried),
         ~TakenPlaces(run.reported, ops) => ops = run.carried,
         NEW c, c.stamp = book, c.ops = DryRun(book, ops).ops, c.ok = DryRun(book, ops).ok
  PROVE  CardFollows(c, run, book)
<1> DEFINE b == run.reported
           S == Offered(run.target, run.existing)
           dry == DryRun(book, ops)
<1>1. Reaches(b, book) /\ Good(b) /\ Good(book)
  BY DEF HonestInv, ReportOf, Good, ForkInv
<1>2. ops \in Seq(S) /\ Len(ops) \in Nat /\ \A n \in 1 .. Len(ops) : Measured(ops[n])
  BY OfferedAreMeasured, LenProperties, ElementOfSeq
<1>3. OnlyPlacesFail(b, ops)
  OBVIOUS
<1>4. CASE Level(b, book)
  <2> HIDE DEF b, S
  <2>1. OnlyPlacesFail(book, ops) /\ EventIds(book) = EventIds(b)
    BY <1>1, <1>2, <1>3, <1>4, PlacesStay
  <2>2. Rehearsed(dry, book, ops)
    BY <1>1, <1>2, <2>1, DryRunTells
  <2>3. \A list : TakenPlaces(book, list) <=> TakenPlaces(b, list)
    BY <2>1 DEF TakenPlaces
  <2> HIDE DEF dry
  <2>4. CASE dry.ok = TRUE /\ dry.ops = ops /\ ~TakenPlaces(book, ops)
    BY <2>3, <2>4 DEF CardFollows, dry, b
  <2>5. CASE /\ dry.ok = FALSE /\ TakenPlaces(book, ops) /\ TakenPlaces(book, dry.ops)
             /\ \E m \in 1 .. Len(ops) : dry.ops = SubSeq(ops, 1, m)
    <3>1. PICK m \in 1 .. Len(ops) : dry.ops = SubSeq(ops, 1, m)
      BY <2>5
    <3> DEFINE tried == SubSeq(ops, 1, m)
    <3>2. Len(tried) = m /\ \A n \in 1 .. m : ops[n] = tried[n]
      <4>1. m \in Nat /\ 1 <= m /\ m <= Len(ops) /\ tried = [n \in 1 .. m |-> ops[n]]
        BY <1>2
      <4> QED
        BY <4>1
    <3> HIDE DEF tried
    <3>3. /\ Len(tried) \in Nat /\ Len(tried) <= Len(ops)
          /\ \A n \in 1 .. Len(tried) : ops[n] = tried[n]
      BY <1>2, <3>2
    <3>4. OnlyPlacesFail(b, tried)
      BY <1>2, <1>3, <3>3, PathsBegin
    <3>5. dry.ops = tried
      BY <3>1 DEF tried
    <3> QED
      BY <2>3, <2>5, <3>4, <3>5 DEF CardFollows, dry, b
  <2> QED
    BY <2>2, <2>4, <2>5 DEF Rehearsed
<1>5. CASE ~Level(b, book)
  BY <1>1, <1>5 DEF CardFollows, Moved
<1> QED
  BY <1>4, <1>5

LEMMA LateSteps ==
  ASSUME HonestInv, ForkInv', run.at \notin PreReport,
         Propose \/ Answer \/ WriteRow \/ CloseJournal \/ Fails \/ Shutdown
  PROVE  HonestInv'
<1>1. DOMAIN run = RunFields /\ Good(book)
  BY DEF HonestInv, ForkInv, ListsOK, Good
<1>2. /\ book' = book /\ run'.at \notin PreReport /\ run'.status \in {run.status, "failed"}
      /\ \A f \in ReportFields : run'[f] = run[f]
  BY <1>1 DEF Propose, Answer, WriteRow, CloseJournal, Fails, Shutdown, RunFields, ReportFields, PreReport
<1>3. run.reported # None => Reaches(run.reported, book)
  BY DEF HonestInv
<1>4. ASSUME run.reported # None PROVE CardFollows(card', run, book)
  <2>1. CASE Propose
    <3>1. card' = [status |-> "pending", ops |-> DryRun(book, run.carried).ops, stamp |-> book,
                   ok |-> DryRun(book, run.carried).ok]
      BY <2>1 DEF Propose
    <3> QED
      <4>1. run.carried \in Seq(Offered(run.target, run.existing)) /\ OnlyPlacesFail(run.reported, run.carried)
        BY <1>4, CarriedIs
      <4> QED
        BY <1>4, <3>1, <4>1, CardIsMade
  <2>2. CASE Answer \/ WriteRow \/ CloseJournal \/ Fails \/ Shutdown
    <3>1. card' = card
      BY <2>2 DEF Answer, WriteRow, CloseJournal, Fails, Shutdown
    <3> QED
      BY <1>4, <3>1 DEF HonestInv
  <2> QED
    BY <2>1, <2>2
<1> QED
  BY <1>1, <1>2, <1>3, <1>4, LateKeeps

LEMMA BookReaches ==
  ASSUME HonestInv, Good(book'), Reaches(book, book'), run.reported # None
  PROVE  /\ Reaches(run.reported, book') /\ (Moved(run.reported, book) => Moved(run.reported, book'))
BY ReachesOn, MovedOn DEF HonestInv

LEMMA BookSteps ==
  ASSUME HonestInv, ForkInv', RefreshCard \/ AcceptCard \/ \E move \in Moves : Move(move.op, move.place)
  PROVE  HonestInv'
<1>1. DOMAIN run = RunFields /\ Good(book)
  BY DEF HonestInv, ForkInv, ListsOK, Good
<1>2. CASE RefreshCard
  <2>1. /\ card.status = "pending" /\ book' = book /\ run' = run
        /\ card' = [status |-> "pending", ops |-> DryRun(book, card.ops).ops, stamp |-> book,
                    ok |-> DryRun(book, card.ops).ok]
    BY <1>2 DEF RefreshCard
  <2>2. card # NoCard
    BY <2>1 DEF NoCard
  <2>3. run.at \notin PreReport
    BY <2>2 DEF HonestInv
  <2>4. ASSUME run.reported # None PROVE CardFollows(card', run, book)
    <3>1. CardFollows(card, run, book)
      BY <2>4 DEF HonestInv
    <3>2. CASE Moved(run.reported, book)
      BY <2>1, <3>2 DEF CardFollows
    <3>3. CASE ~Moved(run.reported, book)
      <4>1. /\ OnlyPlacesFail(run.reported, run.carried)
            /\ card.ops \in Seq(Offered(run.target, run.existing))
        BY <2>4, CarriedIs DEF HonestInv, ForkInv
      <4>2. /\ OnlyPlacesFail(run.reported, card.ops)
            /\ TakenPlaces(run.reported, card.ops) <=> TakenPlaces(run.reported, run.carried)
            /\ ~TakenPlaces(run.reported, card.ops) => card.ops = run.carried
        BY <2>2, <3>1, <3>3, <4>1 DEF CardFollows
      <4> QED
        BY <2>1, <2>4, <4>1, <4>2, CardIsMade
    <3> QED
      BY <3>2, <3>3
  <2> QED
    BY <1>1, <2>1, <2>3, <2>4, LateKeeps DEF HonestInv
<1>3. CASE AcceptCard
  <2>1. /\ card.status = "pending" /\ run' = run /\ book' = Outcomes(book, card.ops).book
        /\ card' = [card EXCEPT !.status = "accepted"]
    BY <1>3 DEF AcceptCard
  <2>2. card # NoCard
    BY <2>1 DEF NoCard
  <2>3. run.at \notin PreReport
    BY <2>2 DEF HonestInv
  <2>4. Good(book') /\ Reaches(book, book')
    <3> DEFINE ops == card.ops
               S == Offered(run.target, run.existing)
               n == Len(ops)
               p == Path(book, ops)
    <3>1. ops \in Seq(S)
      BY DEF HonestInv, ForkInv
    <3>2. \A op \in S : Measured(op)
      BY OfferedAreMeasured
    <3>3. book' = p[n]
      BY <2>1, OutcomesArePaths
    <3> HIDE DEF S, ops
    <3>4. n \in Nat /\ \A i \in 1 .. n : Measured(ops[i])
      BY <3>1, <3>2, LenProperties, ElementOfSeq
    <3>5. \A i \in 0 .. n : Good(p[i]) /\ Reaches(book, p[i])
      BY <1>1, <3>4, PathsReach
    <3> HIDE DEF p, n
    <3> QED
      BY <3>3, <3>4, <3>5
  <2>5. card'.ops = card.ops /\ card'.ok = card.ok /\ card'.stamp = card.stamp
    BY <2>1
  <2>6. ASSUME run.reported # None PROVE Reaches(run.reported, book') /\ CardFollows(card', run, book')
    <3>1. CardFollows(card, run, book)
      BY <2>6 DEF HonestInv
    <3>2. Reaches(run.reported, book') /\ (Moved(run.reported, book) => Moved(run.reported, book'))
      BY <2>4, <2>6, BookReaches
    <3> QED
      BY <2>2, <2>5, <3>1, <3>2 DEF CardFollows
  <2> QED
    BY <2>1, <2>3, <2>4, <2>6, LateKeeps DEF HonestInv
<1>4. CASE \E move \in Moves : Move(move.op, move.place)
  <2>1. PICK move \in Moves : book' = ApplyOp(book, move.op, move.place) /\ run' = run /\ card' = card
    BY <1>4 DEF Move
  <2>2. Measured(move.op)
    BY MovesAreOperations DEF IsOperation, Measured
  <2>3. Good(book') /\ Reaches(book, book')
    BY <1>1, <2>1, <2>2, ApplyReaches
  <2>4. ASSUME run.reported # None PROVE Reaches(run.reported, book') /\ CardFollows(card, run, book')
    <3>1. CardFollows(card, run, book)
      BY <2>4 DEF HonestInv
    <3>2. Reaches(run.reported, book') /\ (Moved(run.reported, book) => Moved(run.reported, book'))
      BY <2>3, <2>4, BookReaches
    <3> QED
      BY <3>1, <3>2 DEF CardFollows
  <2> QED
    BY <2>1, <2>3, <2>4 DEF HonestInv, Good
<1> QED
  BY <1>2, <1>3, <1>4

LEMMA HonestStep == HonestInv /\ [Next]_vars => HonestInv'
<1> SUFFICES ASSUME HonestInv, [Next]_vars PROVE HonestInv'
  OBVIOUS
<1>1. ForkInv'
  BY ForkStep DEF HonestInv
<1>2. CASE Post \/ Open \/ ReadBook \/ PlanSections \/ Author \/ Reconcile \/ Revise \/ StopAsking
  <2>1. run.at \in PreReport
    BY <1>2 DEF Post, Open, ReadBook, PlanSections, Author, Reconcile, Revise, StopAsking, At, Asking, PreReport
  <2> QED
    BY <1>1, <1>2, <2>1, EarlySteps
<1>3. CASE Fails \/ Shutdown
  BY <1>1, <1>3, EarlySteps, LateSteps
<1>4. CASE Finish
  BY <1>1, <1>4, HonestFinish
<1>5. CASE Propose \/ Answer \/ WriteRow \/ CloseJournal
  <2>1. run.at \notin PreReport
    BY <1>5 DEF Propose, Answer, WriteRow, CloseJournal, At, PreReport
  <2> QED
    BY <1>1, <1>5, <2>1, LateSteps
<1>6. CASE RefreshCard \/ AcceptCard \/ \E move \in Moves : Move(move.op, move.place)
  BY <1>1, <1>6, BookSteps
<1>7. ASSUME NEW l \in Listeners, Listen(l) \/ Deliver(l) \/ HangUp(l) PROVE HonestInv'
  <2>1. book' = book /\ run' = run /\ card' = card
    BY <1>7 DEF Listen, Deliver, HangUp
  <2> QED
    BY <1>1, <2>1 DEF HonestInv
<1>8. CASE UNCHANGED vars
  BY <1>1, <1>8 DEF vars, HonestInv
<1> QED
  BY <1>2, <1>3, <1>4, <1>5, <1>6, <1>7, <1>8 DEF Next, Work
-----------------------------------------------------------------------------
(* The figures of a book, column by column.                                *)
UpOf(n) == IF n > 0 THEN n ELSE 0
Ins(lines, m) == MapThenSumSet(LAMBDA i : UpOf(lines[i][m]), DOMAIN lines)
Outs(lines, m) == MapThenSumSet(LAMBDA i : UpOf(-lines[i][m]), DOMAIN lines)
NetAt(b, lines, m) == UpOf(Unattached(b)[m]) + Ins(lines, m) + (-UpOf(-Unattached(b)[m]) - Outs(lines, m))
Closing(b, lines, m) == b.opening + MapThenSumSet(LAMBDA n : NetAt(b, lines, n), {n \in b.horizon : n <= m})

LEMMA FiguresAre ==
  \A b, s : FiguresOf(b, s) =
     [basis |-> "absolute", months |-> b.horizon,
      inflow |-> [m \in b.horizon |-> UpOf(Unattached(b)[m]) + Ins(Lines(b, s), m)],
      outflow |-> [m \in b.horizon |-> -UpOf(-Unattached(b)[m]) - Outs(Lines(b, s), m)],
      net |-> [m \in b.horizon |-> NetAt(b, Lines(b, s), m)],
      closing |-> [m \in b.horizon |-> Closing(b, Lines(b, s), m)],
      perItem |-> Lines(b, s)]
BY DEF FiguresOf, Ins, Outs, NetAt, Closing, UpOf, MapThenSumSet, MapThenFoldSet
-----------------------------------------------------------------------------
(* Each sum of the figures is the total of a function: MapThenSumSet and   *)
(* TotalOf solve the same recursion.                                       *)
InsOf(lines, m) == [i \in DOMAIN lines |-> UpOf(lines[i][m])]
OutsOf(lines, m) == [i \in DOMAIN lines |-> UpOf(-lines[i][m])]

LEMMA InsTotal ==
  ASSUME NEW lines, IsFiniteSet(DOMAIN lines), NEW m
  PROVE  Ins(lines, m) = TotalOf(InsOf(lines, m), DOMAIN lines)
<1> DEFINE S == DOMAIN lines
           f == InsOf(lines, m)
           Adding(F) == [s \in SUBSET S |-> IF s = {} THEN 0 ELSE UpOf(lines[Pick(s)][m]) + F[Rest(s)]]
           G == CHOOSE F : F = Adding(F)
<1>1. \A s \in SUBSET S : s # {} => f[Pick(s)] = UpOf(lines[Pick(s)][m])
  BY PickIn DEF InsOf
<1>2. \A F : F = Adding(F) <=> AreTotals(F, f, S)
  BY <1>1 DEF AreTotals, Adds
<1>3. Ins(lines, m) = G[S]
  BY DEF Ins, MapThenSumSet, MapThenFoldSet, Pick, Rest
<1>4. AreTotals(G, f, S)
  <2> HIDE DEF Adding, f, S
  <2>1. \E F : F = Adding(F)
    BY <1>2, TotalsExist DEF S
  <2>2. G = Adding(G)
    BY <2>1
  <2> QED
    BY <1>2, <2>2
<1> HIDE DEF G, f
<1> QED
  BY <1>3, <1>4, SolvedTotal DEF f

LEMMA OutsTotal ==
  ASSUME NEW lines, IsFiniteSet(DOMAIN lines), NEW m
  PROVE  Outs(lines, m) = TotalOf(OutsOf(lines, m), DOMAIN lines)
<1> DEFINE S == DOMAIN lines
           f == OutsOf(lines, m)
           Adding(F) == [s \in SUBSET S |-> IF s = {} THEN 0 ELSE UpOf(-lines[Pick(s)][m]) + F[Rest(s)]]
           G == CHOOSE F : F = Adding(F)
<1>1. \A s \in SUBSET S : s # {} => f[Pick(s)] = UpOf(-lines[Pick(s)][m])
  BY PickIn DEF OutsOf
<1>2. \A F : F = Adding(F) <=> AreTotals(F, f, S)
  BY <1>1 DEF AreTotals, Adds
<1>3. Outs(lines, m) = G[S]
  BY DEF Outs, MapThenSumSet, MapThenFoldSet, Pick, Rest
<1>4. AreTotals(G, f, S)
  <2> HIDE DEF Adding, f, S
  <2>1. \E F : F = Adding(F)
    BY <1>2, TotalsExist DEF S
  <2>2. G = Adding(G)
    BY <2>1
  <2> QED
    BY <1>2, <2>2
<1> HIDE DEF G, f
<1> QED
  BY <1>3, <1>4, SolvedTotal DEF f

NetsOf(b, lines, months) == [n \in months |-> NetAt(b, lines, n)]
ItemSums(lines, items, span) == [i \in items |-> MapThenSumSet(LAMBDA m : lines[i][m], span)]
ColumnOf(lines, m) == [i \in DOMAIN lines |-> lines[i][m]]

LEMMA NetsTotal ==
  ASSUME NEW b, NEW lines, NEW months, IsFiniteSet(months)
  PROVE  MapThenSumSet(LAMBDA n : NetAt(b, lines, n), months) = TotalOf(NetsOf(b, lines, months), months)
<1> DEFINE S == months
           f == NetsOf(b, lines, months)
           Adding(F) == [s \in SUBSET S |-> IF s = {} THEN 0 ELSE NetAt(b, lines, Pick(s)) + F[Rest(s)]]
           G == CHOOSE F : F = Adding(F)
<1>1. \A s \in SUBSET S : s # {} => f[Pick(s)] = NetAt(b, lines, Pick(s))
  BY PickIn DEF NetsOf
<1>2. \A F : F = Adding(F) <=> AreTotals(F, f, S)
  BY <1>1 DEF AreTotals, Adds
<1>3. MapThenSumSet(LAMBDA n : NetAt(b, lines, n), months) = G[S]
  BY DEF MapThenSumSet, MapThenFoldSet, Pick, Rest
<1>4. AreTotals(G, f, S)
  <2> HIDE DEF Adding, f, S
  <2>1. \E F : F = Adding(F)
    BY <1>2, TotalsExist DEF S
  <2>2. G = Adding(G)
    BY <2>1
  <2> QED
    BY <1>2, <2>2
<1> HIDE DEF G, f
<1> QED
  BY <1>3, <1>4, SolvedTotal DEF f

LEMMA ItemsTotal ==
  ASSUME NEW lines, NEW items, IsFiniteSet(items), NEW span
  PROVE  MapThenSumSet(LAMBDA i : MapThenSumSet(LAMBDA m : lines[i][m], span), items)
           = TotalOf(ItemSums(lines, items, span), items)
<1> DEFINE S == items
           f == ItemSums(lines, items, span)
           Adding(F) == [s \in SUBSET S |->
               IF s = {} THEN 0 ELSE MapThenSumSet(LAMBDA m : lines[Pick(s)][m], span) + F[Rest(s)]]
           G == CHOOSE F : F = Adding(F)
<1>1. \A s \in SUBSET S : s # {} => f[Pick(s)] = MapThenSumSet(LAMBDA m : lines[Pick(s)][m], span)
  BY PickIn DEF ItemSums
<1>2. \A F : F = Adding(F) <=> AreTotals(F, f, S)
  BY <1>1 DEF AreTotals, Adds
<1>3. MapThenSumSet(LAMBDA i : MapThenSumSet(LAMBDA m : lines[i][m], span), items) = G[S]
  BY DEF MapThenSumSet, MapThenFoldSet, Pick, Rest
<1>4. AreTotals(G, f, S)
  <2> HIDE DEF Adding, f, S
  <2>1. \E F : F = Adding(F)
    BY <1>2, TotalsExist DEF S
  <2>2. G = Adding(G)
    BY <2>1
  <2> QED
    BY <1>2, <2>2
<1> HIDE DEF G, f
<1> QED
  BY <1>3, <1>4, SolvedTotal DEF f

LEMMA ColumnTotal ==
  ASSUME NEW lines, IsFiniteSet(DOMAIN lines), NEW m
  PROVE  MapThenSumSet(LAMBDA i : lines[i][m], DOMAIN lines) = TotalOf(ColumnOf(lines, m), DOMAIN lines)
<1> DEFINE S == DOMAIN lines
           f == ColumnOf(lines, m)
           Adding(F) == [s \in SUBSET S |-> IF s = {} THEN 0 ELSE lines[Pick(s)][m] + F[Rest(s)]]
           G == CHOOSE F : F = Adding(F)
<1>1. \A s \in SUBSET S : s # {} => f[Pick(s)] = lines[Pick(s)][m]
  BY PickIn DEF ColumnOf
<1>2. \A F : F = Adding(F) <=> AreTotals(F, f, S)
  BY <1>1 DEF AreTotals, Adds
<1>3. MapThenSumSet(LAMBDA i : lines[i][m], DOMAIN lines) = G[S]
  BY DEF MapThenSumSet, MapThenFoldSet, Pick, Rest
<1>4. AreTotals(G, f, S)
  <2> HIDE DEF Adding, f, S
  <2>1. \E F : F = Adding(F)
    BY <1>2, TotalsExist DEF S
  <2>2. G = Adding(G)
    BY <2>1
  <2> QED
    BY <1>2, <2>2
<1> HIDE DEF G, f
<1> QED
  BY <1>3, <1>4, SolvedTotal DEF f
-----------------------------------------------------------------------------
(* What figures are: numbers, in the months of a horizon.                  *)
LinesOK(lines) == IsFiniteSet(DOMAIN lines) /\ \A i \in DOMAIN lines : lines[i] \in Series
IsFigures(fig) ==
    /\ fig.months \subseteq AllMonths /\ LinesOK(fig.perItem)
    /\ \A m \in fig.months : /\ fig.inflow[m] \in Int /\ fig.outflow[m] \in Int
                             /\ fig.net[m] \in Int /\ fig.closing[m] \in Int
    /\ DOMAIN fig.inflow = fig.months /\ DOMAIN fig.outflow = fig.months /\ DOMAIN fig.net = fig.months

LEMMA MonthsFinite == \A T : T \subseteq AllMonths => IsFiniteSet(T)
<1>1. 1 \in Int /\ MaxMonth \in Int
  BY MonthsAreFinite
<1>2. IsFiniteSet(AllMonths)
  BY <1>1, FS_Interval DEF AllMonths
<1> QED
  BY <1>2, FS_Subset

LEMMA SeriesAre ==
  ASSUME NEW lines, LinesOK(lines), NEW m \in AllMonths, NEW i \in DOMAIN lines
  PROVE  lines[i][m] \in Int
BY DEF LinesOK, Series

LEMMA FlowsCount ==
  ASSUME NEW lines, LinesOK(lines), NEW m \in AllMonths
  PROVE  Ins(lines, m) \in Int /\ Outs(lines, m) \in Int
<1>1. \A i \in DOMAIN lines : InsOf(lines, m)[i] \in Int /\ OutsOf(lines, m)[i] \in Int
  BY SeriesAre DEF InsOf, OutsOf, UpOf
<1>2. IsFiniteSet(DOMAIN lines)
  BY DEF LinesOK
<1>3. TotalOf(InsOf(lines, m), DOMAIN lines) \in Int
  BY <1>1, <1>2, TotalIsInt
<1>4. TotalOf(OutsOf(lines, m), DOMAIN lines) \in Int
  BY <1>1, <1>2, TotalIsInt
<1> QED
  BY <1>2, <1>3, <1>4, InsTotal, OutsTotal

LEMMA NetCounts ==
  ASSUME NEW b, IsCounted(b), NEW lines, LinesOK(lines), NEW m \in AllMonths
  PROVE  NetAt(b, lines, m) \in Int
BY FlowsCount, UnattachedCounts DEF NetAt, UpOf

LEMMA ClosingCounts ==
  ASSUME NEW b, IsCounted(b), NEW lines, LinesOK(lines), NEW m \in AllMonths
  PROVE  Closing(b, lines, m) \in Int
<1> DEFINE months == {n \in b.horizon : n <= m}
<1>1. months \subseteq AllMonths
  BY DEF IsCounted
<1>2. IsFiniteSet(months)
  BY <1>1, MonthsFinite
<1>3. Closing(b, lines, m) = b.opening + MapThenSumSet(LAMBDA n : NetAt(b, lines, n), months)
  BY DEF Closing, MapThenSumSet, MapThenFoldSet
<1> HIDE DEF months
<1>4. MapThenSumSet(LAMBDA n : NetAt(b, lines, n), months) = TotalOf(NetsOf(b, lines, months), months)
  BY <1>2, NetsTotal
<1>5. \A n \in months : NetsOf(b, lines, months)[n] \in Int
  BY <1>1, NetCounts DEF NetsOf
<1>6. TotalOf(NetsOf(b, lines, months), months) \in Int
  BY <1>2, <1>5, TotalIsInt
<1> QED
  BY <1>3, <1>4, <1>6 DEF IsCounted

LEMMA BookLinesOK ==
  ASSUME NEW b, Good(b), NEW s
  PROVE  LinesOK(Lines(b, s))
<1>1. \A i \in DOMAIN Lines(b, s) : Lines(b, s)[i] \in Series
  BY LinesAreSeries DEF Good, Named
<1>2. IsFiniteSet(DOMAIN Lines(b, s))
  <2>1. CASE s \in DOMAIN b.forks
    <3>1. DOMAIN Lines(b, s) = DOMAIN b.forks[s] \cup DOMAIN b.base
      BY <2>1 DEF Lines, Over
    <3> QED
      BY <2>1, <3>1, FS_Union DEF Good, IsBook
  <2>2. CASE s \notin DOMAIN b.forks
    BY <2>2 DEF Lines, Good, IsBook
  <2> QED
    BY <2>1, <2>2
<1> QED
  BY <1>1, <1>2 DEF LinesOK

LEMMA FiguresCount ==
  ASSUME NEW b, Good(b), NEW s
  PROVE  IsFigures(FiguresOf(b, s))
<1> DEFINE lines == Lines(b, s)
           fig == FiguresOf(b, s)
<1>1. LinesOK(lines) /\ IsCounted(b) /\ b.horizon \subseteq AllMonths
  BY BookLinesOK DEF Good, IsCounted
<1>2. fig = [basis |-> "absolute", months |-> b.horizon,
             inflow |-> [m \in b.horizon |-> UpOf(Unattached(b)[m]) + Ins(lines, m)],
             outflow |-> [m \in b.horizon |-> -UpOf(-Unattached(b)[m]) - Outs(lines, m)],
             net |-> [m \in b.horizon |-> NetAt(b, lines, m)],
             closing |-> [m \in b.horizon |-> Closing(b, lines, m)],
             perItem |-> lines]
  BY FiguresAre
<1> HIDE DEF fig, lines
<1>3. ASSUME NEW m \in b.horizon
      PROVE  /\ fig.inflow[m] \in Int /\ fig.outflow[m] \in Int
             /\ fig.net[m] \in Int /\ fig.closing[m] \in Int
  <2>1. m \in AllMonths
    BY <1>1
  <2>2. /\ Unattached(b)[m] \in Int /\ Ins(lines, m) \in Int /\ Outs(lines, m) \in Int
        /\ NetAt(b, lines, m) \in Int /\ Closing(b, lines, m) \in Int
    BY <1>1, <2>1, UnattachedCounts, FlowsCount, NetCounts, ClosingCounts
  <2>3. UpOf(Unattached(b)[m]) \in Int /\ UpOf(-Unattached(b)[m]) \in Int
    BY <2>2 DEF UpOf
  <2>4. /\ fig.inflow[m] = UpOf(Unattached(b)[m]) + Ins(lines, m)
        /\ fig.outflow[m] = -UpOf(-Unattached(b)[m]) - Outs(lines, m)
        /\ fig.net[m] = NetAt(b, lines, m) /\ fig.closing[m] = Closing(b, lines, m)
    BY <1>2
  <2> QED
    BY <2>2, <2>3, <2>4
<1>4. /\ fig.months = b.horizon /\ fig.perItem = lines
      /\ DOMAIN fig.inflow = b.horizon /\ DOMAIN fig.outflow = b.horizon /\ DOMAIN fig.net = b.horizon
  BY <1>2
<1>5. IsFigures(fig)
  BY <1>1, <1>3, <1>4 DEF IsFigures
<1> QED
  BY <1>5 DEF fig
-----------------------------------------------------------------------------
LEMMA AddedCount ==
  ASSUME NEW t, NEW b, IsFigures(t), IsFigures(b), t.months \subseteq b.months,
         DOMAIN t = {"basis", "months", "inflow", "outflow", "net", "closing", "perItem"}
  PROVE  IsFigures(Added(t, b)) /\ Added(t, b).months = t.months
         /\ \A m \in t.months : Added(t, b).net[m] = t.net[m] - b.net[m]
<1> DEFINE fig == Added(t, b)
           Minus(f, g) == [m \in t.months |-> f[m] - (IF m \in DOMAIN g THEN g[m] ELSE 0)]
           inflow == Minus(t.inflow, b.inflow)
           outflow == Minus(t.outflow, b.outflow)
           net == Minus(t.net, b.net)
           perItem == [i \in DOMAIN t.perItem |->
                          IF i \in DOMAIN b.perItem
                          THEN [m \in AllMonths |-> t.perItem[i][m] - b.perItem[i][m]] ELSE t.perItem[i]]
<1>1. fig = [t EXCEPT !.basis = "added", !.inflow = inflow, !.outflow = outflow, !.net = net,
                      !.perItem = perItem]
  BY DEF Added
<1>2. /\ \A m \in t.months : inflow[m] = t.inflow[m] - b.inflow[m]
      /\ \A m \in t.months : outflow[m] = t.outflow[m] - b.outflow[m]
      /\ \A m \in t.months : net[m] = t.net[m] - b.net[m]
      /\ DOMAIN inflow = t.months /\ DOMAIN outflow = t.months /\ DOMAIN net = t.months
  BY DEF IsFigures
<1>3. LinesOK(perItem)
  <2>1. LinesOK(t.perItem) /\ LinesOK(b.perItem)
    BY DEF IsFigures
  <2>2. ASSUME NEW i \in DOMAIN t.perItem PROVE perItem[i] \in Series
    <3>1. CASE i \in DOMAIN b.perItem
      <4>1. perItem[i] = [m \in AllMonths |-> t.perItem[i][m] - b.perItem[i][m]]
        BY <3>1
      <4>2. \A m \in AllMonths : t.perItem[i][m] \in Int /\ b.perItem[i][m] \in Int
        BY <2>1, <3>1, SeriesAre
      <4> HIDE DEF perItem
      <4> QED
        BY <4>1, <4>2 DEF Series
    <3>2. CASE i \notin DOMAIN b.perItem
      BY <2>1, <3>2 DEF LinesOK
    <3> QED
      BY <3>1, <3>2
  <2>3. DOMAIN perItem = DOMAIN t.perItem
    OBVIOUS
  <2> HIDE DEF perItem
  <2> QED
    BY <2>1, <2>2, <2>3 DEF LinesOK
<1> HIDE DEF fig, inflow, outflow, net, perItem
<1>4. /\ fig.months = t.months /\ fig.inflow = inflow /\ fig.outflow = outflow /\ fig.net = net
      /\ fig.perItem = perItem /\ fig.closing = t.closing
  BY <1>1
<1>5. \A m \in t.months : /\ fig.inflow[m] \in Int /\ fig.outflow[m] \in Int
                          /\ fig.net[m] \in Int /\ fig.closing[m] \in Int
  BY <1>2, <1>4 DEF IsFigures
<1>6. IsFigures(fig)
  BY <1>2, <1>3, <1>4, <1>5 DEF IsFigures
<1> QED
  BY <1>2, <1>4, <1>6 DEF fig

LEMMA ReportFigures ==
  ASSUME NEW b, Good(b), NEW target
  PROVE  /\ IsFigures(FiguresFor(b, target)) /\ FiguresFor(b, target).months = b.horizon
         /\ target.createdFork => \A m \in b.horizon : FiguresFor(b, target).net[m]
                = NetAt(b, Lines(b, target.scenario), m) - NetAt(b, Lines(b, BaseScenario), m)
<1> DEFINE t == FiguresOf(b, target.scenario)
           base == FiguresOf(b, BaseScenario)
<1>1. IsFigures(t) /\ IsFigures(base)
  BY FiguresCount
<1>2. /\ t.months = b.horizon /\ base.months = b.horizon
      /\ DOMAIN t = {"basis", "months", "inflow", "outflow", "net", "closing", "perItem"}
      /\ \A m \in b.horizon : t.net[m] = NetAt(b, Lines(b, target.scenario), m)
      /\ \A m \in b.horizon : base.net[m] = NetAt(b, Lines(b, BaseScenario), m)
  BY FiguresAre
<1>3. FiguresFor(b, target) = IF target.createdFork THEN Added(t, base) ELSE t
  BY DEF FiguresFor
<1> HIDE DEF t, base
<1>4. /\ IsFigures(Added(t, base)) /\ Added(t, base).months = t.months
      /\ \A m \in t.months : Added(t, base).net[m] = t.net[m] - base.net[m]
  BY <1>1, <1>2, AddedCount
<1> QED
  BY <1>1, <1>2, <1>3, <1>4

SumOver(lines, items, span) ==
    MapThenSumSet(LAMBDA i : MapThenSumSet(LAMBDA m : lines[i][m], span), items)

LEMMA ItemsCount ==
  ASSUME NEW lines, LinesOK(lines), NEW items, items \subseteq DOMAIN lines,
         NEW span, span \subseteq AllMonths
  PROVE  SumOver(lines, items, span) \in Int
<1>1. IsFiniteSet(items) /\ IsFiniteSet(span)
  BY FS_Subset, MonthsFinite DEF LinesOK
<1>2. ASSUME NEW i \in items PROVE ItemSums(lines, items, span)[i] \in Int
  <2> DEFINE f == lines[i]
  <2>1. \A m \in span : f[m] \in Int
    BY SeriesAre
  <2>2. ItemSums(lines, items, span)[i] = TotalOf(f, span)
    BY DEF ItemSums, TotalOf, MapThenSumSet, MapThenFoldSet
  <2> HIDE DEF f
  <2>3. TotalOf(f, span) \in Int
    BY <1>1, <2>1, TotalIsInt
  <2> QED
    BY <2>2, <2>3
<1>3. TotalOf(ItemSums(lines, items, span), items) \in Int
  BY <1>1, <1>2, TotalIsInt
<1> QED
  BY <1>1, <1>3, ItemsTotal DEF SumOver

LEMMA ValuesCount ==
  ASSUME NEW fig, IsFigures(fig), NEW check, IsCheck(check)
  PROVE  ValueFor(fig, check) \in Int \cup {None}
<1> DEFINE span == IF check.period # None THEN fig.months \cap {check.period}
                   ELSE Window(fig, check.since, check.until)
           lines == fig.perItem
           items == check.items
<1>1. span \subseteq AllMonths
  BY DEF IsFigures, Window
<1>2. CASE check.measure = "items_total"
  <2>1. CASE items \subseteq DOMAIN lines
    <3>1. LinesOK(lines)
      BY DEF IsFigures
    <3>2. SumOver(lines, items, span) \in Int
      <4> HIDE DEF span, lines, items
      <4> QED
        BY <1>1, <2>1, <3>1, ItemsCount
    <3>3. ValueFor(fig, check) =
             IF items = {} \/ span = {} THEN None
             ELSE SumOver(lines, items, span)
      BY <1>2, <2>1 DEF ValueFor, SumOver, MapThenSumSet, MapThenFoldSet
    <3> HIDE DEF span, lines, items
    <3> QED
      BY <3>2, <3>3
  <2>2. CASE ~(items \subseteq DOMAIN lines)
    BY <1>2, <2>2 DEF ValueFor
  <2> QED
    BY <2>1, <2>2
<1>3. CASE check.measure # "items_total"
  <2>1. CASE check.period \in fig.months
    BY <1>3, <2>1 DEF ValueFor, IsFigures, IsCheck, Measures
  <2>2. CASE check.period \notin fig.months
    BY <1>3, <2>2 DEF ValueFor
  <2> QED
    BY <2>1, <2>2
<1> QED
  BY <1>2, <1>3

LEMMA CellsCount == \A ref : ReadNumber(Sheet, ref) \in Int \cup {None}
BY SheetHoldsNumbers DEF ReadNumber

(* A row: what agrees agrees to the cent, whichever way it is signed.      *)
LEMMA RowsAreTrue ==
  ASSUME NEW fig, IsFigures(fig), NEW check, IsCheck(check)
  PROVE  LET r == One(fig, Sheet, check) IN
         /\ r.status = "matched" => r.engine \in {r.sheet, -r.sheet}
         /\ r.parity => r.status = "mismatched"
<1> DEFINE value == ReadNumber(Sheet, check.ref)
           engine == ValueFor(fig, check)
           r == One(fig, Sheet, check)
<1>1. value \in Int \cup {None} /\ engine \in Int \cup {None}
  BY CellsCount, ValuesCount
<1>2. r = IF value = None \/ engine = None THEN Verdict(check, fig.basis, "skipped", value, None, 0)
          ELSE Compared(fig, check, value, engine)
  BY DEF One
<1> HIDE DEF value, engine, r
<1>3. CASE value = None \/ engine = None
  <2>1. r = Verdict(check, fig.basis, "skipped", value, None, 0)
    BY <1>2, <1>3
  <2>2. r.status = "skipped"
    BY <2>1 DEF Verdict
  <2>3. r.parity => r.status = "mismatched"
    BY <2>1 DEF Verdict
  <2> QED
    BY <2>2, <2>3 DEF r
<1>4. CASE ~(value = None \/ engine = None)
  <2> DEFINE plain == engine - value
             flipped == engine + value
             delta == IF check.measure \in SignFlexible /\ Abs(flipped) < Abs(plain) THEN flipped ELSE plain
  <2>1. r = Verdict(check, fig.basis, IF delta = 0 THEN "matched" ELSE "mismatched", value, engine, delta)
    BY <1>2, <1>4 DEF Compared
  <2>2. value \in Int /\ engine \in Int
    BY <1>1, <1>4
  <2>3. delta = 0 => engine \in {value, -value}
    BY <2>2
  <2> HIDE DEF delta
  <2>4. r.engine = engine /\ r.sheet = value /\ r.status = (IF delta = 0 THEN "matched" ELSE "mismatched")
    BY <2>1 DEF Verdict
  <2>5. r.parity => r.status = "mismatched"
    BY <2>1 DEF Verdict
  <2> QED
    BY <2>3, <2>4, <2>5 DEF r
<1> QED
  BY <1>3, <1>4
-----------------------------------------------------------------------------
(* A book along operations only grows, from any place to any later one.    *)
LEMMA PathsClimb ==
  ASSUME NEW b, Good(b), NEW ops, Len(ops) \in Nat, \A n \in 1 .. Len(ops) : Measured(ops[n]),
         NEW k \in 0 .. Len(ops)
  PROVE  Reaches(Path(b, ops)[k], Path(b, ops)[Len(ops)])
<1> DEFINE f == Path(b, ops)
           L == Len(ops)
           Bad == {n \in k .. L : ~Reaches(f[k], f[n])}
<1>1. \A n \in 1 .. L : f[n] = ApplyOp(f[n - 1], ops[n], n)
  BY PathSteps
<1>2. \A n \in 0 .. L : Good(f[n])
  BY PathsReach
<1> HIDE DEF f
<1>3. Bad = {}
  <2>1. SUFFICES ASSUME Bad # {} PROVE FALSE
    OBVIOUS
  <2>2. Bad \subseteq Nat
    OBVIOUS
  <2>3. PICK m \in Bad : \A n \in Bad : m <= n
    <3> HIDE DEF Bad
    <3> QED
      BY <2>1, <2>2, LeastNatural
  <2>4. m # k
    BY <2>3, ReachesItself
  <2>5. m \in 1 .. L /\ m - 1 \in k .. L /\ m - 1 \in 0 .. L /\ m - 1 \notin Bad
    BY <2>3, <2>4
  <2>6. Reaches(f[k], f[m - 1]) /\ Good(f[m - 1]) /\ Measured(ops[m]) /\ f[m] = ApplyOp(f[m - 1], ops[m], m)
    BY <1>1, <1>2, <2>5
  <2>7. Reaches(f[m - 1], f[m])
    BY <2>6, ApplyReaches
  <2>8. Reaches(f[k], f[m])
    BY <2>6, <2>7, ReachesOn
  <2> QED
    BY <2>3, <2>8
<1>4. Reaches(f[k], f[L])
  BY <1>3
<1> QED
  BY <1>4 DEF f

(* What a fork leads to: the base it had, and the fork's own lines.        *)
LEMMA ForksLand ==
  ASSUME NEW b, Good(b), NEW fork, NEW existing, NEW ops \in Seq(InFork(fork, existing)), Clear(b, ops),
         ForkScenario(fork) \in ToSet(ops), \A op \in InFork(fork, existing) : Measured(op)
  PROVE  LET c == Path(b, ops)[Len(ops)] IN
         Good(c) /\ c.base = b.base /\ c.horizon = b.horizon /\ fork \in DOMAIN c.forks
<1> DEFINE S == InFork(fork, existing)
           L == Len(ops)
           f == Path(b, ops)
<1>1. L \in Nat /\ DOMAIN ops = 1 .. L /\ \A n \in 1 .. L : ops[n] \in S
  BY LenProperties, ElementOfSeq
<1>2. PICK n \in 1 .. L : ops[n] = ForkScenario(fork)
  BY <1>1 DEF ToSet
<1>3. /\ \A i \in 1 .. L : Measured(ops[i]) /\ IsForkSafe(ops[i], fork, existing)
      /\ \A i \in 1 .. L : ~Refused(f[i - 1], ops[i], i)
  BY <1>1, OfferedForksAreSafe DEF Clear
<1>4. /\ \A i \in 1 .. L : f[i] = ApplyOp(f[i - 1], ops[i], i)
      /\ \A i \in 0 .. L : Good(f[i])
  BY <1>1, <1>3, PathSteps, PathsReach
<1>5. Reaches(f[n], f[L])
  BY <1>1, <1>2, <1>3, PathsClimb
<1> DEFINE o == ops[n]
           c == f[n - 1]
<1>6. /\ Good(c) /\ Measured(o) /\ ~Refused(c, o, n) /\ f[n] = ApplyOp(c, o, n)
      /\ o.op = "fork_scenario" /\ o.id = fork
  BY <1>1, <1>2, <1>3, <1>4 DEF ForkScenario, Op
<1> HIDE DEF f, c, o
<1>7. fork # BaseScenario
  BY <1>6 DEF Refused, Scenarios
<1>8. fork \in Scenarios(f[n])
  <2>1. Scenarios(ApplyOp(c, o, n)) = Scenarios(c) \cup Opens(o)
    BY <1>6, ApplyGrows DEF Good
  <2> QED
    BY <1>6, <2>1 DEF Opens
<1>9. fork \in DOMAIN f[L].forks
  BY <1>5, <1>7, <1>8 DEF Reaches, Scenarios
<1>10. OnlyAdds(b, f[L], fork, existing)
  BY <1>1, <1>3, <1>7, ForkPathsAddOnly DEF Good, f
<1>11. Good(f[L])
  BY <1>1, <1>4
<1> QED
  BY <1>9, <1>10, <1>11 DEF OnlyAdds, f

(* Lines beside other lines: what flows in and out is what both bring.     *)
LEMMA FlowsAdd ==
  ASSUME NEW f, LinesOK(f), NEW g, LinesOK(g), DOMAIN f \cap DOMAIN g = {}, NEW m \in AllMonths
  PROVE  /\ Ins(Over(f, g), m) = Ins(f, m) + Ins(g, m)
         /\ Outs(Over(f, g), m) = Outs(f, m) + Outs(g, m)
<1> DEFINE D == DOMAIN f
           E == DOMAIN g
           both == Over(f, g)
           ins == InsOf(both, m)
           outs == OutsOf(both, m)
<1>1. IsFiniteSet(D) /\ IsFiniteSet(E) /\ IsFiniteSet(D \cup E)
  BY FS_Union DEF LinesOK
<1>2. /\ DOMAIN both = D \cup E
      /\ \A i \in D : both[i] = f[i]
      /\ \A i \in E : both[i] = g[i]
  BY DEF Over
<1>3. LinesOK(both)
  BY <1>1, <1>2 DEF LinesOK
<1> HIDE DEF both
<1>4. /\ \A i \in D \cup E : ins[i] \in Int /\ outs[i] \in Int
      /\ \A i \in D : ins[i] = InsOf(f, m)[i] /\ outs[i] = OutsOf(f, m)[i]
      /\ \A i \in E : ins[i] = InsOf(g, m)[i] /\ outs[i] = OutsOf(g, m)[i]
  BY <1>2, <1>3, SeriesAre DEF InsOf, OutsOf, UpOf
<1> HIDE DEF ins, outs
<1>5. /\ Ins(both, m) = TotalOf(ins, D \cup E) /\ Outs(both, m) = TotalOf(outs, D \cup E)
  BY <1>1, <1>2, InsTotal, OutsTotal DEF ins, outs
<1>6. TotalOf(ins, D \cup E) = TotalOf(ins, D) + TotalOf(ins, E)
  BY <1>1, <1>4, TotalOfBoth
<1>7. TotalOf(outs, D \cup E) = TotalOf(outs, D) + TotalOf(outs, E)
  BY <1>1, <1>4, TotalOfBoth
<1>8. /\ TotalOf(ins, D) = Ins(f, m) /\ TotalOf(ins, E) = Ins(g, m)
  <2>1. TotalOf(ins, D) = TotalOf(InsOf(f, m), D)
    BY <1>1, <1>4, TotalsAgreeing
  <2>2. TotalOf(ins, E) = TotalOf(InsOf(g, m), E)
    BY <1>1, <1>4, TotalsAgreeing
  <2> QED
    BY <1>1, <2>1, <2>2, InsTotal
<1>9. /\ TotalOf(outs, D) = Outs(f, m) /\ TotalOf(outs, E) = Outs(g, m)
  <2>1. TotalOf(outs, D) = TotalOf(OutsOf(f, m), D)
    BY <1>1, <1>4, TotalsAgreeing
  <2>2. TotalOf(outs, E) = TotalOf(OutsOf(g, m), E)
    BY <1>1, <1>4, TotalsAgreeing
  <2> QED
    BY <1>1, <2>1, <2>2, OutsTotal
<1> QED
  BY <1>5, <1>6, <1>7, <1>8, <1>9 DEF both

(* In less out is what the lines come to.                                  *)
LEMMA FlowsCancel ==
  ASSUME NEW f, LinesOK(f), NEW m \in AllMonths
  PROVE  Ins(f, m) - Outs(f, m) = MapThenSumSet(LAMBDA i : f[i][m], DOMAIN f)
<1> DEFINE D == DOMAIN f
           ins == InsOf(f, m)
           outs == OutsOf(f, m)
           column == ColumnOf(f, m)
<1>1. IsFiniteSet(D)
  BY DEF LinesOK
<1>2. \A i \in D : ins[i] \in Int /\ outs[i] \in Int /\ column[i] = ins[i] - outs[i]
  <2>1. \A i \in D : f[i][m] \in Int
    BY SeriesAre
  <2>2. \A n \in Int : UpOf(n) \in Int /\ UpOf(-n) \in Int /\ n = UpOf(n) - UpOf(-n)
    BY DEF UpOf
  <2> QED
    BY <2>1, <2>2 DEF InsOf, OutsOf, ColumnOf
<1>3. Ins(f, m) = TotalOf(ins, D) /\ Outs(f, m) = TotalOf(outs, D)
  BY <1>1, InsTotal, OutsTotal
<1>4. MapThenSumSet(LAMBDA i : f[i][m], DOMAIN f) = TotalOf(column, D)
  BY <1>1, ColumnTotal
<1> HIDE DEF ins, outs, column, D
<1>5. TotalOf(column, D) = TotalOf(ins, D) - TotalOf(outs, D)
  BY <1>1, <1>2, TotalsSubtract
<1> QED
  BY <1>3, <1>4, <1>5

ComesTo(lines, m) == MapThenSumSet(LAMBDA i : lines[i][m], DOMAIN lines)

LEMMA NetOfFork ==
  ASSUME NEW b, Good(b), NEW fork \in DOMAIN b.forks, DOMAIN b.forks[fork] \cap DOMAIN b.base = {},
         NEW m \in AllMonths
  PROVE  NetAt(b, Lines(b, fork), m) - NetAt(b, Lines(b, BaseScenario), m)
            = ComesTo(b.forks[fork], m)
<1> DEFINE f == b.forks[fork]
           g == b.base
           up == UpOf(Unattached(b)[m])
           down == UpOf(-Unattached(b)[m])
<1>1. LinesOK(f) /\ LinesOK(g)
  BY DEF Good, IsBook, IsCounted, LinesOK
<1>2. Lines(b, fork) = Over(f, g) /\ Lines(b, BaseScenario) = g
  BY DEF Lines, Good, IsCounted
<1>3. up \in Int /\ down \in Int
  BY UnattachedCounts DEF UpOf, Good
<1>4. /\ NetAt(b, Lines(b, fork), m) = up + Ins(Over(f, g), m) + (-down - Outs(Over(f, g), m))
      /\ NetAt(b, Lines(b, BaseScenario), m) = up + Ins(g, m) + (-down - Outs(g, m))
  BY <1>2 DEF NetAt
<1>d. DOMAIN f \cap DOMAIN g = {}
  OBVIOUS
<1> HIDE DEF f, g, up, down
<1>5. /\ Ins(Over(f, g), m) = Ins(f, m) + Ins(g, m) /\ Outs(Over(f, g), m) = Outs(f, m) + Outs(g, m)
      /\ Ins(f, m) \in Int /\ Ins(g, m) \in Int /\ Outs(f, m) \in Int /\ Outs(g, m) \in Int
  BY <1>1, <1>d, FlowsAdd, FlowsCount
<1>6. Ins(f, m) - Outs(f, m) = MapThenSumSet(LAMBDA i : f[i][m], DOMAIN f)
  BY <1>1, FlowsCancel
<1>7. NetAt(b, Lines(b, fork), m) - NetAt(b, Lines(b, BaseScenario), m) = Ins(f, m) - Outs(f, m)
  BY <1>3, <1>4, <1>5
<1> QED
  BY <1>6, <1>7 DEF f, ComesTo
-----------------------------------------------------------------------------
LEMMA FollowedChecks ==
  ASSUME NEW checks, ChecksOK(checks), NEW renames
  PROVE  LET followed == EffectiveChecks(checks, renames) IN
         /\ DOMAIN followed = DOMAIN checks /\ IsFiniteSet(DOMAIN checks)
         /\ \A n \in DOMAIN checks : /\ IsCheck(followed[n]) /\ followed[n].measure = checks[n].measure
                                     /\ followed[n].period = checks[n].period
<1> DEFINE New(n) == {IF i \in DOMAIN renames THEN renames[i] ELSE i : i \in checks[n].items}
           followed == EffectiveChecks(checks, renames)
<1>1. followed = [n \in DOMAIN checks |-> [checks[n] EXCEPT !.items = New(n)]]
  BY DEF EffectiveChecks
<1>2. IsFiniteSet(DOMAIN checks)
  <2>1. DOMAIN checks = 1 .. Len(checks) /\ Len(checks) \in Nat
    BY DEF ChecksOK, IsList
  <2> QED
    BY <2>1, FS_Interval
<1> HIDE DEF followed, New
<1>3. ASSUME NEW n \in DOMAIN checks
      PROVE  /\ IsCheck(followed[n]) /\ followed[n].measure = checks[n].measure
             /\ followed[n].period = checks[n].period
  <2>1. followed[n] = [checks[n] EXCEPT !.items = New(n)] /\ IsCheck(checks[n])
    BY <1>1 DEF ChecksOK
  <2> QED
    BY <2>1 DEF IsCheck
<1> QED
  BY <1>1, <1>2, <1>3 DEF followed

(* The report, row by row: the figures are those of the book everything    *)
(* that was authored leads to; and what the card carries leads to the same *)
(* ones, if it has no event whose place is taken.                          *)
ReportBook == LET ops == Operations(run.prelude, run.sections) IN Path(run.reported, ops)[Len(ops)]

LEMMA ReportIsOf ==
  ASSUME HonestInv, run.reported # None
  PROVE  LET checks == EffectiveChecks(run.checks, run.renames) IN
         /\ Good(ReportBook)
         /\ run.rows = Evaluate(FiguresFor(ReportBook, run.target), Sheet, checks)
         /\ DOMAIN run.rows = DOMAIN run.checks /\ IsFiniteSet(DOMAIN run.checks)
         /\ \A n \in DOMAIN run.checks :
               /\ run.rows[n] = One(FiguresFor(ReportBook, run.target), Sheet, checks[n])
               /\ IsCheck(checks[n]) /\ checks[n].measure = run.checks[n].measure
               /\ checks[n].period = run.checks[n].period
<1> DEFINE ops == Operations(run.prelude, run.sections)
           b == run.reported
           checks == EffectiveChecks(run.checks, run.renames)
           d == ReportBook
<1>1. run.rows = Reconciled(b, run.target, ops, Sheet, checks).rows
  BY DEF HonestInv, ReportOf
<1>2. Good(d) /\ d = Path(b, ops)[Len(ops)]
  BY CarriedIs DEF ReportBook
<1>3. DOMAIN checks = DOMAIN run.checks /\ IsFiniteSet(DOMAIN run.checks)
      /\ \A n \in DOMAIN run.checks : /\ IsCheck(checks[n]) /\ checks[n].measure = run.checks[n].measure
                                      /\ checks[n].period = run.checks[n].period
  <2>1. ChecksOK(run.checks)
    BY DEF HonestInv
  <2> QED
    BY <2>1, FollowedChecks
<1> HIDE DEF ops, b, checks, d
<1>4. Outcomes(b, ops).book = d
  BY <1>2, OutcomesArePaths
<1>5. run.rows = Evaluate(FiguresFor(d, run.target), Sheet, checks)
  BY <1>1, <1>4 DEF Reconciled
<1>6. /\ DOMAIN run.rows = DOMAIN run.checks
      /\ \A n \in DOMAIN run.checks : run.rows[n] = One(FiguresFor(d, run.target), Sheet, checks[n])
  BY <1>3, <1>5 DEF Evaluate
<1> QED
  BY <1>2, <1>3, <1>5, <1>6 DEF checks, d

LEMMA CarriedGivesTheFigures ==
  ASSUME HonestInv, run.reported # None, ~TakenPlaces(run.reported, run.carried)
  PROVE  FiguresFor(ReportBook, run.target)
            = FiguresFor(Outcomes(run.reported, run.carried).book, run.target)
<1> DEFINE b == run.reported
           ops == run.carried
           d == ReportBook
           c == Path(b, ops)[Len(ops)]
<1>1. SameButLedger(d, c) /\ Unattached(d) = Unattached(c)
  BY CarriedIs DEF ReportBook
<1>2. Outcomes(b, ops).book = c
  BY OutcomesArePaths
<1> HIDE DEF b, ops, d, c
<1>3. FiguresFor(d, run.target) = FiguresFor(c, run.target)
  BY <1>1, FiguresAlike
<1> QED
  BY <1>2, <1>3 DEF b, ops, d

LEMMA MatchesAgree ==
  ASSUME HonestInv, run.reported # None, NEW n \in DOMAIN run.rows
  PROVE  /\ run.rows[n].status = "matched" => run.rows[n].engine \in {run.rows[n].sheet, -run.rows[n].sheet}
         /\ run.rows[n].parity => run.rows[n].status = "mismatched"
<1> DEFINE check == EffectiveChecks(run.checks, run.renames)[n]
           fig == FiguresFor(ReportBook, run.target)
<1>1. Good(ReportBook) /\ run.rows[n] = One(fig, Sheet, check) /\ IsCheck(check)
  BY ReportIsOf
<1>2. IsFigures(fig)
  BY <1>1, ReportFigures
<1> HIDE DEF fig, check
<1> QED
  BY <1>1, <1>2, RowsAreTrue

LEMMA DoneIsClean ==
  ASSUME HonestInv, run.reported # None, run.status = "done"
  PROVE  Tally(run.rows).mismatched = 0
<1> DEFINE wrong == {n \in DOMAIN run.rows : run.rows[n].status = "mismatched"}
<1>1. IsFiniteSet(DOMAIN run.rows)
  BY ReportIsOf
<1>2. Cardinality(wrong) \in Nat
  BY <1>1, FS_Subset, FS_CardinalityType
<1>3. ~(Cardinality(wrong) > 0)
  BY DEF HonestInv, ReportOf, CountOf
<1>4. Cardinality(wrong) = 0
  <2> HIDE DEF wrong
  <2> QED
    BY <1>2, <1>3
<1> QED
  BY <1>4 DEF Tally, CountOf

LEMMA CardGivesTheFigures ==
  ASSUME HonestInv, run.reported # None, card.stamp = run.reported
  PROVE  /\ card.ok <=> ~TakenPlaces(run.reported, run.carried)
         /\ card.ok => run.rows = Evaluate(FiguresFor(Outcomes(card.stamp, card.ops).book, run.target),
                                           Sheet, EffectiveChecks(run.checks, run.renames))
<1>1. card # NoCard
  BY DEF NoCard
<1>2. ~Moved(run.reported, card.stamp)
  BY ReachesItself DEF Moved
<1>3. \/ card.ok = TRUE /\ card.ops = run.carried /\ ~TakenPlaces(run.reported, run.carried)
      \/ card.ok = FALSE /\ TakenPlaces(run.reported, run.carried)
  BY <1>1, <1>2 DEF HonestInv, CardFollows
<1>4. run.rows = Evaluate(FiguresFor(ReportBook, run.target), Sheet, EffectiveChecks(run.checks, run.renames))
  BY ReportIsOf
<1>5. ~TakenPlaces(run.reported, run.carried) =>
         FiguresFor(ReportBook, run.target)
            = FiguresFor(Outcomes(run.reported, run.carried).book, run.target)
  BY CarriedGivesTheFigures
<1> QED
  BY <1>3, <1>4, <1>5

LEMMA ForkTotalsAreItsLines ==
  ASSUME HonestInv, run.reported # None, ForkScenario(run.target.scenario) \in ToSet(run.carried),
         NEW imported, imported = Outcomes(run.reported, run.carried).book.forks[run.target.scenario],
         DOMAIN imported \cap DOMAIN run.reported.base = {},
         NEW n \in DOMAIN run.rows, run.checks[n].measure = "net", run.rows[n].engine # None
  PROVE  run.rows[n].engine = ComesTo(imported, run.checks[n].period)
<1> DEFINE b == run.reported
           ops == run.carried
           fork == run.target.scenario
           c == Path(b, ops)[Len(ops)]
           check == EffectiveChecks(run.checks, run.renames)[n]
           fig == FiguresFor(c, run.target)
           S == Offered(run.target, run.existing)
<1>2. Good(b) /\ ops \in Seq(S)
  BY DEF HonestInv, ReportOf, ForkInv, ListsOK
<1>3. run.target.createdFork /\ S = InFork(fork, run.existing)
  <2>1. ForkScenario(fork) \in S
    <3>1. DOMAIN ops = 1 .. Len(ops) /\ \A i \in 1 .. Len(ops) : ops[i] \in S
      BY <1>2, LenProperties, ElementOfSeq
    <3> QED
      BY <3>1 DEF ToSet
  <2>2. run.target.createdFork
    BY <2>1, OnlyForksFork
  <2> QED
    BY <2>2 DEF Offered
<1>4. Clear(b, ops) /\ ~TakenPlaces(b, ops)
  <2>1. OnlyPlacesFail(b, ops)
    BY CarriedIs
  <2>2. \A op \in S : op.op # "add_event"
    BY <1>3 DEF InFork, ForkScenario, Op, ForkSafeOps
  <2> HIDE DEF S, ops, b
  <2>3. \A i \in DOMAIN ops : ops[i] \in S
    BY <1>2, LenProperties, ElementOfSeq
  <2>4. ~TakenPlaces(b, ops)
    BY <2>2, <2>3 DEF TakenPlaces
  <2> QED
    BY <1>2, <2>1, <2>4, FreePlacesClear DEF b, ops
<1>1. /\ Good(c) /\ c = Outcomes(b, ops).book /\ run.rows[n] = One(fig, Sheet, check) /\ IsCheck(check)
      /\ check.measure = "net" /\ check.period = run.checks[n].period
  <2>1. c = Outcomes(b, ops).book
    BY OutcomesArePaths
  <2>2. fig = FiguresFor(ReportBook, run.target)
    BY <1>4, <2>1, CarriedGivesTheFigures
  <2>3. /\ run.rows[n] = One(FiguresFor(ReportBook, run.target), Sheet, check) /\ IsCheck(check)
        /\ check.measure = "net" /\ check.period = run.checks[n].period
    BY ReportIsOf
  <2>4. Good(c)
    <3>1. Len(ops) \in Nat /\ Len(ops) \in 0 .. Len(ops) /\ \A i \in 1 .. Len(ops) : Measured(ops[i])
      BY <1>2, OfferedAreMeasured, LenProperties, ElementOfSeq
    <3> HIDE DEF b, ops
    <3> QED
      BY <1>2, <3>1, PathsReach
  <2> HIDE DEF c, fig, check
  <2> QED
    BY <2>1, <2>2, <2>3, <2>4
<1>5. \A op \in S : Measured(op)
  BY OfferedAreMeasured
<1>6. ForkScenario(fork) \in ToSet(ops)
  OBVIOUS
<1>7. c.base = b.base /\ c.horizon = b.horizon /\ fork \in DOMAIN c.forks
  <2> HIDE DEF S, ops, b, fork
  <2> QED
    BY <1>2, <1>3, <1>4, <1>5, <1>6, ForksLand
<1>8. imported = c.forks[fork] /\ DOMAIN imported \cap DOMAIN c.base = {}
  BY <1>1, <1>7
<1>9. /\ IsFigures(fig) /\ fig.months = c.horizon
      /\ \A m \in c.horizon : fig.net[m] = NetAt(c, Lines(c, fork), m) - NetAt(c, Lines(c, BaseScenario), m)
  BY <1>1, <1>3, ReportFigures
<1> HIDE DEF c, fig, check, fork, b, ops, S
<1>10. run.rows[n].engine = ValueFor(fig, check) /\ ValueFor(fig, check) # None
  BY <1>1 DEF One, Verdict, Compared
<1>11. check.period \in c.horizon /\ ValueFor(fig, check) = fig.net[check.period]
  BY <1>1, <1>9, <1>10 DEF ValueFor
<1>12. check.period \in AllMonths
  BY <1>1, <1>11 DEF Good, IsCounted
<1>13. NetAt(c, Lines(c, fork), check.period) - NetAt(c, Lines(c, BaseScenario), check.period)
          = ComesTo(c.forks[fork], check.period)
  BY <1>1, <1>7, <1>8, <1>12, NetOfFork
<1>14. run.rows[n].engine = ComesTo(imported, check.period)
  BY <1>8, <1>9, <1>10, <1>11, <1>13
<1> QED
  BY <1>1, <1>14

LEMMA HonestReports == HonestInv => ReportIsHonest
<1> SUFFICES ASSUME HonestInv, run.reported # None PROVE ReportIsHonest
  BY DEF ReportIsHonest
<1>1. \A n \in DOMAIN run.rows : LET r == run.rows[n] IN
         /\ r.status = "matched" => r.engine \in {r.sheet, -r.sheet}
         /\ r.parity => r.status = "mismatched"
  BY MatchesAgree
<1>2. run.status = "done" => Tally(run.rows).mismatched = 0
  BY DoneIsClean
<1>3. card.stamp = run.reported =>
         /\ card.ok <=> ~TakenPlaces(run.reported, run.carried)
         /\ card.ok => run.rows = Evaluate(FiguresFor(Outcomes(card.stamp, card.ops).book, run.target),
                                           Sheet, EffectiveChecks(run.checks, run.renames))
  BY CardGivesTheFigures
<1>4. ForkScenario(run.target.scenario) \in ToSet(run.carried) =>
         LET imported == Outcomes(run.reported, run.carried).book.forks[run.target.scenario]
             Sum(m) == MapThenSumSet(LAMBDA i : imported[i][m], DOMAIN imported)
         IN  DOMAIN imported \cap DOMAIN run.reported.base = {} =>
               \A n \in DOMAIN run.rows :
                  run.checks[n].measure = "net" /\ run.rows[n].engine # None =>
                     run.rows[n].engine = Sum(run.checks[n].period)
  BY ForkTotalsAreItsLines DEF ComesTo
<1> QED
  BY <1>1, <1>2, <1>3, <1>4 DEF ReportIsHonest

(* The report of an import is what its card does, whatever the plan, the   *)
(* answers and the sheet: a matched row agrees to the cent; a card made    *)
(* for the book the report was made for gives the same figures, and it     *)
(* applies in full unless an event of it has the place of one of that book *)
(* (ops/dryrun.py numbers the card anew, ops/applier.py makes the id of an *)
(* event from its place); and a fork's monthly totals are sums over the    *)
(* lines it adds (imports/loop.py, _finish; imports/checks.py, evaluate).  *)
THEOREM ReportsAreHonest == Spec => []ReportIsHonest
<1>1. Init => HonestInv
  BY HonestStart
<1>2. HonestInv /\ [Next]_vars => HonestInv'
  BY HonestStep
<1>3. HonestInv => ReportIsHonest
  BY HonestReports
<1> QED
  BY <1>1, <1>2, <1>3, PTL DEF Spec
=============================================================================
