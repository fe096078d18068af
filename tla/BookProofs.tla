----------------------------- MODULE BookProofs -----------------------------
(***************************************************************************)
(* Theorems about a book on disk, for any processes, items, scenarios and  *)
(* bounds.  About its writer lock: it is exclusive as long as nobody       *)
(* reclaims one, alone and in a book, which moves it only as WriterLock    *)
(* does.  For any number of processes: no revision has a snapshot that saw *)
(* facts beyond the revision's watermark.  For one process at a time:      *)
(* every revision reproduces, what is clean is on disk, diffs are          *)
(* accounted for, and the history is one of pictures.                      *)
(***************************************************************************)
EXTENDS RevisionReads, Sums, SequenceTheorems, TLAPS

-----------------------------------------------------------------------------
(* The writer lock                                                         *)

LEMMA InitExclusive == LockInit => ExclusionInv
<1> SUFFICES ASSUME LockInit PROVE ExclusionInv
  OBVIOUS
<1>1. lockfile \in [by : Writers \cup {NoOne}, written : BOOLEAN]
  BY DEF LockInit, NoFile
<1>2. pc \in [Writers -> Places]
  BY DEF LockInit, Places
<1>3. LockTypeOK
  BY <1>1, <1>2 DEF LockInit, LockTypeOK
<1> QED
  BY <1>3 DEF LockInit, ExclusionInv, Created, Holding

(* A create either takes a free path for its writer or changes no file.    *)
LEMMA CreatePreserves ==
  ASSUME LockTypeOK, NEW w \in Writers, NEW success \in Places, NEW failure \in Places,
         TryCreate(w, success, failure)
  PROVE  /\ lockfile' \in [by : Writers \cup {NoOne}, written : BOOLEAN]
         /\ pc' \in [Writers -> Places]
         /\ \A v \in Writers \ {w} : pc'[v] = pc[v]
         /\ \/ Free /\ lockfile' = [by |-> w, written |-> FALSE] /\ pc'[w] = success
            \/ lockfile' = lockfile /\ pc'[w] = failure
<1>1. CASE Free /\ lockfile' = [by |-> w, written |-> FALSE] /\ Goto(w, success)
  <2>1. lockfile' \in [by : Writers \cup {NoOne}, written : BOOLEAN]
    BY <1>1
  <2> QED
    BY <1>1, <2>1 DEF LockTypeOK, Goto
<1>2. CASE Goto(w, failure) /\ UNCHANGED lockfile
  BY <1>2 DEF LockTypeOK, Goto
<1> QED
  BY <1>1, <1>2 DEF TryCreate

THEOREM TypeStep == LockTypeOK /\ [LockNext]_lockVars => LockTypeOK'
<1> SUFFICES ASSUME LockTypeOK, [LockNext]_lockVars PROVE LockTypeOK'
  OBVIOUS
<1> USE DEF LockTypeOK, Places
<1>1. ASSUME NEW w \in Writers, Acquire(w) PROVE LockTypeOK'
  BY <1>1, CreatePreserves DEF Acquire
<1>2. ASSUME NEW w \in Writers, WriteBody(w) PROVE LockTypeOK'
  BY <1>2 DEF WriteBody, Goto
<1>3. ASSUME NEW w \in Writers, FailBody(w) PROVE LockTypeOK'
  BY <1>3 DEF FailBody, Goto
<1>4. ASSUME NEW w \in Writers, ReadHolder(w) PROVE LockTypeOK'
  BY <1>4 DEF ReadHolder, Goto, Free
<1>5. ASSUME NEW w \in Writers, Refuse(w) PROVE LockTypeOK'
  BY <1>5 DEF Refuse, Goto, Forget
<1>6. ASSUME NEW w \in Writers, Condemn(w) PROVE LockTypeOK'
  BY <1>6 DEF Condemn, Goto, Forget
<1>7. ASSUME NEW w \in Writers, Unlink(w) PROVE LockTypeOK'
  BY <1>7 DEF Unlink, Goto, NoFile
<1>8. ASSUME NEW w \in Writers, CreateAgain(w) PROVE LockTypeOK'
  BY <1>8, CreatePreserves DEF CreateAgain
<1>9. ASSUME NEW w \in Writers, Release(w) PROVE LockTypeOK'
  BY <1>9 DEF Release, Goto, NoFile
<1>10. ASSUME NEW w \in Writers, Die(w) PROVE LockTypeOK'
  BY <1>10 DEF Die, Goto
<1>11. CASE UNCHANGED lockVars
  BY <1>11 DEF lockVars
<1> QED
  BY <1>1, <1>2, <1>3, <1>4, <1>5, <1>6, <1>7, <1>8, <1>9, <1>10, <1>11 DEF LockNext, Proceed

(* The heart of the argument.  Until somebody reclaims, a file can only    *)
(* leave the path when its own writer releases it, and a create finds the  *)
(* path taken as long as it stands.                                        *)
LEMMA ExclusionStep == ExclusionInv /\ [LockNext]_lockVars => ExclusionInv'
<1> SUFFICES ASSUME ExclusionInv, [LockNext]_lockVars PROVE ExclusionInv'
  OBVIOUS
<1> DEFINE Owned == \A w \in Writers :
                       /\ pc[w] \notin {"unlinking", "retrying"}
                       /\ Created(w) => lockfile.by = w
                       /\ Holding(w) => lockfile.written
<1>t. LockTypeOK /\ LockTypeOK'
  BY TypeStep DEF ExclusionInv
<1>s. SUFFICES ASSUME ~reclaimed' PROVE Owned'
  BY <1>t DEF ExclusionInv
<1>r. ~reclaimed
  BY <1>s, <1>t
  DEF LockNext, Proceed, Acquire, WriteBody, FailBody, ReadHolder, Refuse, Condemn, Unlink,
      CreateAgain, Release, Die, lockVars, LockTypeOK
<1>o. Owned
  BY <1>r DEF ExclusionInv
<1> USE DEF Created, Holding
<1>1. ASSUME NEW w \in Writers, Acquire(w) PROVE Owned'
  <2>1. CASE Free /\ lockfile' = [by |-> w, written |-> FALSE] /\ pc'[w] = "writing"
    <3>1. \A v \in Writers : ~Created(v)
      BY <2>1, <1>o, HoldersAreDistinct DEF Free, NoFile
    <3> QED
      BY <3>1, <2>1, <1>1, <1>o, <1>t, CreatePreserves DEF Acquire, Places
  <2>2. CASE lockfile' = lockfile /\ pc'[w] = "blocked"
    BY <2>2, <1>1, <1>o, <1>t, CreatePreserves DEF Acquire, Places
  <2> QED
    BY <2>1, <2>2, <1>1, <1>t, CreatePreserves DEF Acquire, Places
<1>2. ASSUME NEW w \in Writers, WriteBody(w) PROVE Owned'
  BY <1>2, <1>o, <1>t DEF WriteBody, Goto, LockTypeOK
<1>3. ASSUME NEW w \in Writers, FailBody(w) PROVE Owned'
  BY <1>3, <1>o, <1>t DEF FailBody, Goto, LockTypeOK
<1>4. ASSUME NEW w \in Writers, ReadHolder(w) PROVE Owned'
  BY <1>4, <1>o, <1>t DEF ReadHolder, Goto, LockTypeOK
<1>5. ASSUME NEW w \in Writers, Refuse(w) PROVE Owned'
  BY <1>5, <1>o, <1>t DEF Refuse, Goto, LockTypeOK
<1>6. ASSUME NEW w \in Writers, Condemn(w) PROVE Owned'
  BY <1>6, <1>s DEF Condemn
<1>7. ASSUME NEW w \in Writers, Unlink(w) \/ CreateAgain(w) PROVE Owned'
  BY <1>7, <1>o DEF Unlink, CreateAgain
<1>8. ASSUME NEW w \in Writers, Release(w) PROVE Owned'
  <2>1. \A v \in Writers \ {w} : ~Created(v)
    BY <1>8, <1>o DEF Release
  <2> QED
    BY <2>1, <1>8, <1>o, <1>t DEF Release, Goto, LockTypeOK
<1>9. ASSUME NEW w \in Writers, Die(w) PROVE Owned'
  BY <1>9, <1>o, <1>t DEF Die, Goto, LockTypeOK
<1>10. CASE UNCHANGED lockVars
  BY <1>10, <1>o DEF lockVars
<1> QED
  BY <1>1, <1>2, <1>3, <1>4, <1>5, <1>6, <1>7, <1>8, <1>9, <1>10 DEF LockNext, Proceed

LEMMA ExclusionGives == ExclusionInv => ExclusiveUntilReclaimed
<1> SUFFICES ASSUME ExclusionInv, ~reclaimed PROVE ExclusiveUntilReclaimed
  BY DEF ExclusiveUntilReclaimed
<1>1. \A w \in Writers : Holding(w) => lockfile.by = w /\ lockfile.written
  BY DEF ExclusionInv, Created, Holding
<1>2. lockfile = [by |-> lockfile.by, written |-> lockfile.written] /\ lockfile.written \in BOOLEAN
  BY DEF ExclusionInv, LockTypeOK
<1> QED
  BY <1>1, <1>2 DEF ExclusiveUntilReclaimed

(* Type correctness of the lock, for any writers.                          *)
THEOREM LockTypeCorrect == LockSpec => []LockTypeOK
<1>1. LockInit => LockTypeOK
  BY InitExclusive DEF ExclusionInv
<1> QED
  BY <1>1, TypeStep, PTL DEF LockSpec

(* lock.py, "a second concurrent writer fails loudly": in any run in which *)
(* no lock was reclaimed at most one commit holds it, however the system   *)
(* calls of the writers interleave and whoever dies.                       *)
THEOREM LockIsExclusive == LockSpec => []ExclusiveUntilReclaimed
<1>1. LockSpec => []ExclusionInv
  BY InitExclusive, ExclusionStep, PTL DEF LockSpec
<1> QED
  BY <1>1, ExclusionGives, PTL
-----------------------------------------------------------------------------
(* Any number of processes                                                 *)

(* Every action of the book is an action of the lock or leaves it alone.   *)
LEMMA BookMovesLock == [Next]_vars => [LockNext]_lockVars
<1> SUFFICES ASSUME [Next]_vars PROVE [LockNext]_lockVars
  OBVIOUS
<1>1. CASE UNCHANGED vars
  BY <1>1 DEF vars
<1>2. ASSUME NEW w \in Writers,
             EnterCommit(w) \/ GetLock(w) \/ LeaveCommit(w) \/ Crash(w)
      PROVE LockNext
  BY <1>2 DEF EnterCommit, GetLock, LeaveCommit, Crash, LockNext, Proceed
<1>3. ASSUME NEW w \in Writers,
             \/ Open(w) \/ Close(w) \/ WriteFile(w) \/ SaveDone(w) \/ AddEvent(w) \/ Discard(w)
             \/ \E targets \in Targets : ReadWatermark(w, targets)
             \/ BuildState(w) \/ WriteTree(w) \/ WriteRevision(w)
      PROVE UNCHANGED lockVars
  BY <1>3 DEF Open, Close, WriteFile, SaveDone, AddEvent, Discard, ReadWatermark, BuildState,
              WriteTree, WriteRevision
<1>4. ASSUME NEW w \in Writers,
             \/ \E i \in Items : SetItem(w, i) \/ RemoveItem(w, i) \/ DiscardItem(w, i)
             \/ \E p \in Levers : SetParam(w, p)
             \/ \E s \in Scenarios : RunScenario(w, s)
      PROVE UNCHANGED lockVars
  BY <1>4 DEF SetItem, RemoveItem, DiscardItem, SetParam, RunScenario
<1> QED
  BY <1>1, <1>2, <1>3, <1>4 DEF Next

(* A book's commits exclude each other as long as no lock was reclaimed,   *)
(* whatever its processes do beside committing.                            *)
THEOREM BookLockIsExclusive == Spec => []ExclusiveUntilReclaimed
<1>1. Init => ExclusionInv
  BY InitExclusive DEF Init
<1>2. ExclusionInv /\ [Next]_vars => ExclusionInv'
  BY ExclusionStep, BookMovesLock
<1> QED
  BY <1>1, <1>2, ExclusionGives, PTL DEF Spec
-----------------------------------------------------------------------------
(* A state of a book whose ledger has n entries: its summaries saw no more *)
(* than those, and no less than the mark they carry.                       *)
SoundState(state, n) ==
    /\ state \in State
    /\ \A s \in Scenarios :
          LET made == state.summaries[s]
          IN  made # None => made.mark <= made.facts /\ made.facts <= n

(* A state to be recorded: its watermark covers what its summaries saw.    *)
CoveredState(state, n) ==
    /\ state.watermark \in Nat
    /\ SoundState(state, state.watermark)
    /\ SoundState(state, n)

CommitSound(f, n) ==
    f.at # "out" =>
        /\ f = CommitAt(f.at, f.todo, f.mark, f.state)
        /\ f.mark \in Nat /\ f.mark <= n
        /\ f.at # "running" => CoveredState(f.state, n)

(* What one process holds: a commit holds the lock and works on a kit.     *)
ProcessSound(w) ==
    /\ saving[w] # NotSaving =>
          /\ saving[w] = [state |-> saving[w].state, at |-> saving[w].at]
          /\ SoundState(saving[w].state, ledger)
    /\ kit[w] # Closed \/ pc[w] \notin {"idle", "dead"} => SoundState(kit[w], ledger)
    /\ CommitSound(frame[w], ledger)
    /\ frame[w].at # "out" => pc[w] = "holding"

(* What holds the revisions up: wherever a state of the book is kept - the *)
(* tree, the files being written, a kit, a commit on its way - it is sound *)
(* for the ledger as it is.                                                *)
BookInv ==
    /\ LockTypeOK
    /\ ledger \in Nat
    /\ SoundState(tree, ledger)
    /\ revisions \in Seq(State)
    /\ \A n \in DOMAIN revisions : CoveredState(revisions[n], ledger)
    /\ DOMAIN saving = Writers /\ DOMAIN kit = Writers /\ DOMAIN frame = Writers
    /\ \A w \in Writers : ProcessSound(w)

LEMMA SoundGrows ==
  ASSUME NEW n \in Nat, NEW m \in Nat, n <= m, NEW state, SoundState(state, n)
  PROVE  SoundState(state, m)
<1> DEFINE Made(s) == state.summaries[s]
<1>1. ASSUME NEW s \in Scenarios, Made(s) # None
      PROVE Made(s).mark <= Made(s).facts /\ Made(s).facts <= m
  <2>1. Made(s) \in Summary
    BY <1>1 DEF SoundState, State
  <2>2. Made(s).facts \in Nat /\ Made(s).facts <= n
    BY <1>1, <2>1 DEF SoundState, Summary
  <2> QED
    BY <1>1, <2>2 DEF SoundState
<1> QED
  BY <1>1 DEF SoundState

LEMMA CoveredGrows ==
  ASSUME NEW n \in Nat, NEW m \in Nat, n <= m, NEW state, CoveredState(state, n)
  PROVE  CoveredState(state, m)
BY SoundGrows DEF CoveredState

(* What an author writes, and a watermark, leave the summaries as they are. *)
LEMMA EditsAreSound ==
  ASSUME NEW n \in Nat, NEW state, SoundState(state, n),
         NEW items \in SUBSET Items, NEW params \in SUBSET Levers
  PROVE  SoundState([state EXCEPT !.items = items, !.params = params], n)
<1> DEFINE new == [state EXCEPT !.items = items, !.params = params]
<1>1. state \in State
  BY DEF SoundState
<1>2. new \in State /\ new.summaries = state.summaries
  BY <1>1 DEF State
<1> QED
  BY <1>2 DEF SoundState

LEMMA MarksAreSound ==
  ASSUME NEW n \in Nat, NEW state, SoundState(state, n), NEW watermark \in Nat
  PROVE  SoundState([state EXCEPT !.watermark = watermark], n)
<1> DEFINE new == [state EXCEPT !.watermark = watermark]
<1>1. state \in State
  BY DEF SoundState
<1>2. new \in State /\ new.summaries = state.summaries
  BY <1>1 DEF State
<1> QED
  BY <1>2 DEF SoundState

(* A tree between two states is as sound as they are: each summary is of   *)
(* the one or of the other.                                                *)
LEMMA FilesAreSound ==
  ASSUME NEW n \in Nat, NEW state, SoundState(state, n), SoundState(tree, n), NEW f
  PROVE  SoundState(Rewritten(state, f), n)
<1>1. state \in State /\ tree \in State
  BY DEF SoundState
<1>2. Rewritten(state, f) \in State
  BY <1>1 DEF Rewritten, State
<1>3. \A s \in Scenarios : Rewritten(state, f).summaries[s] \in {state.summaries[s], tree.summaries[s]}
  BY DEF Rewritten
<1> QED
  BY <1>2, <1>3 DEF SoundState

LEMMA InitBook == Init => BookInv
<1> SUFFICES ASSUME Init PROVE BookInv
  OBVIOUS
<1>1. LockTypeOK
  BY InitExclusive DEF Init, ExclusionInv
<1>2. SoundState(NewBook, 0)
  BY DEF SoundState, NewBook, State
<1>3. revisions \in Seq(State) /\ DOMAIN revisions = {}
  BY DEF Init
<1>4. \A w \in Writers : pc[w] = "idle" /\ frame[w] = NoCommit
  BY DEF Init, LockInit
<1> QED
  BY <1>1, <1>2, <1>3, <1>4 DEF Init, BookInv, ProcessSound, CommitSound, NoCommit, Closed, NotSaving

(* A step of process w that leaves the ledger and the tree alone disturbs  *)
(* only what w itself holds.                                               *)
LEMMA OthersKeep ==
  ASSUME BookInv, LockTypeOK', NEW w \in Writers, UNCHANGED <<ledger, tree, revisions>>,
         \A v \in Writers \ {w} : /\ saving'[v] = saving[v] /\ kit'[v] = kit[v]
                                  /\ frame'[v] = frame[v] /\ pc'[v] = pc[v],
         DOMAIN saving' = Writers, DOMAIN kit' = Writers, DOMAIN frame' = Writers,
         ProcessSound(w)'
  PROVE  BookInv'
<1>1. \A v \in Writers \ {w} : ProcessSound(v)'
  BY DEF BookInv, ProcessSound
<1> QED
  BY <1>1 DEF BookInv

(* A write of an idle kit, whatever it changes, if its new state is sound. *)
LEMMA SavePreserves ==
  ASSUME BookInv, LockTypeOK', NEW w \in Writers, AtRest(w),
         NEW state, SoundState(state, ledger), Save(w, state),
         UNCHANGED <<lockVars, ledger, revisions, frame>>
  PROVE  BookInv'
<1>1. ProcessSound(w) /\ pc[w] = "idle" /\ pc' = pc
  BY DEF BookInv, AtRest, lockVars
<1>2. saving'[w] = [state |-> state, at |-> 0] /\ kit'[w] = state
  BY DEF BookInv, Save, Writing
<1>3. ProcessSound(w)'
  BY <1>1, <1>2 DEF ProcessSound
<1> QED
  BY <1>1, <1>3, OthersKeep DEF BookInv, Save, Writing

LEMMA AuthoringPreserves ==
  ASSUME BookInv, LockTypeOK', NEW w \in Writers,
         \/ \E i \in Items : SetItem(w, i) \/ RemoveItem(w, i) \/ DiscardItem(w, i)
         \/ \E p \in Levers : SetParam(w, p)
         \/ Discard(w)
  PROVE  BookInv'
<1> DEFINE Edited(items, params) == [kit[w] EXCEPT !.items = items, !.params = params]
<1>r. AtRest(w)
  BY DEF SetItem, RemoveItem, DiscardItem, SetParam, Discard
<1>k. SoundState(kit[w], ledger) /\ kit[w] \in State
  BY <1>r DEF AtRest, Opened, BookInv, ProcessSound, SoundState
<1>h. revisions # <<>> => SoundState(HeadState, ledger) /\ HeadState \in State
  BY DEF BookInv, HeadState, CoveredState, SoundState
<1>e. \A items \in SUBSET Items, params \in SUBSET Levers : SoundState(Edited(items, params), ledger)
  BY <1>k, EditsAreSound DEF BookInv
<1>1. ASSUME NEW i \in Items, SetItem(w, i) PROVE BookInv'
  <2>1. SoundState(Edited(kit[w].items \cup {i}, kit[w].params), ledger)
    BY <1>k, <1>e DEF State
  <2>2. Edited(kit[w].items \cup {i}, kit[w].params) = [kit[w] EXCEPT !.items = @ \cup {i}]
    BY <1>k DEF State
  <2> QED
    BY <1>1, <1>r, <2>1, <2>2, SavePreserves DEF SetItem
<1>2. ASSUME NEW i \in Items, RemoveItem(w, i) PROVE BookInv'
  <2>1. SoundState(Edited(kit[w].items \ {i}, kit[w].params), ledger)
    BY <1>k, <1>e DEF State
  <2>2. Edited(kit[w].items \ {i}, kit[w].params) = [kit[w] EXCEPT !.items = @ \ {i}]
    BY <1>k DEF State
  <2> QED
    BY <1>2, <1>r, <2>1, <2>2, SavePreserves DEF RemoveItem
<1>3. ASSUME NEW i \in Items, DiscardItem(w, i) PROVE BookInv'
  <2> DEFINE items == (kit[w].items \ {i}) \cup (HeadState.items \cap {i})
  <2>1. SoundState(Edited(items, kit[w].params), ledger)
    BY <1>k, <1>e DEF State
  <2>2. Edited(items, kit[w].params)
            = [kit[w] EXCEPT !.items = (@ \ {i}) \cup (HeadState.items \cap {i})]
    BY <1>k DEF State
  <2> QED
    BY <1>3, <1>r, <2>1, <2>2, SavePreserves DEF DiscardItem
<1>4. ASSUME NEW p \in Levers, SetParam(w, p) PROVE BookInv'
  <2>1. SoundState(Edited(kit[w].items, kit[w].params \cup {p}), ledger)
    BY <1>k, <1>e DEF State
  <2>2. Edited(kit[w].items, kit[w].params \cup {p}) = [kit[w] EXCEPT !.params = @ \cup {p}]
    BY <1>k DEF State
  <2> QED
    BY <1>4, <1>r, <2>1, <2>2, SavePreserves DEF SetParam
<1>5. CASE Discard(w)
  BY <1>5, <1>r, <1>h, SavePreserves DEF Discard
<1> QED
  BY <1>1, <1>2, <1>3, <1>4, <1>5

LEMMA TreePreserves ==
  ASSUME BookInv, LockTypeOK', NEW w \in Writers,
         WriteFile(w) \/ SaveDone(w) \/ Open(w) \/ Close(w)
  PROVE  BookInv'
<1>p. ProcessSound(w)
  BY DEF BookInv
<1>1. CASE WriteFile(w)
  <2> DEFINE state == saving[w].state
             f == NextFile(w)
             at == Pass(state, f)
  <2>1. SoundState(state, ledger) /\ saving[w] = [state |-> state, at |-> saving[w].at]
    BY <1>1, <1>p DEF WriteFile, ProcessSound
  <2>2. tree' = Rewritten(state, f) /\ UNCHANGED <<lockVars, ledger, revisions, kit, frame>>
    BY <1>1 DEF WriteFile
  <2>3. SoundState(tree', ledger')
    BY <2>1, <2>2, FilesAreSound DEF BookInv
  <2>4. saving' = [saving EXCEPT ![w].at = at]
    BY <1>1 DEF WriteFile
  <2> HIDE DEF at, f, state
  <2>5. saving'[w] = [state |-> saving[w].state, at |-> at]
    BY <2>1, <2>4 DEF BookInv
  <2>6. ProcessSound(w)'
    BY <1>p, <2>1, <2>2, <2>5 DEF ProcessSound, lockVars, state
  <2>7. \A v \in Writers \ {w} : ProcessSound(v)'
    BY <2>2, <2>4 DEF BookInv, ProcessSound, lockVars
  <2> QED
    BY <2>2, <2>3, <2>4, <2>6, <2>7 DEF BookInv
<1>2. CASE SaveDone(w)
  <2>1. ProcessSound(w)'
    BY <1>2, <1>p DEF SaveDone, ProcessSound, BookInv, lockVars
  <2> QED
    BY <1>2, <2>1, OthersKeep DEF SaveDone, BookInv, lockVars
<1>3. CASE Open(w)
  <2>1. SoundState(tree, ledger) /\ tree \in State
    BY DEF BookInv, SoundState
  <2>2. SoundState(Loaded, ledger)
    <3> DEFINE items == tree.items \ torn
               params == IF ParamsFile \in torn THEN {} ELSE tree.params
    <3>1. items \in SUBSET Items /\ params \in SUBSET Levers
      BY <2>1 DEF State
    <3>2. Loaded = [tree EXCEPT !.items = items, !.params = params]
      BY <2>1 DEF Loaded, State
    <3> QED
      BY <2>1, <3>1, <3>2, EditsAreSound DEF BookInv
  <2>3. ProcessSound(w)'
    BY <1>3, <1>p, <2>2 DEF Open, ProcessSound, BookInv, lockVars, treeVars
  <2> QED
    BY <1>3, <2>3, OthersKeep DEF Open, BookInv, lockVars, treeVars
<1>4. CASE Close(w)
  <2>1. ProcessSound(w)'
    BY <1>4, <1>p DEF Close, AtRest, ProcessSound, BookInv, lockVars, treeVars
  <2> QED
    BY <1>4, <2>1, OthersKeep DEF Close, BookInv, lockVars, treeVars
<1> QED
  BY <1>1, <1>2, <1>3, <1>4

(* The ledger grows under everybody: what was sound for it still is.       *)
LEMMA EventPreserves ==
  ASSUME BookInv, LockTypeOK', NEW w \in Writers, AddEvent(w)
  PROVE  BookInv'
<1>1. /\ ledger \in Nat /\ ledger' \in Nat /\ ledger <= ledger'
      /\ UNCHANGED <<lockVars, tree, saving, revisions, kit, frame>>
  BY DEF AddEvent, BookInv, treeVars
<1>2. SoundState(tree, ledger')
  BY <1>1, SoundGrows DEF BookInv
<1>3. \A n \in DOMAIN revisions : CoveredState(revisions[n], ledger')
  BY <1>1, CoveredGrows DEF BookInv
<1>4. ASSUME NEW v \in Writers PROVE ProcessSound(v)'
  <2>1. ProcessSound(v)
    BY DEF BookInv
  <2>2. saving[v] # NotSaving => SoundState(saving[v].state, ledger')
    BY <1>1, <2>1, SoundGrows DEF ProcessSound
  <2>3. kit[v] # Closed \/ pc[v] \notin {"idle", "dead"} => SoundState(kit[v], ledger')
    BY <1>1, <2>1, SoundGrows DEF ProcessSound
  <2>4. CommitSound(frame[v], ledger')
    <3>1. CommitSound(frame[v], ledger)
      BY <2>1 DEF ProcessSound
    <3>2. CoveredState(frame[v].state, ledger) => CoveredState(frame[v].state, ledger')
      BY <1>1, CoveredGrows
    <3> QED
      BY <1>1, <3>1, <3>2 DEF CommitSound
  <2> QED
    BY <1>1, <2>1, <2>2, <2>3, <2>4 DEF ProcessSound, lockVars
<1> QED
  BY <1>1, <1>2, <1>3, <1>4 DEF BookInv

(* The lock moves: nobody comes to hold it without an open kit, and nobody *)
(* who is committing lets it go but on the way out.                        *)
LEMMA LockPreserves ==
  ASSUME BookInv, LockTypeOK', NEW w \in Writers, EnterCommit(w) \/ GetLock(w) \/ Crash(w)
  PROVE  BookInv'
<1>p. ProcessSound(w) /\ pc \in [Writers -> Places]
  BY DEF BookInv, LockTypeOK
<1>1. CASE EnterCommit(w)
  <2>1. /\ pc[w] = "idle" /\ kit[w] # Closed /\ UNCHANGED bookVars
        /\ \A v \in Writers \ {w} : pc'[v] = pc[v]
    BY <1>1, CreatePreserves DEF EnterCommit, AtRest, Opened, Acquire, BookInv, Places
  <2>2. ProcessSound(w)'
    BY <1>p, <2>1 DEF ProcessSound, bookVars
  <2> QED
    BY <2>1, <2>2, OthersKeep DEF BookInv, bookVars
<1>2. CASE GetLock(w)
  <2>1. pc[w] \notin {"idle", "dead", "holding"} /\ UNCHANGED bookVars
    BY <1>2 DEF GetLock, WriteBody, FailBody, ReadHolder, Refuse, Condemn, Unlink, CreateAgain
  <2>2. \A v \in Writers \ {w} : pc'[v] = pc[v]
    BY <1>2, <1>p
    DEF GetLock, WriteBody, FailBody, ReadHolder, Refuse, Condemn, Unlink, CreateAgain,
        TryCreate, Goto
  <2>3. ProcessSound(w)'
    BY <1>p, <2>1 DEF ProcessSound, bookVars
  <2> QED
    BY <2>1, <2>2, <2>3, OthersKeep DEF BookInv, bookVars
<1>3. CASE Crash(w)
  <2>1. pc' = [pc EXCEPT ![w] = "dead"] /\ UNCHANGED <<ledger, tree, revisions>>
    BY <1>3 DEF Crash, Die, Goto
  <2>2. /\ kit' = [kit EXCEPT ![w] = Closed] /\ frame' = [frame EXCEPT ![w] = NoCommit]
        /\ saving' = [saving EXCEPT ![w] = NotSaving]
    BY <1>3 DEF Crash
  <2>3. ProcessSound(w)'
    BY <1>p, <2>1, <2>2 DEF ProcessSound, CommitSound, NoCommit, BookInv
  <2> QED
    BY <1>p, <2>1, <2>2, <2>3, OthersKeep DEF BookInv
<1> QED
  BY <1>1, <1>2, <1>3

(* A commit reads the ledger for its mark, then for each run, then for the *)
(* watermark of its state, and the ledger only grows between these reads.  *)
LEMMA CommitPreserves ==
  ASSUME BookInv, LockTypeOK', NEW w \in Writers,
         \/ \E targets \in Targets : ReadWatermark(w, targets)
         \/ \E s \in Scenarios : RunScenario(w, s)
         \/ BuildState(w) \/ WriteTree(w)
  PROVE  BookInv'
<1> DEFINE f == frame[w]
<1>p. ProcessSound(w) /\ ledger \in Nat
  BY DEF BookInv
<1>c. CommitSound(f, ledger)
  BY <1>p DEF ProcessSound
<1>k. f.at # "out" \/ pc[w] = "holding" =>
         pc[w] = "holding" /\ SoundState(kit[w], ledger) /\ kit[w] \in State
  BY <1>p DEF ProcessSound, SoundState
<1>1. ASSUME NEW targets \in Targets, ReadWatermark(w, targets) PROVE BookInv'
  <2>1. frame'[w] = CommitAt("running", targets, ledger, None)
    BY <1>1 DEF ReadWatermark, BookInv
  <2>2. CommitSound(frame'[w], ledger)
    BY <1>p, <2>1 DEF CommitSound, CommitAt
  <2>3. ProcessSound(w)'
    BY <1>1, <1>p, <2>2 DEF ReadWatermark, ProcessSound, lockVars, treeVars
  <2> QED
    BY <1>1, <2>3, OthersKeep DEF ReadWatermark, BookInv, lockVars, treeVars
<1>2. ASSUME NEW s \in Scenarios, RunScenario(w, s) PROVE BookInv'
  <2> DEFINE made == [plan |-> Plan(kit[w]), facts |-> ledger, mark |-> f.mark]
             new == [kit[w] EXCEPT !.summaries[s] = made]
  <2>0. f.at = "running" /\ UNCHANGED <<lockVars, ledger, treeVars, revisions>>
    BY <1>2 DEF RunScenario
  <2>1. f.mark \in Nat /\ f.mark <= ledger /\ f = CommitAt("running", f.todo, f.mark, f.state)
    BY <1>c, <2>0 DEF CommitSound
  <2>2. made \in Summary
    BY <1>k, <1>p, <2>0, <2>1 DEF Summary, Plan, State
  <2>3. new \in State /\ new.summaries = [kit[w].summaries EXCEPT ![s] = made]
    BY <1>k, <2>0, <2>2 DEF State
  <2>4. \A t \in Scenarios : new.summaries[t] = IF t = s THEN made ELSE kit[w].summaries[t]
    BY <1>k, <2>0, <2>3 DEF State
  <2>5. made.mark <= made.facts /\ made.facts <= ledger
    BY <1>p, <2>1
  <2>6. SoundState(new, ledger)
    BY <1>k, <2>0, <2>3, <2>4, <2>5 DEF SoundState
  <2>7. kit' = [kit EXCEPT ![w] = new]
    BY <1>2 DEF RunScenario
  <2>8. frame' = [frame EXCEPT ![w].todo = f.todo \ {s}]
    BY <1>2 DEF RunScenario
  <2>9. CommitSound(frame'[w], ledger) /\ frame'[w].at = "running"
    <3> DEFINE todo == f.todo \ {s}
    <3>1. frame' = [frame EXCEPT ![w].todo = todo]
      BY <2>8
    <3> HIDE DEF todo
    <3>2. frame'[w] = CommitAt("running", todo, f.mark, f.state)
      BY <2>1, <3>1 DEF BookInv, CommitAt
    <3> QED
      BY <2>1, <3>2 DEF CommitSound, CommitAt
  <2> HIDE DEF new
  <2>10. kit'[w] = new
    BY <2>7 DEF BookInv
  <2>11. ProcessSound(w)'
    BY <1>p, <1>k, <2>0, <2>6, <2>9, <2>10 DEF ProcessSound, lockVars, treeVars
  <2> QED
    BY <2>0, <2>7, <2>8, <2>11, OthersKeep DEF BookInv, lockVars, treeVars
<1>3. CASE BuildState(w)
  <2> DEFINE new == [kit[w] EXCEPT !.watermark = ledger]
  <2>0. f.at = "running" /\ UNCHANGED <<lockVars, ledger, treeVars, revisions, kit>>
    BY <1>3 DEF BuildState
  <2>1. SoundState(new, ledger) /\ new.watermark = ledger
    BY <1>k, <1>p, <2>0, MarksAreSound DEF State
  <2>2. frame' = [frame EXCEPT ![w] = CommitAt("built", {}, f.mark, new)]
    BY <1>3 DEF BuildState
  <2>3. CommitSound(frame'[w], ledger)
    BY <1>p, <1>c, <2>0, <2>1, <2>2 DEF CommitSound, CommitAt, CoveredState, BookInv
  <2>4. ProcessSound(w)'
    BY <1>p, <1>k, <2>0, <2>3 DEF ProcessSound, lockVars, treeVars
  <2> QED
    BY <2>0, <2>2, <2>4, OthersKeep DEF BookInv, lockVars, treeVars
<1>4. CASE WriteTree(w)
  <2>0. f.at = "built" /\ UNCHANGED <<lockVars, ledger, tree, revisions, kit>>
    BY <1>4 DEF WriteTree
  <2>1. f = CommitAt("built", f.todo, f.mark, f.state) /\ CoveredState(f.state, ledger)
    BY <1>c, <2>0 DEF CommitSound
  <2>2. frame' = [frame EXCEPT ![w].at = "written"]
    BY <1>4 DEF WriteTree
  <2>3. frame'[w] = CommitAt("written", f.todo, f.mark, f.state)
    BY <2>1, <2>2 DEF BookInv, CommitAt
  <2>4. CommitSound(frame'[w], ledger)
    BY <1>c, <2>0, <2>1, <2>3 DEF CommitSound, CommitAt
  <2>5. saving' = [saving EXCEPT ![w] = [state |-> f.state, at |-> 0]]
    BY <1>4 DEF WriteTree, Writing
  <2>6. ProcessSound(w)'
    BY <1>p, <1>k, <2>0, <2>1, <2>4, <2>5 DEF ProcessSound, CoveredState, BookInv, lockVars
  <2> QED
    BY <2>0, <2>2, <2>5, <2>6, OthersKeep DEF BookInv, lockVars
<1> QED
  BY <1>1, <1>2, <1>3, <1>4

(* What is recorded was built from a sound kit and covers its summaries.   *)
LEMMA RecordPreserves ==
  ASSUME BookInv, LockTypeOK', NEW w \in Writers, WriteRevision(w)
  PROVE  BookInv'
<1> DEFINE f == frame[w]
           next == IF revisions # <<>> /\ HeadState = f.state THEN "empty" ELSE "recorded"
<1>p. ProcessSound(w) /\ ledger \in Nat
  BY DEF BookInv
<1>0. f.at = "written" /\ UNCHANGED <<lockVars, ledger, tree, kit>>
  BY DEF WriteRevision
<1>1. f = CommitAt("written", f.todo, f.mark, f.state) /\ CoveredState(f.state, ledger)
  BY <1>p, <1>0 DEF ProcessSound, CommitSound
<1>2. saving' = [saving EXCEPT ![w] = NotSaving] /\ frame' = [frame EXCEPT ![w].at = next]
  BY DEF WriteRevision
<1>3. revisions' = revisions \/ revisions' = Append(revisions, f.state)
  BY DEF WriteRevision
<1>4. revisions' \in Seq(State) /\ \A n \in DOMAIN revisions' : CoveredState(revisions'[n], ledger')
  <2>1. CASE revisions' = revisions
    BY <2>1, <1>0 DEF BookInv
  <2>2. CASE revisions' = Append(revisions, f.state)
    <3>1. f.state \in State
      BY <1>1 DEF CoveredState, SoundState
    <3>2. revisions' \in Seq(State) /\ Len(revisions') = Len(revisions) + 1
      BY <2>2, <3>1 DEF BookInv
    <3>3. ASSUME NEW n \in DOMAIN revisions' PROVE CoveredState(revisions'[n], ledger)
      BY <2>2, <3>1, <3>2, <1>1 DEF BookInv
    <3> QED
      BY <3>2, <3>3, <1>0
  <2> QED
    BY <1>3, <2>1, <2>2
<1> HIDE DEF next
<1>5. frame'[w] = CommitAt(next, f.todo, f.mark, f.state) /\ next \in {"empty", "recorded"}
  BY <1>1, <1>2 DEF BookInv, CommitAt, next
<1>6. CommitSound(frame'[w], ledger)
  BY <1>p, <1>0, <1>1, <1>5 DEF ProcessSound, CommitSound, CommitAt
<1>7. ProcessSound(w)'
  BY <1>p, <1>0, <1>2, <1>6 DEF ProcessSound, BookInv, lockVars
<1>8. \A v \in Writers \ {w} : ProcessSound(v)'
  BY <1>0, <1>2 DEF BookInv, ProcessSound, lockVars
<1> QED
  BY <1>0, <1>2, <1>4, <1>7, <1>8 DEF BookInv

LEMMA LeavePreserves ==
  ASSUME BookInv, LockTypeOK', NEW w \in Writers, LeaveCommit(w)
  PROVE  BookInv'
<1> DEFINE f == frame[w]
           marked == [kit[w] EXCEPT !.watermark = f.mark]
<1>p. ProcessSound(w) /\ ledger \in Nat
  BY DEF BookInv
<1>0. /\ f.at # "out" /\ pc' = [pc EXCEPT ![w] = "idle"]
      /\ UNCHANGED <<ledger, treeVars, revisions>> /\ frame' = [frame EXCEPT ![w] = NoCommit]
  BY DEF LeaveCommit, Release, Goto
<1>1. f.mark \in Nat /\ SoundState(kit[w], ledger)
  BY <1>p, <1>0 DEF ProcessSound, CommitSound
<1>2. SoundState(marked, ledger)
  BY <1>p, <1>1, MarksAreSound
<1>3. kit' = kit \/ kit' = [kit EXCEPT ![w] = marked]
  BY DEF LeaveCommit
<1> HIDE DEF marked
<1>4. SoundState(kit'[w], ledger)
  BY <1>1, <1>2, <1>3 DEF BookInv
<1>5. pc \in [Writers -> Places]
  BY DEF BookInv, LockTypeOK
<1>6. ProcessSound(w)'
  BY <1>p, <1>0, <1>4, <1>5 DEF ProcessSound, CommitSound, NoCommit, BookInv, treeVars
<1> QED
  BY <1>0, <1>3, <1>5, <1>6, OthersKeep DEF BookInv, treeVars

LEMMA BookStep == BookInv /\ [Next]_vars => BookInv'
<1> SUFFICES ASSUME BookInv, [Next]_vars PROVE BookInv'
  OBVIOUS
<1>t. LockTypeOK'
  BY TypeStep, BookMovesLock DEF BookInv
<1>1. CASE UNCHANGED vars
  BY <1>1, <1>t DEF vars, lockVars, bookVars, BookInv, ProcessSound
<1>2. ASSUME NEW w \in Writers,
             \/ \E i \in Items : SetItem(w, i) \/ RemoveItem(w, i) \/ DiscardItem(w, i)
             \/ \E p \in Levers : SetParam(w, p)
             \/ Discard(w)
      PROVE BookInv'
  BY <1>t, <1>2, AuthoringPreserves
<1>3. ASSUME NEW w \in Writers, WriteFile(w) \/ SaveDone(w) \/ Open(w) \/ Close(w)
      PROVE BookInv'
  BY <1>t, <1>3, TreePreserves
<1>4. ASSUME NEW w \in Writers, AddEvent(w) PROVE BookInv'
  BY <1>t, <1>4, EventPreserves
<1>5. ASSUME NEW w \in Writers, EnterCommit(w) \/ GetLock(w) \/ Crash(w) PROVE BookInv'
  BY <1>t, <1>5, LockPreserves
<1>6. ASSUME NEW w \in Writers,
             \/ \E targets \in Targets : ReadWatermark(w, targets)
             \/ \E s \in Scenarios : RunScenario(w, s)
             \/ BuildState(w) \/ WriteTree(w)
      PROVE BookInv'
  BY <1>t, <1>6, CommitPreserves
<1>7. ASSUME NEW w \in Writers, WriteRevision(w) PROVE BookInv'
  BY <1>t, <1>7, RecordPreserves
<1>8. ASSUME NEW w \in Writers, LeaveCommit(w) PROVE BookInv'
  BY <1>t, <1>8, LeavePreserves
<1> QED
  BY <1>1, <1>2, <1>3, <1>4, <1>5, <1>6, <1>7, <1>8 DEF Next

(* kit.py, commit(): the ledger is read three times with nothing to stop   *)
(* an import or another process from appending in between, and still no    *)
(* revision carries a snapshot of facts its watermark does not cover, for  *)
(* any number of processes, of revisions and of scenarios.                 *)
THEOREM SnapshotsStayWithinWatermark == Spec => []SnapshotsWithinWatermark
<1>1. BookInv => SnapshotsWithinWatermark
  BY DEF BookInv, CoveredState, SoundState, SnapshotsWithinWatermark
<1> QED
  BY <1>1, InitBook, BookStep, PTL DEF Spec
-----------------------------------------------------------------------------
(* A book opened by one process at a time, whose commits run every         *)
(* scenario: what commit() does of itself.                                 *)
OneProcess == MaxOpen = 1 /\ Targets = {Scenarios}

SamePlan(a, b) == a.items = b.items /\ a.params = b.params

(* A picture: every summary was made from the state's own configuration    *)
(* and from all of the ledger the state's watermark covers.                *)
Whole(state, n) == [plan |-> Plan(state), facts |-> n, mark |-> n]
Pictured(state, n) ==
    /\ state.watermark = n
    /\ \A s \in Scenarios : state.summaries[s] = Whole(state, n)

(* Nobody but the process that has the book open is in the middle of       *)
(* anything.                                                               *)
AtMostOne == Opened = {} \/ \E w \in Writers : Opened = {w}
Absent(w) == frame[w] = NoCommit /\ saving[w] = NotSaving /\ pc[w] \in {"idle", "dead"}
Alone == AtMostOne /\ \A w \in Writers \ Opened : Absent(w)

(* The ledger and the kit's plan stand still while the only process that   *)
(* has the book open commits: what it has run is a picture of now.         *)
Committing(w) ==
    LET f == frame[w] IN
    /\ f.at \in {"out", "running", "built", "written", "recorded", "empty"}
    /\ f.at = "out" => f = NoCommit
    /\ f.at = "running" =>
          /\ f.mark = ledger
          /\ \A s \in Scenarios \ f.todo : kit[w].summaries[s] = Whole(kit[w], ledger)
    /\ f.at \notin {"out", "running"} =>
          f.mark = ledger /\ Pictured(f.state, ledger) /\ SamePlan(f.state, kit[w])
    /\ saving[w] # NotSaving =>
          /\ f.at = "written" \/ (f.at = "out" /\ pc[w] = "idle")
          /\ f.at = "written" => saving[w].state = f.state
          /\ SamePlan(saving[w].state, kit[w])

(* The tree is what the kit holds, or becomes so file by file; an emptied  *)
(* file is read as load_state reads it.                                    *)
SavedUpTo(state, at) == \A f \in Files : Pass(state, f) <= at => ~Differs(state, f)
OnDisk(w) ==
    IF saving[w] = NotSaving THEN Loads /\ SamePlan(Loaded, kit[w])
    ELSE saving[w].at \in Nat /\ SavedUpTo(saving[w].state, saving[w].at)

(* No item of a revision is missing later unless somebody took it out.     *)
KeptIn(m, items) == revisions[m].items \ items \subseteq removed
Kept ==
    \A m \in DOMAIN revisions :
        /\ \A n \in DOMAIN revisions : m < n => KeptIn(m, revisions[n].items)
        /\ KeptIn(m, tree.items)
        /\ \A w \in Opened : KeptIn(m, kit[w].items)

Pictures == \A n \in DOMAIN revisions : Pictured(revisions[n], revisions[n].watermark)

SoloInv ==
    /\ Alone
    /\ \A w \in Opened : Committing(w) /\ OnDisk(w)
    /\ torn \subseteq Files
    /\ Kept
    /\ Pictures

(* What one process may do in a step.                                      *)
Acts(w) ==
    \/ Open(w) \/ Close(w)
    \/ \E i \in Items : SetItem(w, i) \/ RemoveItem(w, i) \/ DiscardItem(w, i)
    \/ \E p \in Levers : SetParam(w, p)
    \/ WriteFile(w) \/ SaveDone(w)
    \/ AddEvent(w)
    \/ Discard(w)
    \/ EnterCommit(w)
    \/ GetLock(w)
    \/ \E targets \in Targets : ReadWatermark(w, targets)
    \/ \E s \in Scenarios : RunScenario(w, s)
    \/ BuildState(w)
    \/ WriteTree(w)
    \/ WriteRevision(w)
    \/ LeaveCommit(w)
    \/ Crash(w)

(* The passes over a state give every file a moment of its own.            *)
LEMMA PlaceOfFile ==
  ASSUME NEW f \in Files
  PROVE  Place(f) \in 1 .. Len(Layout) /\ Layout[Place(f)] = f /\ Len(Layout) \in Nat
<1>1. \E n \in DOMAIN Layout : Layout[n] = f
  BY LayoutIsComplete
<1>2. Place(f) \in DOMAIN Layout /\ Layout[Place(f)] = f
  BY <1>1 DEF Place
<1> QED
  BY <1>2, LayoutIsComplete

LEMMA PassOfFile ==
  ASSUME NEW state, NEW f \in Files
  PROVE  /\ Pass(state, f) \in Nat \ {0}
         /\ \A g \in Files : Pass(state, f) = Pass(state, g) => f = g
<1>1. Place(f) \in 1 .. Len(Layout) /\ Layout[Place(f)] = f /\ Len(Layout) \in Nat
  BY PlaceOfFile
<1>2. ASSUME NEW g \in Files, Pass(state, f) = Pass(state, g) PROVE f = g
  <2>1. Place(g) \in 1 .. Len(Layout) /\ Layout[Place(g)] = g
    BY PlaceOfFile
  <2>2. Place(f) = Place(g)
    BY <1>1, <1>2, <2>1 DEF Pass
  <2> QED
    BY <1>1, <2>1, <2>2
<1> QED
  BY <1>1, <1>2 DEF Pass

LEMMA SomeFileIsNext ==
  ASSUME NEW w \in Writers, Changing(w) # {}
  PROVE  /\ NextFile(w) \in Changing(w) /\ NextFile(w) \in Files
         /\ \A g \in Changing(w) : Pass(saving[w].state, NextFile(w)) <= Pass(saving[w].state, g)
<1> DEFINE state == saving[w].state
           T == {Pass(state, f) : f \in Changing(w)}
<1>1. Changing(w) \subseteq Files
  BY DEF Changing
<1>2. T \subseteq Nat /\ T # {}
  BY <1>1, PassOfFile
<1>3. PICK m \in T : \A n \in T : m <= n
  BY <1>2, LeastNatural
<1>4. \E f \in Changing(w) : \A g \in Changing(w) : Pass(state, f) <= Pass(state, g)
  BY <1>3
<1> QED
  BY <1>1, <1>4 DEF NextFile

(* A rewritten file is the state's, every other is as it was.              *)
LEMMA ContentOfRewritten ==
  ASSUME NEW state \in State, tree \in State,
         NEW f \in Files, NEW g \in Files
  PROVE  Content(Rewritten(state, f), g) = IF g = f THEN Content(state, g) ELSE Content(tree, g)
<1> DEFINE new == Rewritten(state, f)
<1>1. CASE g = BookFile
  BY <1>1, FilesAreDistinct DEF Content, Rewritten
<1>2. CASE g = ParamsFile
  BY <1>2, FilesAreDistinct DEF Content, Rewritten
<1>3. CASE g \in Items
  <2>1. \A x : Content(x, g) = (g \in x.items)
    BY <1>3, FilesAreDistinct DEF Content
  <2>2. new.items = (tree.items \ {f}) \cup (state.items \cap {f})
    BY DEF Rewritten
  <2> QED
    BY <2>1, <2>2
<1>4. CASE g \in Scenarios
  <2>1. \A x : Content(x, g) = x.summaries[g]
    BY <1>4, FilesAreDistinct DEF Content
  <2>2. new.summaries[g] = IF f = g THEN state.summaries[g] ELSE tree.summaries[g]
    BY <1>4 DEF Rewritten
  <2> QED
    BY <2>1, <2>2
<1> QED
  BY <1>1, <1>2, <1>3, <1>4 DEF Files

LEMMA LoadedIs ==
  ASSUME tree \in State
  PROVE  /\ Loaded.items = tree.items \ torn
         /\ Loaded.params = IF ParamsFile \in torn THEN {} ELSE tree.params
         /\ Loaded \in State
BY DEF Loaded, State

(* When nothing is left to change the tree is the state that was saved.    *)
LEMMA SavedIsOnDisk ==
  ASSUME NEW w \in Writers, tree \in State, saving[w].state \in State, torn \subseteq Files,
         SavedUpTo(saving[w].state, saving[w].at), saving[w].at \in Nat, Changing(w) = {}
  PROVE  Loads /\ SamePlan(Loaded, saving[w].state) /\ SamePlan(tree, saving[w].state)
<1> DEFINE state == saving[w].state
<1>1. \A f \in Files : ~Differs(state, f)
  <2> SUFFICES ASSUME NEW f \in Files PROVE ~Differs(state, f)
    OBVIOUS
  <2>1. Pass(state, f) \in Nat
    BY PassOfFile
  <2>2. Pass(state, f) <= saving[w].at \/ Pass(state, f) > saving[w].at
    BY <2>1
  <2>3. CASE Pass(state, f) <= saving[w].at
    BY <2>3 DEF SavedUpTo
  <2>4. CASE Pass(state, f) > saving[w].at
    BY <2>4 DEF Changing
  <2> QED BY <2>2, <2>3, <2>4
<1>2. torn = {}
  BY <1>1 DEF Differs
<1>3. \A f \in Files : Content(tree, f) = Content(state, f)
  BY <1>1 DEF Differs
<1>4. tree.params = state.params
  <2>1. \A x : Content(x, ParamsFile) = x.params
    BY FilesAreDistinct DEF Content
  <2> QED BY <1>3, <2>1 DEF Files
<1>5. tree.items = state.items
  <2>1. ASSUME NEW i \in Items PROVE i \in tree.items <=> i \in state.items
    <3>1. \A x : Content(x, i) = (i \in x.items)
      BY FilesAreDistinct DEF Content
    <3> QED BY <1>3, <3>1 DEF Files
  <2>2. tree.items \subseteq Items /\ state.items \subseteq Items
    BY DEF State
  <2> QED BY <2>1, <2>2
<1> QED
  BY <1>2, <1>4, <1>5, LoadedIs DEF Loads, SamePlan

(* A step of w leaves what the others hold alone.                          *)
OthersWait(w) ==
    \A v \in Writers \ {w} :
        kit'[v] = kit[v] /\ frame'[v] = frame[v] /\ saving'[v] = saving[v] /\ pc'[v] = pc[v]

LEMMA ActorIsAlone ==
  ASSUME Alone, NEW w \in Opened
  PROVE  w \in Writers /\ Opened = {w}
BY DEF Alone, AtMostOne, Opened

(* So a step is as good as its actor's: the others neither hold nor do     *)
(* anything.                                                               *)
LEMMA SoloFromActor ==
  ASSUME SoloInv, NEW w \in Writers, Opened \subseteq {w}, OthersWait(w),
         w \in Opened' => (Committing(w) /\ OnDisk(w))',
         w \notin Opened' => Absent(w)',
         (torn \subseteq Files)', Kept', Pictures'
  PROVE  SoloInv'
<1>1. Opened' \subseteq {w}
  <2>1. ASSUME NEW v \in Writers, v # w PROVE kit'[v] = Closed
    BY <2>1 DEF OthersWait, Opened
  <2> QED BY <2>1 DEF Opened
<1>2. AtMostOne'
  BY <1>1 DEF AtMostOne
<1>3. ASSUME NEW v \in Writers, v \notin Opened' PROVE Absent(v)'
  <2>1. CASE v = w
    BY <1>3, <2>1
  <2>2. CASE v # w
    <3>1. Absent(v)
      BY <2>2 DEF SoloInv, Alone
    <3> QED BY <2>2, <3>1 DEF OthersWait, Absent
  <2> QED BY <2>1, <2>2
<1>4. Alone'
  BY <1>2, <1>3 DEF Alone
<1>5. \A v \in Opened' : (Committing(v) /\ OnDisk(v))'
  BY <1>1
<1> QED
  BY <1>4, <1>5 DEF SoloInv

(* What was kept stays so in a step that writes no revision, if the tree   *)
(* and the kit still keep it.                                              *)
LEMMA KeptStays ==
  ASSUME Kept, revisions' = revisions, removed \subseteq removed',
         \A m \in DOMAIN revisions :
             /\ revisions[m].items \ tree'.items \subseteq removed'
             /\ \A w \in Opened' : revisions[m].items \ kit'[w].items \subseteq removed'
  PROVE  Kept' /\ (Pictures => Pictures')
BY DEF Kept, KeptIn, Pictures, Pictured, Plan, Whole

(* Every write of a kit at rest.                                           *)
LEMMA SaveSolo ==
  ASSUME BookInv, BookInv', SoloInv, NEW w \in Writers, AtRest(w),
         NEW state \in State, Save(w, state),
         UNCHANGED <<lockVars, ledger, revisions, frame>>, removed \subseteq removed',
         \A m \in DOMAIN revisions : revisions[m].items \ state.items \subseteq removed'
  PROVE  SoloInv'
<1>1. Opened = {w} /\ pc[w] = "idle" /\ pc' = pc
  BY ActorIsAlone DEF AtRest, SoloInv, lockVars
<1>2. frame[w].at = "out" /\ frame'[w] = NoCommit
  BY <1>1 DEF BookInv, ProcessSound, SoloInv, Committing
<1>3. kit'[w] = state /\ saving'[w] = [state |-> state, at |-> 0] /\ UNCHANGED <<tree, torn>>
  BY DEF Save, Writing, BookInv
<1>4. OthersWait(w)
  BY <1>1 DEF OthersWait, Save, Writing, BookInv
<1>5. saving'[w] # NotSaving /\ saving'[w].state = state /\ saving'[w].at = 0
  BY <1>3, NoneIsNoValue DEF NotSaving
<1>6. (Committing(w) /\ OnDisk(w))'
  <2>1. Committing(w)'
    BY <1>1, <1>2, <1>3, <1>5 DEF Committing, SamePlan
  <2>2. \A f \in Files : ~(Pass(state, f) <= 0)
    BY PassOfFile
  <2>3. OnDisk(w)'
    BY <1>5, <2>2 DEF OnDisk, SavedUpTo
  <2> QED BY <2>1, <2>3
<1>7. w \in Opened'
  BY <1>3, NoneIsNoValue DEF Opened, Closed
<1>8. Opened' \subseteq {w}
  BY <1>1, <1>4 DEF Opened, OthersWait
<1>9. Kept' /\ (Pictures => Pictures')
  <2>1. \A m \in DOMAIN revisions : revisions[m].items \ tree'.items \subseteq removed'
    BY <1>3 DEF SoloInv, Kept, KeptIn
  <2>2. \A v \in Opened', m \in DOMAIN revisions : revisions[m].items \ kit'[v].items \subseteq removed'
    BY <1>3, <1>8
  <2> QED BY <2>1, <2>2, KeptStays DEF SoloInv
<1> QED
  BY <1>1, <1>3, <1>4, <1>6, <1>7, <1>9, SoloFromActor DEF SoloInv

(* The last revision keeps what every revision has.                        *)
LEMMA HeadKeeps ==
  ASSUME BookInv, Kept, revisions # <<>>
  PROVE  HeadState \in State /\ \A m \in DOMAIN revisions : KeptIn(m, HeadState.items)
<1>1. revisions \in Seq(State) /\ Len(revisions) \in DOMAIN revisions
  BY DEF BookInv
<1>2. ASSUME NEW m \in DOMAIN revisions PROVE KeptIn(m, HeadState.items)
  <2>1. m < Len(revisions) \/ m = Len(revisions)
    BY <1>1
  <2> QED BY <1>1, <2>1 DEF Kept, KeptIn, HeadState
<1> QED BY <1>1, <1>2 DEF HeadState

LEMMA AuthoringSolo ==
  ASSUME BookInv, BookInv', SoloInv, NEW w \in Writers,
         \/ \E i \in Items : SetItem(w, i) \/ RemoveItem(w, i) \/ DiscardItem(w, i)
         \/ \E p \in Levers : SetParam(w, p)
         \/ Discard(w)
  PROVE  SoloInv'
<1>r. AtRest(w) /\ w \in Opened
  BY DEF SetItem, RemoveItem, DiscardItem, SetParam, Discard, AtRest
<1>k. kit[w] \in State /\ DOMAIN kit[w].summaries = Scenarios
  BY <1>r DEF AtRest, Opened, BookInv, ProcessSound, SoundState, State
<1>m. \A m \in DOMAIN revisions : revisions[m].items \ kit[w].items \subseteq removed
  BY <1>r DEF SoloInv, Kept, KeptIn
<1>1. ASSUME NEW i \in Items, SetItem(w, i) PROVE SoloInv'
  <2> DEFINE state == [kit[w] EXCEPT !.items = @ \cup {i}]
  <2>1. state \in State /\ state.items = kit[w].items \cup {i}
    BY <1>k DEF State
  <2>2. Save(w, state) /\ UNCHANGED <<lockVars, ledger, revisions, frame, removed>>
    BY <1>1 DEF SetItem
  <2> HIDE DEF state
  <2> QED BY <1>r, <1>m, <2>1, <2>2, SaveSolo
<1>2. ASSUME NEW i \in Items, RemoveItem(w, i) PROVE SoloInv'
  <2> DEFINE state == [kit[w] EXCEPT !.items = @ \ {i}]
  <2>1. state \in State /\ state.items = kit[w].items \ {i}
    BY <1>k DEF State
  <2>2. /\ Save(w, state) /\ UNCHANGED <<lockVars, ledger, revisions, frame>>
        /\ removed' = removed \cup {i}
    BY <1>2 DEF RemoveItem
  <2> HIDE DEF state
  <2> QED BY <1>r, <1>m, <2>1, <2>2, SaveSolo
<1>3. ASSUME NEW i \in Items, DiscardItem(w, i) PROVE SoloInv'
  <2> DEFINE state == [kit[w] EXCEPT !.items = (@ \ {i}) \cup (HeadState.items \cap {i})]
  <2>1. state \in State /\ state.items = (kit[w].items \ {i}) \cup (HeadState.items \cap {i})
    BY <1>k DEF State
  <2>2. /\ Save(w, state) /\ UNCHANGED <<lockVars, ledger, revisions, frame>> /\ revisions # <<>>
        /\ removed' = removed \cup (({i} \cap kit[w].items) \ HeadState.items)
    BY <1>3 DEF DiscardItem
  <2>3. \A m \in DOMAIN revisions : revisions[m].items \ HeadState.items \subseteq removed
    BY <2>2, HeadKeeps DEF SoloInv, KeptIn
  <2> HIDE DEF state
  <2>4. \A m \in DOMAIN revisions : revisions[m].items \ state.items \subseteq removed'
    BY <1>m, <2>1, <2>2, <2>3
  <2> QED BY <1>r, <2>1, <2>2, <2>4, SaveSolo
<1>4. ASSUME NEW p \in Levers, SetParam(w, p) PROVE SoloInv'
  <2> DEFINE state == [kit[w] EXCEPT !.params = @ \cup {p}]
  <2>1. state \in State /\ state.items = kit[w].items
    BY <1>k DEF State
  <2>2. Save(w, state) /\ UNCHANGED <<lockVars, ledger, revisions, frame, removed>>
    BY <1>4 DEF SetParam
  <2> HIDE DEF state
  <2> QED BY <1>r, <1>m, <2>1, <2>2, SaveSolo
<1>5. CASE Discard(w)
  <2>1. /\ Save(w, HeadState) /\ UNCHANGED <<lockVars, ledger, revisions, frame>>
        /\ revisions # <<>> /\ removed \subseteq removed'
    BY <1>5 DEF Discard
  <2>2. \A m \in DOMAIN revisions : revisions[m].items \ HeadState.items \subseteq removed'
    BY <2>1, HeadKeeps DEF SoloInv, KeptIn
  <2> QED BY <1>r, <2>1, <2>2, HeadKeeps, SaveSolo DEF SoloInv
<1> QED
  BY <1>1, <1>2, <1>3, <1>4, <1>5

LEMMA WriteFileSolo ==
  ASSUME BookInv, BookInv', SoloInv, NEW w \in Writers, WriteFile(w)
  PROVE  SoloInv'
<1> DEFINE state == saving[w].state
           next == NextFile(w)
<1>0. /\ saving[w] # NotSaving /\ Changing(w) # {}
      /\ tree' = Rewritten(state, next) /\ torn' = torn \ {next}
      /\ saving' = [saving EXCEPT ![w].at = Pass(state, next)]
      /\ UNCHANGED <<lockVars, ledger, revisions, kit, frame, removed>>
  BY DEF WriteFile
<1>1. w \in Opened /\ Opened = {w}
  BY <1>0, ActorIsAlone DEF SoloInv, Alone, Absent
<1>2. /\ saving[w] = [state |-> state, at |-> saving[w].at]
      /\ state \in State /\ tree \in State /\ kit[w] \in State
  BY <1>0, <1>1 DEF BookInv, ProcessSound, SoundState, Opened
<1>3. Committing(w) /\ saving[w].at \in Nat /\ SavedUpTo(state, saving[w].at)
  BY <1>0, <1>1 DEF SoloInv, OnDisk
<1>4. /\ next \in Files /\ next \in Changing(w)
      /\ \A g \in Changing(w) : Pass(state, next) <= Pass(state, g)
  BY <1>0, SomeFileIsNext
<1>5. Pass(state, next) \in Nat /\ \A g \in Files : Pass(state, g) \in Nat
  BY <1>4, PassOfFile
<1>6. ASSUME NEW f \in Files, Pass(state, f) <= Pass(state, next)
      PROVE  f \notin torn' /\ Content(tree', f) = Content(state, f)
  <2>1. Content(tree', f) = IF f = next THEN Content(state, f) ELSE Content(tree, f)
    BY <1>0, <1>2, <1>4, ContentOfRewritten
  <2>2. CASE f = next
    BY <1>0, <2>1, <2>2
  <2>3. CASE f # next
    <3>1. ~Differs(state, f)
      <4>1. CASE Pass(state, f) <= saving[w].at
        BY <1>3, <4>1 DEF SavedUpTo
      <4>2. CASE Pass(state, f) > saving[w].at
        <5>1. ASSUME Differs(state, f) PROVE FALSE
          <6>1. f \in Changing(w)
            BY <4>2, <5>1 DEF Changing
          <6>2. Pass(state, f) = Pass(state, next)
            BY <1>4, <1>5, <1>6, <6>1
          <6> QED BY <1>4, <2>3, <6>2, PassOfFile
        <5> QED BY <5>1
      <4> QED BY <1>3, <1>5, <4>1, <4>2
    <3> QED BY <1>0, <2>1, <2>3, <3>1 DEF Differs
  <2> QED BY <2>2, <2>3
<1> HIDE DEF state, next
<1>7. saving'[w] = [state |-> state, at |-> Pass(state, next)]
  BY <1>0, <1>2 DEF BookInv
<1>8. saving'[w] # NotSaving /\ saving'[w].state = state /\ saving'[w].at = Pass(state, next)
  BY <1>2, <1>5, <1>7, NoneIsNoValue DEF NotSaving
<1>9. OnDisk(w)'
  BY <1>5, <1>6, <1>8 DEF OnDisk, SavedUpTo, Differs, Pass, Wanted
<1>10. Committing(w)'
  <2>1. saving'[w].state = saving[w].state
    BY <1>8 DEF state
  <2> QED BY <1>0, <1>3, <2>1 DEF Committing, SamePlan, Pictured, Whole, Plan, lockVars
<1>11. OthersWait(w) /\ Opened' = Opened
  BY <1>0 DEF OthersWait, Opened, lockVars, BookInv
<1>12. Kept' /\ (Pictures => Pictures')
  <2>1. tree'.items = (tree.items \ {next}) \cup (state.items \cap {next})
    BY <1>0 DEF Rewritten, state, next
  <2>2. state.items = kit[w].items
    BY <1>0, <1>3 DEF Committing, SamePlan, state
  <2>3. \A m \in DOMAIN revisions : /\ revisions[m].items \ tree.items \subseteq removed
                                    /\ revisions[m].items \ kit[w].items \subseteq removed
    BY <1>1 DEF SoloInv, Kept, KeptIn
  <2>4. \A m \in DOMAIN revisions : revisions[m].items \ tree'.items \subseteq removed'
    BY <1>0, <2>1, <2>2, <2>3
  <2>5. \A m \in DOMAIN revisions, v \in Opened' : revisions[m].items \ kit'[v].items \subseteq removed'
    BY <1>0, <1>1, <1>11, <2>3
  <2> QED BY <1>0, <2>4, <2>5, KeptStays DEF SoloInv
<1>13. (torn \subseteq Files)'
  BY <1>0 DEF SoloInv
<1> QED
  BY <1>1, <1>9, <1>10, <1>11, <1>12, <1>13, SoloFromActor DEF SoloInv

LEMMA SaveDoneSolo ==
  ASSUME BookInv, BookInv', SoloInv, NEW w \in Writers, SaveDone(w)
  PROVE  SoloInv'
<1>0. /\ saving[w] # NotSaving /\ Changing(w) = {} /\ frame[w].at = "out"
      /\ saving' = [saving EXCEPT ![w] = NotSaving]
      /\ UNCHANGED <<lockVars, ledger, tree, torn, revisions, kit, frame, removed>>
  BY DEF SaveDone, Written
<1>1. w \in Opened /\ Opened = {w}
  BY <1>0, ActorIsAlone DEF SoloInv, Alone, Absent
<1>2. saving[w].state \in State /\ tree \in State
  BY <1>0 DEF BookInv, ProcessSound, SoundState
<1>3. Committing(w) /\ saving[w].at \in Nat /\ SavedUpTo(saving[w].state, saving[w].at)
  BY <1>0, <1>1 DEF SoloInv, OnDisk
<1>4. Loads /\ SamePlan(Loaded, kit[w])
  <2>1. Loads /\ SamePlan(Loaded, saving[w].state)
    BY <1>0, <1>2, <1>3, SavedIsOnDisk DEF SoloInv
  <2> QED BY <1>0, <1>3, <2>1 DEF Committing, SamePlan
<1>5. saving'[w] = NotSaving /\ OthersWait(w) /\ Opened' = Opened
  BY <1>0 DEF BookInv, OthersWait, Opened, lockVars
<1>6. OnDisk(w)'
  BY <1>0, <1>4, <1>5 DEF OnDisk, Loads, Loaded, SamePlan
<1>7. Committing(w)'
  BY <1>0, <1>3, <1>5 DEF Committing, SamePlan, Pictured, Whole, Plan, lockVars
<1>8. Kept' /\ Pictures' /\ (torn \subseteq Files)'
  BY <1>0, <1>5 DEF SoloInv, Kept, KeptIn, Pictures, Pictured, Plan, Whole
<1> QED
  BY <1>1, <1>5, <1>6, <1>7, <1>8, SoloFromActor

(* A process comes to a book nobody has open, and reads what is on disk.   *)
LEMMA OpenSolo ==
  ASSUME OneProcess, BookInv, BookInv', SoloInv, NEW w \in Writers, Open(w)
  PROVE  SoloInv'
<1>0. /\ w \notin Opened /\ pc[w] = "idle" /\ Cardinality(Opened) < 1 /\ Loads
      /\ kit' = [kit EXCEPT ![w] = Loaded]
      /\ UNCHANGED <<lockVars, ledger, tree, torn, saving, revisions, frame, removed>>
  BY DEF Open, OneProcess, treeVars
<1>1. Opened = {}
  <2>1. SUFFICES ASSUME NEW v \in Writers, Opened = {v} PROVE FALSE
    BY DEF SoloInv, Alone, AtMostOne
  <2>2. Cardinality({v}) = 1
    BY FS_Singleton
  <2>3. Cardinality({v}) < 1
    BY <1>0, <2>1
  <2> QED BY <2>2, <2>3
<1>2. tree \in State /\ Loaded \in State
  BY LoadedIs DEF BookInv, SoundState
<1>3. kit'[w] = Loaded /\ frame'[w] = NoCommit /\ saving'[w] = NotSaving
  BY <1>0 DEF SoloInv, Alone, Absent, BookInv
<1>4. Committing(w)'
  BY <1>3 DEF Committing, NoCommit
<1>5. OnDisk(w)'
  BY <1>0, <1>3 DEF OnDisk, Loads, Loaded, SamePlan
<1>6. w \in Opened' /\ OthersWait(w)
  BY <1>0, <1>2, <1>3, NoneIsNoValue DEF Opened, Closed, OthersWait, lockVars, BookInv
<1>7. Opened' = {w}
  BY <1>1, <1>6 DEF Opened, OthersWait
<1>8. Kept' /\ (Pictures => Pictures')
  <2>1. Loaded.items = tree.items \ torn /\ torn \cap Items = {} /\ tree.items \subseteq Items
    BY <1>0, <1>2, LoadedIs, FilesAreDistinct DEF Loads, State
  <2>2. \A m \in DOMAIN revisions : revisions[m].items \ tree.items \subseteq removed
    BY DEF SoloInv, Kept, KeptIn
  <2>3. \A m \in DOMAIN revisions : /\ revisions[m].items \ tree'.items \subseteq removed'
                                    /\ revisions[m].items \ kit'[w].items \subseteq removed'
    BY <1>0, <1>3, <2>1, <2>2
  <2> QED BY <1>0, <1>7, <2>3, KeptStays DEF SoloInv
<1> QED
  BY <1>0, <1>1, <1>4, <1>5, <1>6, <1>8, SoloFromActor DEF SoloInv

LEMMA LeavesTheBook ==
  ASSUME BookInv, SoloInv, NEW w \in Opened,
         kit' = [kit EXCEPT ![w] = Closed], Absent(w)', OthersWait(w),
         UNCHANGED <<tree, revisions, removed>>, (torn \subseteq Files)'
  PROVE  SoloInv'
<1>1. w \in Writers /\ Opened = {w}
  BY ActorIsAlone DEF SoloInv
<1>2. Opened' = {}
  BY <1>1 DEF Opened, BookInv, OthersWait
<1>3. Kept' /\ (Pictures => Pictures')
  <2>1. \A m \in DOMAIN revisions : revisions[m].items \ tree'.items \subseteq removed'
    BY DEF SoloInv, Kept, KeptIn
  <2> QED BY <1>2, <2>1, KeptStays DEF SoloInv
<1> QED
  BY <1>1, <1>2, <1>3, SoloFromActor DEF SoloInv

LEMMA CloseSolo ==
  ASSUME BookInv, SoloInv, NEW w \in Writers, Close(w)
  PROVE  SoloInv'
<1>1. /\ w \in Opened /\ pc[w] = "idle" /\ saving[w] = NotSaving
      /\ kit' = [kit EXCEPT ![w] = Closed]
      /\ UNCHANGED <<lockVars, tree, torn, saving, revisions, frame, removed>>
  BY DEF Close, AtRest, treeVars
<1>2. Committing(w) /\ CommitSound(frame[w], ledger) /\ frame[w].at = "out"
  BY <1>1 DEF SoloInv, BookInv, ProcessSound
<1>3. frame[w] = NoCommit
  BY <1>2 DEF Committing
<1>4. Absent(w)' /\ OthersWait(w)
  BY <1>1, <1>3 DEF Absent, OthersWait, lockVars, BookInv
<1> QED
  BY <1>1, <1>4, LeavesTheBook DEF SoloInv

LEMMA CrashSolo ==
  ASSUME BookInv, SoloInv, NEW w \in Writers, Crash(w)
  PROVE  SoloInv'
<1>1. /\ w \in Opened
      /\ kit' = [kit EXCEPT ![w] = Closed] /\ frame' = [frame EXCEPT ![w] = NoCommit]
      /\ saving' = [saving EXCEPT ![w] = NotSaving] /\ pc' = [pc EXCEPT ![w] = "dead"]
      /\ UNCHANGED <<ledger, tree, revisions, removed>>
  BY DEF Crash, Die, Goto
<1>2. pc \in [Writers -> Places]
  BY DEF BookInv, LockTypeOK
<1>3. Absent(w)' /\ OthersWait(w)
  BY <1>1, <1>2 DEF Absent, OthersWait, BookInv
<1>4. (torn \subseteq Files)'
  BY DEF Crash, InTheWay, SoloInv
<1> QED
  BY <1>1, <1>3, <1>4, LeavesTheBook

(* Only a kit at rest appends to the ledger, so no commit sees it grow.    *)
LEMMA EventSolo ==
  ASSUME BookInv, SoloInv, NEW w \in Writers, AddEvent(w)
  PROVE  SoloInv'
<1>1. /\ AtRest(w) /\ w \in Opened
      /\ UNCHANGED <<lockVars, tree, torn, saving, revisions, kit, frame, removed>>
  BY DEF AddEvent, AtRest, treeVars
<1>2. Opened = {w}
  BY <1>1, ActorIsAlone DEF SoloInv
<1>3. frame[w].at = "out" /\ frame[w] = NoCommit /\ saving[w] = NotSaving
  BY <1>1 DEF AtRest, BookInv, ProcessSound, SoloInv, Committing
<1>4. Committing(w)'
  BY <1>1, <1>3 DEF Committing
<1>5. OnDisk(w)'
  BY <1>1, <1>2, <1>3 DEF SoloInv, OnDisk, Loads, Loaded, SamePlan
<1>6. OthersWait(w) /\ Opened' = Opened
  BY <1>1 DEF OthersWait, Opened, lockVars
<1>7. Kept' /\ Pictures' /\ (torn \subseteq Files)'
  BY <1>1, <1>6 DEF SoloInv, Kept, KeptIn, Pictures, Pictured, Plan, Whole
<1> QED
  BY <1>2, <1>4, <1>5, <1>6, <1>7, SoloFromActor

(* Nothing of the book moves while the lock is taken.                      *)
LEMMA LockSolo ==
  ASSUME BookInv, BookInv', SoloInv, NEW w \in Writers, EnterCommit(w) \/ GetLock(w)
  PROVE  SoloInv'
<1>1. UNCHANGED bookVars
  BY DEF EnterCommit, GetLock
<1>2. w \in Opened /\ frame[w].at = "out" /\ saving[w] = NotSaving
  <2>1. CASE EnterCommit(w)
    BY <2>1 DEF EnterCommit, AtRest, BookInv, ProcessSound
  <2>2. CASE GetLock(w)
    <3>1. pc[w] \notin {"idle", "dead", "holding"}
      BY <2>2 DEF GetLock, WriteBody, FailBody, ReadHolder, Refuse, Condemn, Unlink, CreateAgain
    <3>2. frame[w].at = "out" /\ w \in Opened
      BY <3>1 DEF BookInv, ProcessSound, SoloInv, Alone, Absent
    <3> QED BY <3>1, <3>2 DEF SoloInv, Committing
  <2> QED BY <2>1, <2>2
<1>3. Opened = {w}
  BY <1>2, ActorIsAlone DEF SoloInv
<1>4. Committing(w)' /\ OnDisk(w)'
  <2>1. Committing(w)'
    BY <1>1, <1>2 DEF SoloInv, Committing, bookVars
  <2>2. OnDisk(w)'
    BY <1>1, <1>2, <1>3 DEF SoloInv, OnDisk, Loads, Loaded, SamePlan, bookVars
  <2> QED BY <2>1, <2>2
<1>5. Opened' = Opened
  BY <1>1 DEF Opened, bookVars
<1>6. Kept' /\ Pictures' /\ (torn \subseteq Files)'
  BY <1>1, <1>5 DEF SoloInv, Kept, KeptIn, Pictures, Pictured, Plan, Whole, bookVars
<1>7. OthersWait(w)
  <2>1. pc \in [Writers -> Places]
    BY DEF BookInv, LockTypeOK
  <2> QED
    BY <1>1, <2>1
    DEF OthersWait, bookVars, EnterCommit, Acquire, GetLock, WriteBody, FailBody, ReadHolder,
        Refuse, Condemn, Unlink, CreateAgain, TryCreate, Goto
<1> QED
  BY <1>3, <1>2, <1>4, <1>5, <1>6, <1>7, SoloFromActor

LEMMA CommitSolo ==
  ASSUME OneProcess, BookInv, BookInv', SoloInv, NEW w \in Writers,
         \/ \E targets \in Targets : ReadWatermark(w, targets)
         \/ \E s \in Scenarios : RunScenario(w, s)
         \/ BuildState(w) \/ WriteTree(w)
  PROVE  SoloInv'
<1> DEFINE f == frame[w]
<1>h. pc[w] = "holding" /\ UNCHANGED <<lockVars, ledger, tree, torn, revisions, removed>>
  BY DEF ReadWatermark, RunScenario, BuildState, WriteTree, BookInv, ProcessSound, treeVars
<1>1. w \in Opened /\ Opened = {w}
  BY <1>h, ActorIsAlone DEF SoloInv, Alone, Absent
<1>2. Committing(w) /\ OnDisk(w) /\ kit[w] \in State
  BY <1>1 DEF SoloInv, BookInv, ProcessSound, SoundState, Opened
<1>3. f.at # "out" => f = CommitAt(f.at, f.todo, f.mark, f.state)
  BY DEF BookInv, ProcessSound, CommitSound
\* What is left to show of such a step: a commit that goes on, and, but for
\* WriteTree, a kit that is on disk as it was.
<1>4. ASSUME Committing(w)', OnDisk(w)', OthersWait(w), kit'[w] \in State, SamePlan(kit'[w], kit[w])
      PROVE  SoloInv'
  <2>1. w \in Opened' /\ Opened' \subseteq {w}
    BY <1>1, <1>4, NoneIsNoValue DEF Opened, Closed, OthersWait
  <2>2. \A m \in DOMAIN revisions : /\ revisions[m].items \ tree'.items \subseteq removed'
                                    /\ revisions[m].items \ kit'[w].items \subseteq removed'
    BY <1>h, <1>1, <1>4 DEF SoloInv, Kept, KeptIn, SamePlan
  <2>3. Kept' /\ (Pictures => Pictures')
    BY <1>h, <2>1, <2>2, KeptStays DEF SoloInv
  <2> QED BY <1>h, <1>1, <1>4, <2>1, <2>3, SoloFromActor DEF SoloInv
<1>5. ASSUME saving'[w] = NotSaving, saving[w] = NotSaving, SamePlan(kit'[w], kit[w]) PROVE OnDisk(w)'
  BY <1>h, <1>2, <1>5 DEF OnDisk, Loads, Loaded, SamePlan
<1>6. f.at \in {"out", "running", "built"} => saving[w] = NotSaving
  BY <1>h, <1>2 DEF Committing
<1>a. ASSUME NEW targets \in Targets, ReadWatermark(w, targets) PROVE SoloInv'
  <2>1. f.at = "out" /\ UNCHANGED <<saving, kit>>
    BY <1>a DEF ReadWatermark, treeVars
  <2>2. frame' = [frame EXCEPT ![w] = CommitAt("running", Scenarios, ledger, None)]
    BY <1>a DEF ReadWatermark, OneProcess
  <2>3. frame'[w] = CommitAt("running", Scenarios, ledger, None)
    BY <2>2 DEF BookInv
  <2>4. Committing(w)'
    BY <1>h, <1>6, <2>1, <2>3 DEF Committing, CommitAt
  <2> QED BY <1>h, <1>2, <1>4, <1>5, <1>6, <2>1, <2>2, <2>4 DEF OthersWait, lockVars, SamePlan
<1>b. ASSUME NEW s \in Scenarios, RunScenario(w, s) PROVE SoloInv'
  <2> DEFINE made == [plan |-> Plan(kit[w]), facts |-> ledger, mark |-> f.mark]
             new == [kit[w] EXCEPT !.summaries[s] = made]
             todo == f.todo \ {s}
  <2>1. /\ f.at = "running" /\ UNCHANGED saving
        /\ kit' = [kit EXCEPT ![w] = new] /\ frame' = [frame EXCEPT ![w].todo = todo]
    BY <1>b DEF RunScenario, treeVars
  <2>2. /\ new.items = kit[w].items /\ new.params = kit[w].params
        /\ new.summaries = [kit[w].summaries EXCEPT ![s] = made]
    BY <1>2 DEF State
  <2>3. f.mark = ledger /\ \A t \in Scenarios \ f.todo : kit[w].summaries[t] = Whole(kit[w], ledger)
    BY <1>2, <2>1 DEF Committing
  <2>4. \A t \in Scenarios \ todo : new.summaries[t] = Whole(kit[w], ledger)
    BY <1>2, <2>2, <2>3 DEF State, Whole
  <2>5. Whole(new, ledger) = Whole(kit[w], ledger)
    BY <2>2 DEF Whole, Plan
  <2> HIDE DEF new, todo, made
  <2>6. kit'[w] = new /\ kit'[w] \in State
    BY <1>h, <2>1 DEF BookInv, ProcessSound, SoundState, lockVars
  <2>7. frame'[w] = CommitAt("running", todo, f.mark, f.state)
    BY <1>3, <2>1 DEF BookInv, CommitAt
  <2>8. Committing(w)'
    BY <1>h, <1>6, <2>1, <2>3, <2>4, <2>5, <2>6, <2>7 DEF Committing, CommitAt
  <2>9. SamePlan(kit'[w], kit[w]) /\ OthersWait(w)
    BY <1>h, <2>1, <2>2, <2>6 DEF SamePlan, OthersWait, lockVars
  <2> QED BY <1>4, <1>5, <1>6, <2>1, <2>6, <2>8, <2>9
<1>c. CASE BuildState(w)
  <2> DEFINE new == [kit[w] EXCEPT !.watermark = ledger]
  <2>1. /\ f.at = "running" /\ f.todo = {} /\ UNCHANGED <<saving, kit>>
        /\ frame' = [frame EXCEPT ![w] = CommitAt("built", {}, f.mark, new)]
    BY <1>c DEF BuildState, treeVars
  <2>2. f.mark = ledger /\ \A t \in Scenarios : kit[w].summaries[t] = Whole(kit[w], ledger)
    BY <1>2, <2>1 DEF Committing
  <2>3. /\ new.items = kit[w].items /\ new.params = kit[w].params /\ new.watermark = ledger
        /\ new.summaries = kit[w].summaries
    BY <1>2 DEF State
  <2>4. Pictured(new, ledger) /\ SamePlan(new, kit[w])
    BY <2>2, <2>3 DEF Pictured, SamePlan, Whole, Plan
  <2> HIDE DEF new
  <2>5. frame'[w] = CommitAt("built", {}, f.mark, new)
    BY <2>1 DEF BookInv
  <2>6. Committing(w)'
    <3>1. frame'[w].at = "built" /\ frame'[w].mark = ledger' /\ frame'[w].state = new
      BY <1>h, <2>2, <2>5 DEF CommitAt
    <3>2. Pictured(new, ledger') /\ SamePlan(new, kit'[w]) /\ saving'[w] = NotSaving
      BY <1>h, <1>6, <2>1, <2>4
    <3> QED BY <3>1, <3>2 DEF Committing
  <2> QED BY <1>h, <1>2, <1>4, <1>5, <1>6, <2>1, <2>6 DEF OthersWait, lockVars, SamePlan
<1>d. CASE WriteTree(w)
  <2>1. /\ f.at = "built" /\ UNCHANGED kit
        /\ saving' = [saving EXCEPT ![w] = [state |-> f.state, at |-> 0]]
        /\ frame' = [frame EXCEPT ![w].at = "written"]
    BY <1>d DEF WriteTree, Writing
  <2>2. frame'[w] = CommitAt("written", f.todo, f.mark, f.state)
    BY <1>3, <2>1 DEF BookInv, CommitAt
  <2>3. f.state \in State
    BY <2>1 DEF BookInv, ProcessSound, CommitSound, CoveredState, SoundState
  <2>4. saving'[w] = [state |-> f.state, at |-> 0]
    BY <2>1 DEF BookInv
  <2>5. saving'[w] # NotSaving /\ saving'[w].state = f.state /\ saving'[w].at = 0
    BY <2>3, <2>4, NoneIsNoValue DEF NotSaving
  <2>6. f.mark = ledger /\ Pictured(f.state, ledger) /\ SamePlan(f.state, kit[w])
    BY <1>2, <2>1 DEF Committing
  <2>7. Committing(w)'
    BY <1>h, <2>1, <2>2, <2>5, <2>6 DEF Committing, CommitAt
  <2>8. OnDisk(w)'
    <3>1. \A g \in Files : ~(Pass(f.state, g) <= 0)
      BY PassOfFile
    <3> QED BY <2>5, <3>1 DEF OnDisk, SavedUpTo
  <2> QED BY <1>h, <1>2, <1>4, <2>1, <2>7, <2>8 DEF OthersWait, lockVars, SamePlan
<1> QED
  BY <1>a, <1>b, <1>c, <1>d

(* What is recorded is a picture, is on disk, and keeps what was kept.     *)
LEMMA RecordSolo ==
  ASSUME BookInv, BookInv', SoloInv, NEW w \in Writers, WriteRevision(w)
  PROVE  SoloInv'
<1> DEFINE f == frame[w]
           next == IF revisions # <<>> /\ HeadState = f.state THEN "empty" ELSE "recorded"
<1>0. /\ f.at = "written" /\ saving[w] # NotSaving /\ Changing(w) = {}
      /\ saving' = [saving EXCEPT ![w] = NotSaving] /\ frame' = [frame EXCEPT ![w].at = next]
      /\ revisions' = revisions \/ revisions' = Append(revisions, f.state)
      /\ UNCHANGED <<lockVars, ledger, tree, torn, kit, removed>>
  BY DEF WriteRevision, Written
<1>1. w \in Opened /\ Opened = {w}
  BY <1>0, ActorIsAlone DEF SoloInv, Alone, Absent
<1>2. /\ saving[w].state \in State /\ tree \in State /\ f.state \in State /\ ledger \in Nat
      /\ f = CommitAt("written", f.todo, f.mark, f.state)
  BY <1>0 DEF BookInv, ProcessSound, CommitSound, CoveredState, SoundState
<1>3. Committing(w) /\ saving[w].at \in Nat /\ SavedUpTo(saving[w].state, saving[w].at)
  BY <1>0, <1>1 DEF SoloInv, OnDisk
<1>4. f.mark = ledger /\ Pictured(f.state, ledger) /\ SamePlan(f.state, kit[w])
  BY <1>0, <1>3 DEF Committing
<1>5. Loads /\ SamePlan(Loaded, kit[w]) /\ SamePlan(tree, kit[w])
  <2>1. Loads /\ SamePlan(Loaded, saving[w].state) /\ SamePlan(tree, saving[w].state)
    BY <1>0, <1>2, <1>3, SavedIsOnDisk DEF SoloInv
  <2> QED BY <1>0, <1>3, <2>1 DEF Committing, SamePlan
<1>n. next \in {"empty", "recorded"}
  OBVIOUS
<1> HIDE DEF next
<1>6. frame'[w] = CommitAt(next, f.todo, f.mark, f.state) /\ saving'[w] = NotSaving
  BY <1>0, <1>2 DEF BookInv, CommitAt
<1>7. OthersWait(w) /\ Opened' = Opened
  BY <1>0 DEF OthersWait, Opened, lockVars, BookInv
<1>8. Committing(w)'
  <2>1. frame'[w].at \in {"empty", "recorded"} /\ frame'[w].mark = ledger' /\ frame'[w].state = f.state
    BY <1>0, <1>4, <1>6, <1>n DEF CommitAt
  <2>2. Pictured(f.state, ledger') /\ SamePlan(f.state, kit'[w])
    BY <1>0, <1>4
  <2> QED BY <1>6, <2>1, <2>2 DEF Committing
<1>9. OnDisk(w)'
  BY <1>0, <1>5, <1>6 DEF OnDisk, Loads, Loaded, SamePlan
<1>10. Kept' /\ Pictures'
  <2>1. CASE revisions' = revisions
    BY <1>0, <1>7, <2>1 DEF SoloInv, Kept, KeptIn, Pictures, Pictured, Plan, Whole
  <2>2. CASE revisions' = Append(revisions, f.state)
    <3>1. /\ revisions \in Seq(State) /\ DOMAIN revisions' = 1 .. Len(revisions) + 1
          /\ revisions'[Len(revisions) + 1] = f.state
          /\ \A n \in DOMAIN revisions : revisions'[n] = revisions[n]
      BY <1>2, <2>2 DEF BookInv
    <3>2. Pictured(f.state, f.state.watermark)
      BY <1>4 DEF Pictured
    <3>3. Pictures'
      <4> SUFFICES ASSUME NEW n \in DOMAIN revisions'
                   PROVE  Pictured(revisions'[n], revisions'[n].watermark)
        BY DEF Pictures
      <4>1. n \in DOMAIN revisions \/ n = Len(revisions) + 1
        BY <3>1
      <4> QED BY <3>1, <3>2, <4>1 DEF SoloInv, Pictures
    <3>4. f.state.items = kit[w].items /\ f.state.items = tree.items
      BY <1>4, <1>5 DEF SamePlan
    <3>5. \A m \in DOMAIN revisions : revisions[m].items \ f.state.items \subseteq removed
      BY <1>1, <3>4 DEF SoloInv, Kept, KeptIn
    <3>6. \A m \in DOMAIN revisions' : revisions'[m].items \ f.state.items \subseteq removed'
      <4> SUFFICES ASSUME NEW m \in DOMAIN revisions'
                   PROVE  revisions'[m].items \ f.state.items \subseteq removed'
        OBVIOUS
      <4>1. m \in DOMAIN revisions \/ m = Len(revisions) + 1
        BY <3>1
      <4> QED BY <1>0, <3>1, <3>5, <4>1
    <3>7. \A m, n \in DOMAIN revisions' : m < n => revisions'[m].items \ revisions'[n].items \subseteq removed'
      <4> SUFFICES ASSUME NEW m \in DOMAIN revisions', NEW n \in DOMAIN revisions', m < n
                   PROVE  revisions'[m].items \ revisions'[n].items \subseteq removed'
        OBVIOUS
      <4>1. m \in DOMAIN revisions /\ (n \in DOMAIN revisions \/ n = Len(revisions) + 1)
        BY <3>1
      <4>2. CASE n \in DOMAIN revisions
        BY <1>0, <3>1, <4>1, <4>2 DEF SoloInv, Kept, KeptIn
      <4>3. CASE n = Len(revisions) + 1
        BY <3>1, <3>6, <4>3
      <4> QED BY <4>1, <4>2, <4>3
    <3>8. Kept'
      BY <1>0, <1>1, <1>7, <3>4, <3>6, <3>7 DEF Kept, KeptIn
    <3> QED BY <3>3, <3>8
  <2> QED BY <1>0, <2>1, <2>2
<1> QED
  BY <1>0, <1>1, <1>7, <1>8, <1>9, <1>10, SoloFromActor DEF SoloInv

LEMMA LeaveSolo ==
  ASSUME BookInv, BookInv', SoloInv, NEW w \in Writers, LeaveCommit(w)
  PROVE  SoloInv'
<1> DEFINE f == frame[w]
           marked == [kit[w] EXCEPT !.watermark = f.mark]
<1>0. /\ f.at \in {"recorded", "empty"} /\ pc' = [pc EXCEPT ![w] = "idle"]
      /\ kit' = kit \/ kit' = [kit EXCEPT ![w] = marked]
      /\ frame' = [frame EXCEPT ![w] = NoCommit]
      /\ UNCHANGED <<ledger, tree, torn, saving, revisions, removed>>
  BY DEF LeaveCommit, Release, Goto, treeVars
<1>1. w \in Opened /\ Opened = {w}
  BY <1>0, ActorIsAlone DEF SoloInv, Alone, Absent, NoCommit
<1>2. Committing(w) /\ OnDisk(w) /\ kit[w] \in State /\ f.mark = ledger /\ ledger \in Nat
  BY <1>0, <1>1 DEF SoloInv, BookInv, ProcessSound, SoundState, Opened, Committing
<1>3. saving[w] = NotSaving
  BY <1>0, <1>2 DEF Committing
<1>4. SamePlan(marked, kit[w]) /\ marked \in State
  BY <1>2 DEF SamePlan, State
<1> HIDE DEF marked
<1>5. /\ SamePlan(kit'[w], kit[w]) /\ kit'[w] \in State
      /\ frame'[w] = NoCommit /\ saving'[w] = NotSaving
  BY <1>0, <1>2, <1>3, <1>4 DEF BookInv, SamePlan
<1>6. pc \in [Writers -> Places]
  BY DEF BookInv, LockTypeOK
<1>7. OthersWait(w) /\ w \in Opened' /\ Opened' \subseteq {w}
  BY <1>0, <1>1, <1>5, <1>6, NoneIsNoValue DEF OthersWait, Opened, Closed, BookInv
<1>8. Committing(w)'
  BY <1>5 DEF Committing, NoCommit
<1>9. OnDisk(w)'
  BY <1>0, <1>2, <1>3, <1>5 DEF OnDisk, Loads, Loaded, SamePlan
<1>10. Kept' /\ (Pictures => Pictures')
  <2>1. \A m \in DOMAIN revisions : /\ revisions[m].items \ tree'.items \subseteq removed'
                                    /\ revisions[m].items \ kit'[w].items \subseteq removed'
    BY <1>0, <1>1, <1>5 DEF SoloInv, Kept, KeptIn, SamePlan
  <2> QED BY <1>0, <1>7, <2>1, KeptStays DEF SoloInv
<1> QED
  BY <1>0, <1>1, <1>7, <1>8, <1>9, <1>10, SoloFromActor DEF SoloInv

LEMMA SoloStart == Init => SoloInv
<1> SUFFICES ASSUME Init PROVE SoloInv
  OBVIOUS
<1>1. Opened = {} /\ DOMAIN revisions = {} /\ torn = {}
  BY DEF Init, Opened
<1>2. \A w \in Writers : Absent(w)
  BY DEF Init, LockInit, Absent
<1> QED
  BY <1>1, <1>2 DEF SoloInv, Alone, AtMostOne, Kept, Pictures

LEMMA SoloStep ==
  ASSUME OneProcess
  PROVE  BookInv /\ SoloInv /\ [Next]_vars => BookInv' /\ SoloInv'
<1> SUFFICES ASSUME BookInv, SoloInv, [Next]_vars PROVE SoloInv'
  BY BookStep
<1>b. BookInv'
  BY BookStep
<1>1. CASE UNCHANGED vars
  BY <1>1
  DEF vars, lockVars, bookVars, SoloInv, Alone, AtMostOne, Absent, Opened, Committing, OnDisk, Loads,
      Loaded, SamePlan, SavedUpTo, Differs, Pictured, Whole, Plan, Kept, KeptIn, Pictures
<1>2. ASSUME NEW w \in Writers, Acts(w) PROVE SoloInv'
  <2>1. CASE \/ \E i \in Items : SetItem(w, i) \/ RemoveItem(w, i) \/ DiscardItem(w, i)
             \/ \E p \in Levers : SetParam(w, p)
             \/ Discard(w)
    BY <1>b, <2>1, AuthoringSolo
  <2>2. CASE WriteFile(w)
    BY <1>b, <2>2, WriteFileSolo
  <2>3. CASE SaveDone(w)
    BY <1>b, <2>3, SaveDoneSolo
  <2>4. CASE Open(w)
    BY <1>b, <2>4, OpenSolo
  <2>5. CASE Close(w)
    BY <2>5, CloseSolo
  <2>6. CASE Crash(w)
    BY <2>6, CrashSolo
  <2>7. CASE AddEvent(w)
    BY <2>7, EventSolo
  <2>8. CASE EnterCommit(w) \/ GetLock(w)
    BY <1>b, <2>8, LockSolo
  <2>9. CASE \/ \E targets \in Targets : ReadWatermark(w, targets)
             \/ \E s \in Scenarios : RunScenario(w, s)
             \/ BuildState(w) \/ WriteTree(w)
    BY <1>b, <2>9, CommitSolo
  <2>10. CASE WriteRevision(w)
    BY <1>b, <2>10, RecordSolo
  <2>11. CASE LeaveCommit(w)
    BY <1>b, <2>11, LeaveSolo
  <2> QED
    BY <1>2, <2>1, <2>2, <2>3, <2>4, <2>5, <2>6, <2>7, <2>8, <2>9, <2>10, <2>11 DEF Acts
<1> QED
  BY <1>1, <1>2 DEF Next, Acts

(* A change between two moments happens at some moment between them.       *)
LEMMA ChangesSomewhere ==
  ASSUME NEW V, NEW m \in Nat, NEW n \in Nat, m < n, V[m] # V[n]
  PROVE  \E k \in m + 1 .. n : V[k] # V[k - 1]
<1> DEFINE T == {k \in Nat : m < k /\ k <= n /\ V[k] # V[m]}
<1>1. n \in T
  OBVIOUS
<1>2. PICK k \in T : \A j \in T : k <= j
  <2>1. T \subseteq Nat /\ T # {}
    BY <1>1
  <2> QED BY <2>1, LeastNatural
<1>3. k - 1 \notin T /\ k - 1 \in Nat /\ m <= k - 1
  BY <1>2
<1>4. V[k - 1] = V[m]
  BY <1>2, <1>3
<1> QED
  BY <1>2, <1>4

(* The file of a revision, or None where it has none.                      *)
LEMMA FileOfRevision ==
  ASSUME NEW n \in DOMAIN revisions, n \in Nat, NEW f \in Files, revisions[n] \in State
  PROVE  /\ FileAt(n, f) = IF Wanted(revisions[n], f) THEN Content(revisions[n], f) ELSE None
         /\ Wanted(revisions[n], f) /\ f \notin {BookFile, ParamsFile} => FileAt(n, f) # None
         /\ f \in Items => FileAt(n, f) = IF f \in revisions[n].items THEN TRUE ELSE None
         /\ f \in {BookFile, ParamsFile} => Wanted(revisions[n], f)
<1>1. n # None
  BY NoneIsNoValue
<1>2. FileAt(n, f) = IF Wanted(revisions[n], f) THEN Content(revisions[n], f) ELSE None
  BY <1>1 DEF FileAt, ReadState
<1>3. CASE f \in Items
  <2>1. Content(revisions[n], f) = (f \in revisions[n].items)
    BY <1>3, FilesAreDistinct DEF Content
  <2>2. Wanted(revisions[n], f) <=> f \in revisions[n].items
    BY <1>3, FilesAreDistinct DEF Wanted
  <2>3. FileAt(n, f) = IF f \in revisions[n].items THEN TRUE ELSE None
    BY <1>2, <2>1, <2>2
  <2> QED BY <1>2, <1>3, <2>2, <2>3, NoneIsNoValue, FilesAreDistinct
<1>4. CASE f \in Scenarios
  <2>1. Content(revisions[n], f) = revisions[n].summaries[f]
    BY <1>4, FilesAreDistinct DEF Content
  <2>2. Wanted(revisions[n], f) <=> revisions[n].summaries[f] # None
    BY <1>4, FilesAreDistinct DEF Wanted, State
  <2> QED BY <1>2, <1>4, <2>1, <2>2, FilesAreDistinct
<1>5. CASE f \in {BookFile, ParamsFile}
  BY <1>2, <1>5, FilesAreDistinct DEF Wanted
<1> QED
  BY <1>3, <1>4, <1>5 DEF Files

LEMMA DiffsAccounted ==
  ASSUME BookInv, Kept PROVE DiffsAreAccountedFor
<1> SUFFICES ASSUME NEW m \in DOMAIN revisions, NEW n \in DOMAIN revisions, m < n
             PROVE  LET diff == DiffRevisions(m, n)
                        Between(log) == log \cap (m + 1 .. n) # {}
                    IN /\ diff.removed \subseteq removed
                       /\ \A i \in diff.added \cup diff.removed : Between(HistoryOf(i))
                       /\ \A f \in diff.reformatted : Between(ListRevisions(f))
                       /\ diff.outcomes # {} => diff.reformatted # {}
  BY DEF DiffsAreAccountedFor
<1> DEFINE left == revisions[m]
           right == revisions[n]
           diff == DiffRevisions(m, n)
<1>1. revisions \in Seq(State) /\ m \in Nat \ {0} /\ n \in Nat \ {0}
  BY DEF BookInv
<1>2. \A k \in m .. n : k \in DOMAIN revisions /\ k \in Nat /\ revisions[k] \in State
  BY <1>1
<1>3. \A k \in m + 1 .. n : k \in DOMAIN revisions /\ FirstParent(k) = k - 1 /\ k - 1 \in m .. n
  BY <1>1, <1>2 DEF FirstParent
<1>4. /\ diff.added = right.items \ left.items /\ diff.removed = left.items \ right.items
      /\ diff.outcomes = OutcomeDiffs(left, right)
  BY DEF DiffRevisions
<1>5. ASSUME NEW f \in diff.reformatted
      PROVE  f \in Files /\ FileAt(m, f) # FileAt(n, f)
  <2> DEFINE L == ReadState(m)
             R == ReadState(n)
  <2>1. \/ f \in DOMAIN R /\ f \notin DOMAIN L
        \/ f \in DOMAIN L /\ f \notin DOMAIN R
        \/ f \in DOMAIN L /\ f \in DOMAIN R /\ L[f] # R[f]
    BY DEF DiffRevisions, DiffStates
  <2>2. /\ f \in DOMAIN L <=> f \in Files /\ Wanted(left, f)
        /\ f \in DOMAIN R <=> f \in Files /\ Wanted(right, f)
    BY DEF ReadState
  <2>3. f \in Files
    BY <2>1, <2>2
  <2>4. f \in DOMAIN L /\ f \in DOMAIN R => L[f] = Content(left, f) /\ R[f] = Content(right, f)
    BY DEF ReadState
  <2>5. m \in m .. n /\ n \in m .. n
    BY <1>1
  <2> QED
    BY <1>2, <2>1, <2>2, <2>3, <2>4, <2>5, FileOfRevision
<1>6. ASSUME NEW f \in Files, FileAt(m, f) # FileAt(n, f) PROVE ListRevisions(f) \cap (m + 1 .. n) # {}
  <2> DEFINE V == [k \in m .. n |-> FileAt(k, f)]
  <2>1. V[m] # V[n]
    BY <1>1, <1>6
  <2>2. PICK k \in m + 1 .. n : V[k] # V[k - 1]
    <3> HIDE DEF V
    <3> QED BY <1>1, <2>1, ChangesSomewhere
  <2>3. FileAt(k, f) # FileAt(FirstParent(k), f)
    BY <1>1, <1>3, <2>2
  <2> QED BY <1>3, <2>3 DEF ListRevisions, Touches
<1>7. ASSUME NEW i \in diff.added \cup diff.removed PROVE HistoryOf(i) \cap (m + 1 .. n) # {}
  <2>1. i \in Items /\ (i \in left.items <=> i \notin right.items)
    <3>1. left.items \subseteq Items /\ right.items \subseteq Items
      <4>1. left \in State /\ right \in State
        BY <1>1
      <4> HIDE DEF left, right
      <4> QED BY <4>1 DEF State
    <3>2. i \in right.items \ left.items \/ i \in left.items \ right.items
      BY <1>4, <1>7
    <3> HIDE DEF left, right
    <3> QED BY <3>1, <3>2
  <2> DEFINE V == [k \in m .. n |-> i \in revisions[k].items]
  <2>2. V[m] # V[n]
    BY <1>1, <2>1
  <2>3. PICK k \in m + 1 .. n : V[k] # V[k - 1]
    <3> HIDE DEF V
    <3> QED BY <1>1, <2>2, ChangesSomewhere
  <2>4. i \in revisions[k].items <=> i \notin revisions[k - 1].items
    BY <1>1, <1>3, <2>3
  <2>5. k \in DOMAIN revisions /\ k \in Nat /\ k - 1 \in DOMAIN revisions /\ k - 1 \in Nat
        /\ revisions[k] \in State /\ revisions[k - 1] \in State /\ FirstParent(k) = k - 1
    BY <1>1, <1>2, <1>3
  <2>6. FileAt(k, i) # FileAt(FirstParent(k), i)
    <3>1. None # TRUE /\ i \in Files
      BY <2>1, NoneIsNoValue DEF Files
    <3>2. FileAt(k, i) = IF i \in revisions[k].items THEN TRUE ELSE None
      BY <2>1, <2>5, <3>1, FileOfRevision
    <3>3. FileAt(k - 1, i) = IF i \in revisions[k - 1].items THEN TRUE ELSE None
      BY <2>1, <2>5, <3>1, FileOfRevision
    <3> QED BY <2>4, <2>5, <3>1, <3>2, <3>3
  <2>7. FieldAt(k, i) # FieldAt(FirstParent(k), i)
    BY <2>4, <2>5, NoneIsNoValue DEF FieldAt
  <2> QED BY <2>5, <2>6, <2>7 DEF HistoryOf, ListRevisions, Touches
<1>8. ASSUME diff.outcomes # {} PROVE diff.reformatted # {}
  <2>1. PICK s \in Scenarios : s \in OutcomeDiffs(left, right)
    BY <1>4, <1>8 DEF OutcomeDiffs
  <2> DEFINE L == ReadState(m)
             R == ReadState(n)
  <2>2. left.summaries[s] # right.summaries[s]
    BY <2>1 DEF OutcomeDiffs
  <2>3. \A x \in State : Content(x, s) = x.summaries[s] /\ (Wanted(x, s) <=> x.summaries[s] # None)
    BY FilesAreDistinct DEF Content, Wanted, State
  <2>4. left \in State /\ right \in State /\ s \in Files
    BY <1>1 DEF Files
  <2>5. /\ s \in DOMAIN L <=> left.summaries[s] # None
        /\ s \in DOMAIN R <=> right.summaries[s] # None
        /\ s \in DOMAIN L => L[s] = left.summaries[s]
        /\ s \in DOMAIN R => R[s] = right.summaries[s]
    BY <2>3, <2>4 DEF ReadState
  <2>6. \/ s \in DOMAIN R \ DOMAIN L \/ s \in DOMAIN L \ DOMAIN R
        \/ s \in DOMAIN L \cap DOMAIN R /\ L[s] # R[s]
    BY <2>2, <2>5
  <2>7. s \in diff.reformatted
    BY <2>6 DEF DiffRevisions, DiffStates
  <2> QED BY <2>7
<1>9. diff.removed \subseteq removed
  BY <1>4 DEF Kept, KeptIn
<1> QED
  BY <1>5, <1>6, <1>7, <1>8, <1>9

(* What one process commits: the history as its readers see it moves only  *)
(* when a revision is recorded, by a picture of now.                       *)
SeenHistory == [n \in DOMAIN revisions |-> Picture(revisions[n])]

LEMMA PictureIs ==
  ASSUME NEW state, Pictured(state, state.watermark)
  PROVE  Picture(state) = [items |-> Plan(state), facts |-> state.watermark]
BY DEF Picture, Pictured, Whole

LEMMA AppendedIs ==
  ASSUME NEW n \in Nat, NEW S, NEW s \in [1 .. n -> S], NEW e \in S, NEW t,
         t = [k \in 1 .. n + 1 |-> IF k = n + 1 THEN e ELSE s[k]]
  PROVE  t = Append(s, e)
<1>1. s \in Seq(S) /\ Len(s) = n
  OBVIOUS
<1>2. t \in [1 .. n + 1 -> S]
  OBVIOUS
<1>3. t \in Seq(S) /\ Len(t) = n + 1
  BY <1>2
<1>4. \A k \in 1 .. n + 1 : t[k] = Append(s, e)[k]
  BY <1>1, AppendProperties
<1>5. Append(s, e) \in Seq(S) /\ Len(Append(s, e)) = n + 1
  BY <1>1, AppendProperties
<1> QED
  BY <1>3, <1>4, <1>5, SeqEqual

LEMMA SoloRefines ==
  ASSUME BookInv, SoloInv, [Next]_vars
  PROVE  [History!Next]_<<ledger, SeenHistory>>
<1>1. CASE UNCHANGED <<ledger, revisions>>
  BY <1>1 DEF SeenHistory, Picture, Plan
<1>2. ASSUME NEW w \in Writers, AddEvent(w) PROVE History!Next
  <2>1. ledger' = ledger + 1 /\ revisions' = revisions
    BY <1>2 DEF AddEvent
  <2>2. SeenHistory' = SeenHistory
    BY <2>1 DEF SeenHistory, Picture, Plan
  <2> QED BY <2>1, <2>2 DEF History!Next, History!Append1, SeenHistory
<1>3. ASSUME NEW w \in Writers, WriteRevision(w), revisions' # revisions PROVE History!Next
  <2> DEFINE state == frame[w].state
  <2>1. frame[w].at = "written" /\ revisions' = Append(revisions, state) /\ ledger' = ledger
    BY <1>3 DEF WriteRevision
  <2>2. w \in Opened
    BY <2>1 DEF SoloInv, Alone, Absent, NoCommit
  <2>3. Pictured(state, ledger) /\ state.watermark = ledger
    BY <2>1, <2>2 DEF SoloInv, Committing, Pictured
  <2>4. state \in State /\ revisions \in Seq(State)
    BY <2>1 DEF BookInv, ProcessSound, CommitSound, CoveredState, SoundState
  <2> DEFINE picture == [items |-> Plan(state), facts |-> ledger]
  <2>5. Plan(state) \in SUBSET (Items \cup Levers) /\ Picture(state) = picture
    BY <2>3, <2>4, PictureIs DEF Plan, State
  <2> HIDE DEF state
  <2>6. SeenHistory' = [n \in DOMAIN revisions' |-> Picture(revisions'[n])]
    BY DEF SeenHistory, Picture, Plan
  <2>7. /\ DOMAIN revisions' = 1 .. Len(revisions) + 1 /\ DOMAIN revisions = 1 .. Len(revisions)
        /\ revisions'[Len(revisions) + 1] = state
        /\ \A n \in 1 .. Len(revisions) : revisions'[n] = revisions[n]
    BY <2>1, <2>4
  <2>8. SeenHistory = [n \in 1 .. Len(revisions) |-> Picture(revisions[n])]
    BY <2>7 DEF SeenHistory
  <2>9. SeenHistory' = [n \in 1 .. Len(revisions) + 1 |->
                           IF n = Len(revisions) + 1 THEN picture ELSE SeenHistory[n]]
    BY <2>5, <2>6, <2>7, <2>8
  <2>10. SeenHistory' = Append(SeenHistory, picture)
    <3> DEFINE S == {SeenHistory[n] : n \in 1 .. Len(revisions)} \cup {picture}
    <3>1. SeenHistory \in [1 .. Len(revisions) -> S] /\ Len(revisions) \in Nat
      BY <2>4, <2>8
    <3> QED BY <2>9, <3>1, AppendedIs
  <2> QED
    BY <2>1, <2>5, <2>10 DEF History!Next, History!Commit, SeenHistory
<1>4. ASSUME NEW w \in Writers, Acts(w)
      PROVE  (UNCHANGED <<ledger, revisions>>) \/ AddEvent(w) \/ (WriteRevision(w) /\ revisions' # revisions)
  <2>1. CASE \/ \E i \in Items : SetItem(w, i) \/ RemoveItem(w, i) \/ DiscardItem(w, i)
             \/ \E p \in Levers : SetParam(w, p)
             \/ \E targets \in Targets : ReadWatermark(w, targets)
             \/ \E s \in Scenarios : RunScenario(w, s)
    BY <2>1 DEF SetItem, RemoveItem, DiscardItem, SetParam, ReadWatermark, RunScenario
  <2>2. CASE \/ Open(w) \/ Close(w) \/ WriteFile(w) \/ SaveDone(w) \/ Discard(w) \/ BuildState(w)
             \/ WriteTree(w) \/ LeaveCommit(w) \/ Crash(w)
    BY <2>2 DEF Open, Close, WriteFile, SaveDone, Discard, BuildState, WriteTree, LeaveCommit, Crash
  <2>3. CASE EnterCommit(w) \/ GetLock(w)
    BY <2>3 DEF EnterCommit, GetLock, bookVars
  <2>4. CASE WriteRevision(w)
    BY <2>4 DEF WriteRevision
  <2> QED
    BY <1>4, <2>1, <2>2, <2>3, <2>4 DEF Acts
<1>5. CASE UNCHANGED vars
  BY <1>1, <1>5 DEF vars, bookVars
<1> QED
  BY <1>1, <1>2, <1>3, <1>4, <1>5 DEF Next, Acts
-----------------------------------------------------------------------------
(* ADR-0006, kit.py, reproduce(): in a book that one process at a time has *)
(* open, and whose commits run every scenario, reproduce() finds the       *)
(* summaries of every revision again, whatever was appended to the ledger  *)
(* or written since and wherever a commit or a save was cut off.           *)
THEOREM OneProcessReproduces ==
  ASSUME OneProcess PROVE Spec => []RevisionsReproduce
<1>1. BookInv /\ SoloInv => RevisionsReproduce
  <2> SUFFICES ASSUME BookInv, SoloInv, NEW back \in 0 .. Len(revisions) - 1, NEW s \in Scenarios
               PROVE  Reproduce(ResolveBack(back), s) # "CK-E028"
    BY DEF RevisionsReproduce
  <2> DEFINE n == Len(revisions) - back
             state == revisions[n]
  <2>1. revisions \in Seq(State) /\ Len(revisions) \in Nat
    BY DEF BookInv
  <2>2. n \in DOMAIN revisions /\ ResolveBack(back) = n
    BY <2>1 DEF ResolveBack
  <2>3. state.watermark \in Nat /\ Pictured(state, state.watermark)
    BY <2>2 DEF BookInv, CoveredState, SoloInv, Pictures
  <2> HIDE DEF n
  <2>4. state.summaries[s] = [plan |-> Plan(state), facts |-> state.watermark, mark |-> state.watermark]
    BY <2>3 DEF Pictured, Whole
  <2>5. At(n) = [plan |-> state.summaries[s].plan, facts |-> state.summaries[s].facts]
    BY <2>3, <2>4, NoneIsNoValue DEF At
  <2> QED
    BY <2>2, <2>5 DEF Reproduce
<1> QED
  BY <1>1, InitBook, SoloStart, SoloStep, PTL DEF Spec

(* kit.py, status(): in such a book, what a process at rest is told is     *)
(* clean is on disk: the tree opens again as the plan of the last          *)
(* revision, whatever files earlier processes left half written.           *)
THEOREM CleanSurvives ==
  ASSUME OneProcess PROVE Spec => []CleanIsOnDisk
<1>1. BookInv /\ SoloInv => CleanIsOnDisk
  <2> SUFFICES ASSUME BookInv, SoloInv, NEW w \in Opened, AtRest(w), Clean(w)
               PROVE  Loads /\ Plan(Loaded) = Plan(HeadState)
    BY DEF CleanIsOnDisk
  <2>1. Loads /\ SamePlan(Loaded, kit[w])
    BY DEF SoloInv, OnDisk, AtRest
  <2>2. SamePlan(HeadState, kit[w])
    BY DEF Clean, CompareStates, SamePlan
  <2> QED
    BY <2>1, <2>2 DEF SamePlan, Plan
<1> QED
  BY <1>1, InitBook, SoloStart, SoloStep, PTL DEF Spec

(* ADR-0010, kit.py, diff_revisions() and history(): in such a book no     *)
(* item is missing from a later revision unless somebody took it out, and  *)
(* the log of a file has a revision for every change a diff shows.         *)
THEOREM DiffsAreExplained ==
  ASSUME OneProcess PROVE Spec => []DiffsAreAccountedFor
<1>1. BookInv /\ SoloInv => DiffsAreAccountedFor
  BY DiffsAccounted DEF SoloInv
<1> QED
  BY <1>1, InitBook, SoloStart, SoloStep, PTL DEF Spec

(* ADR-0006 as a refinement: such a book implements a history of pictures, *)
(* each of the configuration and the whole ledger at the moment the        *)
(* revision is recorded, although commit() reads and runs and writes step  *)
(* by step and may be cut off at each.                                     *)
THEOREM OneProcessImplementsSnapshotHistory ==
  ASSUME OneProcess PROVE Spec => ImplementsSnapshotHistory
<1>1. Init => History!Init
  <2> SUFFICES ASSUME Init PROVE History!Init
    OBVIOUS
  <2>1. ledger = 0 /\ revisions = <<>>
    BY DEF Init
  <2>2. [n \in DOMAIN revisions |-> Picture(revisions[n])] = <<>>
    BY <2>1
  <2> QED BY <2>1, <2>2 DEF History!Init
<1>2. BookInv /\ SoloInv /\ [Next]_vars =>
          [History!Next]_<<ledger, [n \in DOMAIN revisions |-> Picture(revisions[n])]>>
  BY SoloRefines DEF SeenHistory
<1> QED
  BY <1>1, <1>2, InitBook, SoloStart, SoloStep, PTL DEF Spec, ImplementsSnapshotHistory, History!Spec

=============================================================================
