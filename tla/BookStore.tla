----------------------------- MODULE BookStore -----------------------------
(***************************************************************************)
(* A book on disk and the kits open on it, cashkit/sdk/kit.py: the ledger, *)
(* the working tree, the revision history and, in each process, the        *)
(* authored state a CashKit holds in memory.                               *)
(*                                                                         *)
(* An edit changes the kit's state and rewrites the whole working tree     *)
(* from it; an event goes to the ledger.  Neither takes the writer lock:   *)
(* only commit() does, and it reads the ledger once for the watermark of   *)
(* its snapshots, once per scenario it runs, and once more for the         *)
(* watermark of the book.                                                  *)
(*                                                                         *)
(* The ledger is its length and a watermark is a length: Ledger shows that *)
(* a read cut at a watermark gives the facts of that moment.  The tree is  *)
(* rewritten file by file (stores/config.py): a process that dies on the   *)
(* way leaves some files new and some old, and may leave an empty one.     *)
(***************************************************************************)
EXTENDS WriterLock, Naturals, Sequences, FiniteSets

CONSTANTS
    Items,        \* the items of the book
    Levers,       \* its parameters
    Scenarios,    \* its scenarios
    Layout,       \* the files of the tree in the order of their paths
    BookFile, ParamsFile,
    Targets,      \* the sets of scenarios commit() is asked for
    None,         \* Python's None
    MaxOpen,      \* how many processes may have the book open at once
    MaxLedger,    \* bound: entries of the ledger
    MaxRevisions  \* bound: revisions

\* An item and a summary have a file each, named here by what is in it.
Files == {BookFile, ParamsFile} \cup Items \cup Scenarios
ASSUME FilesAreDistinct ==
    /\ BookFile # ParamsFile
    /\ {BookFile, ParamsFile} \cap (Items \cup Scenarios) = {} /\ Items \cap Scenarios = {}
ASSUME LayoutIsComplete ==
    /\ Layout \in Seq(Files)
    /\ \A f \in Files : \E n \in DOMAIN Layout : Layout[n] = f
    /\ \A m, n \in DOMAIN Layout : Layout[m] = Layout[n] => m = n

VARIABLES
    ledger,     \* how many entries the ledger has
    tree,       \* the working tree
    torn,       \* its files that were opened for writing and never written
    saving,     \* what each process is writing to the tree, and how far it is
    revisions,  \* the states of the history, oldest first
    kit,        \* what each process that has the book open holds in memory
    frame,      \* the locals of each running commit()
    removed     \* history: the items some kit removed or discarded

bookVars == <<ledger, tree, torn, saving, revisions, kit, frame, removed>>
vars == <<lockVars, bookVars>>
treeVars == <<tree, torn, saving>>

(* A state as build_state lays it out: the book with its watermark, and    *)
(* one committed summary per scenario, which is [plan, facts, mark].       *)
Summary == [plan : SUBSET (Items \cup Levers), facts : Nat, mark : Nat]
State == [items : SUBSET Items, params : SUBSET Levers, watermark : Nat \cup {None},
          summaries : [Scenarios -> Summary \cup {None}]]
ASSUME NoneIsNoValue == None \notin State \cup [state : State, at : Nat] \cup Summary \cup BOOLEAN \cup Nat

NewBook == [items |-> {}, params |-> {}, watermark |-> None, summaries |-> [s \in Scenarios |-> None]]
\* Everything an author wrote.
Plan(state) == state.items \cup state.params
Closed == None
NotSaving == None
NoCommit == [at |-> "out"]
HeadState == revisions[Len(revisions)]

Init ==
    /\ LockInit
    /\ ledger = 0
    /\ tree = NewBook
    /\ torn = {}
    /\ saving = [w \in Writers |-> NotSaving]
    /\ revisions = <<>>
    /\ kit = [w \in Writers |-> Closed]
    /\ frame = [w \in Writers |-> NoCommit]
    /\ removed = {}

-----------------------------------------------------------------------------
(* Outside commit()                                                        *)

Opened == {w \in Writers : kit[w] # Closed}
AtRest(w) == w \in Opened /\ pc[w] = "idle" /\ saving[w] = NotSaving

(* write_working_tree: the files of a state in the order of their paths,   *)
(* then those it does not have are removed.  Rewriting a file as it is     *)
(* changes nothing.                                                        *)
Content(state, f) ==
    CASE f = BookFile -> state.watermark
      [] f = ParamsFile -> state.params
      [] f \in Items -> f \in state.items
      [] f \in Scenarios -> state.summaries[f]
Rewritten(state, f) ==
    [items |-> (tree.items \ {f}) \cup (state.items \cap {f}),
     params |-> IF f = ParamsFile THEN state.params ELSE tree.params,
     watermark |-> IF f = BookFile THEN state.watermark ELSE tree.watermark,
     summaries |-> [s \in Scenarios |-> IF f = s THEN state.summaries[s] ELSE tree.summaries[s]]]

Wanted(state, f) == f \in {BookFile, ParamsFile} \cup state.items \/ (f \in Scenarios /\ state.summaries[f] # None)
Place(f) == CHOOSE n \in DOMAIN Layout : Layout[n] = f
Pass(state, f) == IF Wanted(state, f) THEN Place(f) ELSE Len(Layout) + Place(f)

(* What a process has still to change, and which comes next.               *)
Differs(state, f) == f \in torn \/ Content(tree, f) # Content(state, f)
Changing(w) ==
    {f \in Files : Pass(saving[w].state, f) > saving[w].at /\ Differs(saving[w].state, f)}
NextFile(w) ==
    LET state == saving[w].state IN
    CHOOSE f \in Changing(w) : \A g \in Changing(w) : Pass(state, f) <= Pass(state, g)
Written(w) == saving[w] # NotSaving /\ Changing(w) = {}

WriteFile(w) ==
    /\ saving[w] # NotSaving /\ Changing(w) # {}
    /\ tree' = Rewritten(saving[w].state, NextFile(w))
    /\ torn' = torn \ {NextFile(w)}
    /\ saving' = [saving EXCEPT ![w].at = Pass(saving[w].state, NextFile(w))]
    /\ UNCHANGED <<lockVars, ledger, revisions, kit, frame, removed>>

(* A file is opened, which empties it, and then written: whoever dies in   *)
(* between leaves it empty.                                                *)
InTheWay(w) ==
    IF saving[w] = NotSaving THEN {}
    ELSE LET state == saving[w].state IN
         {f \in Files : /\ Wanted(state, f) /\ Pass(state, f) > saving[w].at
                        /\ Changing(w) # {} => Pass(state, f) <= Pass(state, NextFile(w))}

(* Every write of a kit ends in _save: the tree becomes the kit's state.   *)
Writing(w, state) == saving' = [saving EXCEPT ![w] = [state |-> state, at |-> 0]]
Save(w, state) == kit' = [kit EXCEPT ![w] = state] /\ Writing(w, state) /\ UNCHANGED <<tree, torn>>

SaveDone(w) ==
    /\ Written(w) /\ frame[w].at = "out"
    /\ saving' = [saving EXCEPT ![w] = NotSaving]
    /\ UNCHANGED <<lockVars, ledger, tree, torn, revisions, kit, frame, removed>>

(* load_state refuses an empty file, but for the parameters: "or {}".      *)
(* Mutant: an empty file is a file that is not there.                      *)
LoadsAnything == TRUE
Loads == torn \subseteq {ParamsFile}
Loaded == [tree EXCEPT !.items = @ \ torn, !.params = IF ParamsFile \in torn THEN {} ELSE @]

Open(w) ==
    /\ w \notin Opened /\ pc[w] = "idle" /\ Cardinality(Opened) < MaxOpen
    /\ Loads
    /\ kit' = [kit EXCEPT ![w] = Loaded]
    /\ UNCHANGED <<lockVars, ledger, treeVars, revisions, frame, removed>>

Close(w) ==
    /\ AtRest(w)
    /\ kit' = [kit EXCEPT ![w] = Closed]
    /\ UNCHANGED <<lockVars, ledger, treeVars, revisions, frame, removed>>

SetItem(w, i) ==
    /\ AtRest(w) /\ i \notin kit[w].items
    /\ Save(w, [kit[w] EXCEPT !.items = @ \cup {i}])
    /\ UNCHANGED <<lockVars, ledger, revisions, frame, removed>>

SetParam(w, p) ==
    /\ AtRest(w) /\ p \notin kit[w].params
    /\ Save(w, [kit[w] EXCEPT !.params = @ \cup {p}])
    /\ UNCHANGED <<lockVars, ledger, revisions, frame, removed>>

RemoveItem(w, i) ==
    /\ AtRest(w) /\ i \in kit[w].items
    /\ Save(w, [kit[w] EXCEPT !.items = @ \ {i}])
    /\ removed' = removed \cup {i}
    /\ UNCHANGED <<lockVars, ledger, revisions, frame>>

AddEvent(w) ==
    /\ AtRest(w) /\ ledger < MaxLedger
    /\ ledger' = ledger + 1
    /\ UNCHANGED <<lockVars, treeVars, revisions, kit, frame, removed>>

Discard(w) ==
    /\ AtRest(w) /\ revisions # <<>>
    /\ Save(w, HeadState)
    /\ removed' = removed \cup (Plan(kit[w]) \ Plan(HeadState))
    /\ UNCHANGED <<lockVars, ledger, revisions, frame>>

(* discard(items=[i]) restores that item and leaves the rest.              *)
DiscardItem(w, i) ==
    /\ AtRest(w) /\ revisions # <<>>
    /\ Save(w, [kit[w] EXCEPT !.items = (@ \ {i}) \cup (HeadState.items \cap {i})])
    /\ removed' = removed \cup (({i} \cap kit[w].items) \ HeadState.items)
    /\ UNCHANGED <<lockVars, ledger, revisions, frame>>

-----------------------------------------------------------------------------
(* commit()                                                                *)

EnterCommit(w) ==
    /\ AtRest(w) /\ Len(revisions) < MaxRevisions
    /\ Acquire(w)
    /\ UNCHANGED bookVars

GetLock(w) ==
    /\ WriteBody(w) \/ FailBody(w) \/ ReadHolder(w) \/ Refuse(w) \/ Condemn(w) \/ Unlink(w)
       \/ CreateAgain(w)
    /\ UNCHANGED bookVars

(* The locals of a commit: where it is, the scenarios it has still to run, *)
(* the watermark it read, and the state it built.                          *)
CommitAt(at, todo, mark, state) == [at |-> at, todo |-> todo, mark |-> mark, state |-> state]

ReadWatermark(w, targets) ==
    /\ pc[w] = "holding" /\ frame[w].at = "out"
    /\ frame' = [frame EXCEPT ![w] = CommitAt("running", targets, ledger, None)]
    /\ UNCHANGED <<lockVars, ledger, treeVars, revisions, kit, removed>>

(* Mutant: a scenario that has a summary is not run again.                 *)
RunScenarioOnce(w, s) ==
    LET f == frame[w] IN
    /\ f.at = "running" /\ s \in f.todo
    /\ kit' = IF kit[w].summaries[s] # None THEN kit
              ELSE [kit EXCEPT ![w].summaries[s] =
                       [plan |-> Plan(kit[w]), facts |-> ledger, mark |-> f.mark]]
    /\ frame' = [frame EXCEPT ![w].todo = f.todo \ {s}]
    /\ UNCHANGED <<lockVars, ledger, treeVars, revisions, removed>>

RunScenario(w, s) ==
    LET f == frame[w] IN
    /\ f.at = "running" /\ s \in f.todo
    /\ kit' = [kit EXCEPT ![w].summaries[s] =
                   [plan |-> Plan(kit[w]), facts |-> ledger, mark |-> f.mark]]
    /\ frame' = [frame EXCEPT ![w].todo = f.todo \ {s}]
    /\ UNCHANGED <<lockVars, ledger, treeVars, revisions, removed>>

(* Mutant: the state carries the watermark of the snapshots.               *)
BuildStateAtMark(w) ==
    LET f == frame[w] IN
    /\ f.at = "running" /\ f.todo = {}
    /\ frame' = [frame EXCEPT ![w] = CommitAt("built", {}, f.mark,
                                              [kit[w] EXCEPT !.watermark = f.mark])]
    /\ UNCHANGED <<lockVars, ledger, treeVars, revisions, kit, removed>>

(* config_state(watermark_from_ledger=True): the ledger is read again.     *)
BuildState(w) ==
    LET f == frame[w] IN
    /\ f.at = "running" /\ f.todo = {}
    /\ frame' = [frame EXCEPT ![w] = CommitAt("built", {}, f.mark,
                                              [kit[w] EXCEPT !.watermark = ledger])]
    /\ UNCHANGED <<lockVars, ledger, treeVars, revisions, kit, removed>>

WriteTree(w) ==
    /\ frame[w].at = "built"
    /\ Writing(w, frame[w].state)
    /\ frame' = [frame EXCEPT ![w].at = "written"]
    /\ UNCHANGED <<lockVars, ledger, tree, torn, revisions, kit, removed>>

(* An unchanged tree is not a revision (CK-I002).                          *)
WriteRevision(w) ==
    LET f == frame[w]
        unchanged == revisions # <<>> /\ HeadState = f.state
    IN /\ f.at = "written" /\ Written(w)
       /\ saving' = [saving EXCEPT ![w] = NotSaving]
       /\ revisions' = IF unchanged THEN revisions ELSE Append(revisions, f.state)
       /\ frame' = [frame EXCEPT ![w].at = IF unchanged THEN "empty" ELSE "recorded"]
       /\ UNCHANGED <<lockVars, ledger, tree, torn, kit, removed>>

(* The lock is released, and the watermark the snapshots carry is adopted. *)
LeaveCommit(w) ==
    /\ frame[w].at \in {"recorded", "empty"}
    /\ kit' = IF frame[w].at = "recorded" THEN [kit EXCEPT ![w].watermark = frame[w].mark] ELSE kit
    /\ frame' = [frame EXCEPT ![w] = NoCommit]
    /\ Release(w)
    /\ UNCHANGED <<ledger, treeVars, revisions, removed>>

-----------------------------------------------------------------------------
(* The process dies: its memory is gone, the disk stays as it is.  The     *)
(* next process on the book is another writer.                             *)
Crash(w) ==
    /\ Die(w) /\ w \in Opened
    /\ kit' = [kit EXCEPT ![w] = Closed]
    /\ frame' = [frame EXCEPT ![w] = NoCommit]
    /\ \E f \in {None} \cup InTheWay(w) : torn' = torn \cup ({f} \ {None})
    /\ saving' = [saving EXCEPT ![w] = NotSaving]
    /\ UNCHANGED <<ledger, tree, revisions, removed>>

Next ==
    \E w \in Writers :
        \/ Open(w) \/ Close(w)
        \/ \E i \in Items : SetItem(w, i) \/ RemoveItem(w, i) \/ DiscardItem(w, i)
        \/ \E p \in Levers : SetParam(w, p)
        \/ WriteFile(w) \/ SaveDone(w)
        \/ AddEvent(w)
        \/ Discard(w)
        \/ EnterCommit(w)
        \/ GetLock(w)
        \/ \E targets \in Targets : ReadWatermark(w, targets)
        \/ \E s \in Scenarios : RunScenario(w, s)
        \/ BuildState(w)
        \/ WriteTree(w)
        \/ WriteRevision(w)
        \/ LeaveCommit(w)
        \/ Crash(w)

Spec == Init /\ [][Next]_vars
-----------------------------------------------------------------------------
(* commit() reads the ledger for the snapshots' watermark, then for each   *)
(* run, then for the book's watermark: whoever appends in between, a       *)
(* revision never has snapshots that saw more than its watermark covers,   *)
(* nor less than the watermark they carry.                                 *)
SnapshotsWithinWatermark ==
    \A n \in DOMAIN revisions, s \in Scenarios :
        LET made == revisions[n].summaries[s] IN
        made # None => made.mark <= made.facts /\ made.facts <= revisions[n].watermark

=============================================================================
