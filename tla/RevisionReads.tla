--------------------------- MODULE RevisionReads ---------------------------
(***************************************************************************)
(* What a kit reads of its history, cashkit/sdk/kit.py over the revision   *)
(* store: refs, the log of a file, a past kit, the difference of two       *)
(* revisions, the re-run of one, and what is not committed yet.            *)
(*                                                                         *)
(* A revision is its place in the history; an item has one field, whether  *)
(* it is there, and a run is what it was made from.                        *)
(***************************************************************************)
EXTENDS BookStore

-----------------------------------------------------------------------------
(* The revision store                                                      *)

ResolveBack(back) == IF back < Len(revisions) THEN Len(revisions) - back ELSE None
FirstParent(n) == IF n = 1 THEN None ELSE n - 1

ReadState(n) ==
    LET state == revisions[n] IN
    [f \in {f \in Files : Wanted(state, f)} |-> Content(state, f)]
FileAt(n, f) ==
    IF n # None /\ f \in DOMAIN ReadState(n) THEN ReadState(n)[f] ELSE None

DiffStates(left, right) ==
    [added   |-> DOMAIN right \ DOMAIN left,
     removed |-> DOMAIN left \ DOMAIN right,
     changed |-> {f \in DOMAIN left \cap DOMAIN right : left[f] # right[f]}]

\* A revision touches a file that its first parent has otherwise.  The log of
\* a file is the set of their places, which is also their order.
Touches(n, f) == FileAt(n, f) # FileAt(FirstParent(n), f)
ListRevisions(f) == {n \in DOMAIN revisions : Touches(n, f)}

-----------------------------------------------------------------------------
(* history(), at(), reproduce()                                            *)

FieldAt(n, i) == n # None /\ i \in revisions[n].items
HistoryOf(i) ==
    {n \in ListRevisions(i) : FieldAt(n, i) # FieldAt(FirstParent(n), i)}

\* The configuration of a revision and the ledger cut at its watermark.
At(n) == [plan  |-> Plan(revisions[n]),
          facts |-> IF revisions[n].watermark = None THEN ledger ELSE revisions[n].watermark]

Reproduce(n, s) ==
    LET committed == revisions[n].summaries[s] IN
    CASE committed = None -> "CK-E025"
      [] committed # None /\ At(n) = [plan |-> committed.plan, facts |-> committed.facts] -> "reproduced"
      [] OTHER -> "CK-E028"

-----------------------------------------------------------------------------
(* diff_revisions(), status()                                              *)

OutcomeDiffs(left, right) ==
    {s \in Scenarios : left.summaries[s] # None \/ right.summaries[s] # None} \
    {s \in Scenarios : /\ left.summaries[s] # None /\ right.summaries[s] # None
                       /\ left.summaries[s].plan = right.summaries[s].plan
                       /\ left.summaries[s].facts = right.summaries[s].facts}

DiffRevisions(m, n) ==
    LET left == revisions[m]
        right == revisions[n]
        paths == DiffStates(ReadState(m), ReadState(n))
    IN [added       |-> right.items \ left.items,
        removed     |-> left.items \ right.items,
        params      |-> (left.params \cup right.params) \ (left.params \cap right.params),
        outcomes    |-> OutcomeDiffs(left, right),
        reformatted |-> paths.added \cup paths.removed \cup paths.changed]

(* Mutant: parameters are not compared.                                    *)
CompareItems(committed, current) ==
    [added |-> current.items \ committed.items, removed |-> committed.items \ current.items,
     params |-> {}]
CompareStates(committed, current) ==
    [added   |-> current.items \ committed.items,
     removed |-> committed.items \ current.items,
     params  |-> (committed.params \cup current.params) \ (committed.params \cap current.params)]

\* The watermark and the summaries are not work of the author's.
Clean(w) ==
    /\ revisions # <<>>
    /\ LET found == CompareStates(HeadState, kit[w])
       IN found.added = {} /\ found.removed = {} /\ found.params = {}
-----------------------------------------------------------------------------
(* ADR-0006: whatever happened since, crashes of a commit included,        *)
(* reproduce() finds the summaries of every revision again: the ones its   *)
(* own configuration and the ledger cut at its own watermark give.         *)
RevisionsReproduce ==
    \A back \in 0 .. Len(revisions) - 1, s \in Scenarios :
        Reproduce(ResolveBack(back), s) # "CK-E028"

(* ADR-0010: writers fail loudly and never merge silently: what a diff of  *)
(* two revisions says was removed, somebody took out; and whatever it says *)
(* changed, a revision between them is in the log of that file for.        *)
DiffsAreAccountedFor ==
    \A m, n \in DOMAIN revisions : m < n =>
        LET diff == DiffRevisions(m, n)
            Between(log) == log \cap (m + 1 .. n) # {}
        IN /\ diff.removed \subseteq removed
           /\ \A i \in diff.added \cup diff.removed : Between(HistoryOf(i))
           /\ \A f \in diff.reformatted : Between(ListRevisions(f))
           /\ diff.outcomes # {} => diff.reformatted # {}

(* What status() calls clean survives the process that said so: the tree   *)
(* opens again, as the plan of the last revision.                          *)
CleanIsOnDisk ==
    \A w \in Opened : AtRest(w) /\ Clean(w) => Loads /\ Plan(Loaded) = Plan(HeadState)

-----------------------------------------------------------------------------
(* A revision as its readers see it: the facts its snapshots were made     *)
(* from, when they all agree with its configuration and its watermark.     *)
Picture(state) ==
    IF \A s \in Scenarios : state.summaries[s] =
           [plan |-> Plan(state), facts |-> state.watermark, mark |-> state.watermark]
    THEN [items |-> Plan(state), facts |-> state.watermark]
    ELSE None

History == INSTANCE SnapshotHistory
    WITH Items <- Items \cup Levers, facts <- ledger, history <- [n \in DOMAIN revisions |-> Picture(revisions[n])]

(* A process alone on its book implements the history of pictures.         *)
ImplementsSnapshotHistory == History!Spec

-----------------------------------------------------------------------------
(* Two sentences one could expect of a book and the code does not keep;    *)
(* they delimit the properties above.                                      *)

(* A book opens again whatever died on it: a process that dies between the *)
(* truncation of a file and its write leaves one that load_state refuses.  *)
BookOpensAgain == Loads

(* No parameter of an older revision is missing in a later one that nobody *)
(* took it out of: an empty params.yaml reads as no parameters at all, and *)
(* the next save writes it so.                                             *)
ParametersNeverRevert ==
    \A m, n \in DOMAIN revisions : m < n => revisions[m].params \ revisions[n].params \subseteq removed

=============================================================================
