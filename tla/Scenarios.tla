----------------------------- MODULE Scenarios -----------------------------
(***************************************************************************)
(* Scenario overlays: cashkit/sdk/scenarios.py and model/scenario.py       *)
(* (ADR-0007, ADR-0009).  The authored book is the content of the base     *)
(* scenario; every other scenario is a sparse overlay of its parent.  It   *)
(* is written by whole items and stored by the fields that differ from the *)
(* parent, and read by walking the chain of its parents from the root.     *)
(*                                                                         *)
(* A set of scenarios is a value, [book, scenarios]: every operation is an *)
(* operator from one to the next.  An operation that leaves the value as   *)
(* it is reports CK-I002.  Items and overlays are functions from fields to *)
(* values, an overlay on the fields it records only.                       *)
(***************************************************************************)
EXTENDS Integers, Sequences, Functions, SequencesExt, FiniteSetsExt

CONSTANTS
    ItemIds,      \* the ids an item may have
    ScenarioIds,  \* the ids a scenario may have
    Base,         \* base_id: the scenario whose content is the authored book
    NoParent,     \* Python's None, as the parent of a scenario
    OverlayFields \* OVERLAY_FIELDS: the fields of an item an overlay records

ASSUME BaseIsAScenario == Base \in ScenarioIds /\ NoParent \notin ScenarioIds

OpeningBalance == "opening_balance"   \* the reserved param
BookOrigin == [scenario |-> NoParent, kind |-> "book"]

Nothing == <<>>                       \* the function with an empty domain
Without(map, key) == Restrict(map, DOMAIN map \ {key})
Over(above, map) ==
    [k \in DOMAIN above \cup DOMAIN map |-> IF k \in DOMAIN above THEN above[k] ELSE map[k]]
With(map, key, value) == Over([k \in {key} |-> value], map)
Put(map, key, record) == IF record = Nothing THEN Without(map, key) ELSE With(map, key, record)
Get(map, key, default) == IF key \in DOMAIN map THEN map[key] ELSE default

-----------------------------------------------------------------------------
(* Records.  An overlay is applied field by field, and made by keeping the *)
(* fields of an item that differ from its parent's.                        *)

EmptyScenario(parent) ==
    [parent |-> parent, params |-> Nothing, items |-> Nothing, added |-> Nothing,
     removed |-> {}, events |-> Nothing]

(* Mutant: what the item had wins over what the overlay records.           *)
OverlayBeneath(item, overlay) == Over(item, overlay)

ApplyOverlay(item, overlay) == Over(overlay, item)
DiffFields(left, right) == {f \in OverlayFields : left[f] # right[f]}
DiffOverlay(item, parent) == Restrict(item, DiffFields(item, parent))

(* What Scenario's validator asks of a stored scenario.                    *)
StructurallyConsistent(id, s) == s.parent # id /\ DOMAIN s.items \cap DOMAIN s.added = {}

-----------------------------------------------------------------------------
(* The chain, root first.  A parent that does not exist, or a cycle, cuts  *)
(* it short (CK-E021): a broken file must still be readable.               *)

NextAncestor(set, chain) ==
    IF chain = <<>> THEN NoParent ELSE set.scenarios[Head(chain)].parent

Climb(set, chain) ==
    LET up == NextAncestor(set, chain) IN
    IF up \in DOMAIN set.scenarios \ ToSet(chain) THEN <<up>> \o chain ELSE chain

Chain(set, id) ==
    FoldLeft(LAMBDA chain, step : Climb(set, chain),
             IF id \in DOMAIN set.scenarios THEN <<id>> ELSE <<>>,
             SetToSeq(DOMAIN set.scenarios))

Ancestry(set, id) == ToSet(Chain(set, id))
ChainIsBroken(set, id) == Chain(set, id) = <<>> \/ NextAncestor(set, Chain(set, id)) # NoParent

(* One scenario over what its parents gave: removals, then additions, then *)
(* overlays; an overlay of an item that is not there is CK-E023.           *)
Overlay(set, view, id) ==
    LET s == set.scenarios[id]
        kept == Restrict(view.items, DOMAIN view.items \ s.removed)
        present == Over(s.added, kept)
        gone == Over([i \in s.removed \cap DOMAIN view.items |-> id], view.removedBy)
        OriginOf(i) ==
            LET before == IF i \in DOMAIN s.added
                          THEN [f \in OverlayFields |-> [scenario |-> id, kind |-> "added"]]
                          ELSE view.origins[i]
                recorded == IF i \in DOMAIN s.items THEN DOMAIN s.items[i] ELSE {}
            IN Over([f \in recorded |-> [scenario |-> id, kind |-> "overlay"]], before)
    IN [items |-> [i \in DOMAIN present |->
                      ApplyOverlay(present[i], Get(s.items, i, Nothing))],
        origins |-> [i \in DOMAIN present |-> OriginOf(i)],
        removedBy |-> Restrict(gone, DOMAIN gone \ DOMAIN present),
        dangling |-> view.dangling \cup
                         {[item |-> i, scenario |-> id] : i \in DOMAIN s.items \ DOMAIN present},
        params |-> Over(s.params, view.params),
        events |-> [e \in DOMAIN s.events \cup DOMAIN view.events |->
                       Over(Get(s.events, e, Nothing), Get(view.events, e, Nothing))]]

Authored(book) ==
    [items |-> book.items,
     origins |-> [i \in DOMAIN book.items |-> [f \in OverlayFields |-> BookOrigin]],
     removedBy |-> Nothing, dangling |-> {}, params |-> book.params, events |-> Nothing]

Overlaid(set, chain) ==
    FoldLeft(LAMBDA view, id : Overlay(set, view, id), Authored(set.book), chain)

(* The opening balance is the param of that name, if there is one.         *)
Opened(set, view) ==
    [items |-> view.items, origins |-> view.origins, removedBy |-> view.removedBy,
     dangling |-> view.dangling, params |-> view.params, events |-> view.events,
     opening |-> Get(view.params, OpeningBalance, set.book.opening)]

ResolveChain(set, chain) == Opened(set, Overlaid(set, chain))

Resolve(set, id) == ResolveChain(set, Chain(set, id))

(* Everything above a scenario: what its writes are compared with.         *)
ParentView(set, id) ==
    LET parent == set.scenarios[id].parent IN
    IF parent = NoParent THEN ResolveChain(set, <<>>) ELSE Resolve(set, parent)

-----------------------------------------------------------------------------
(* Writes.                                                                 *)

Exists(set, id) == id \in DOMAIN set.scenarios
Replace(set, id, s) == [set EXCEPT !.scenarios[id] = s]
SetAuthoredItem(set, i, item) == [set EXCEPT !.book.items = With(@, i, item)]

Fork(set, parent, new) ==
    IF ~Exists(set, parent) \/ Exists(set, new) THEN set
    ELSE [set EXCEPT !.scenarios = With(@, new, EmptyScenario(parent))]

(* Mutant: an overlay of an item that is now added stays.                  *)
AddBesideOverlay(set, id, i, item) ==
    Replace(set, id, [set.scenarios[id] EXCEPT !.added = With(@, i, item), !.removed = @ \ {i}])

(* An item the parents do not have is stored whole.                        *)
AddToScenario(set, id, i, item) ==
    Replace(set, id, [set.scenarios[id] EXCEPT
        !.added = With(@, i, item), !.items = Without(@, i), !.removed = @ \ {i}])

(* An item they have is stored as its difference.  When the record of the  *)
(* item does not change nothing is stored, whatever else the scenario says *)
(* of it: an addition the parents have caught up with stays.               *)
OverlayInScenario(set, id, i, item, parent) ==
    LET s == set.scenarios[id]
        record == DiffOverlay(item, parent)
    IN IF record = Get(s.items, i, Nothing) /\ i \notin s.removed THEN set
       ELSE Replace(set, id, [s EXCEPT
                !.items = Put(@, i, record), !.added = Without(@, i), !.removed = @ \ {i}])

SetItem(set, id, i, item) ==
    LET parent == ParentView(set, id).items IN
    IF ~Exists(set, id) THEN set
    ELSE IF id = Base THEN SetAuthoredItem(set, i, item)
    ELSE IF i \in DOMAIN parent THEN OverlayInScenario(set, id, i, item, parent[i])
    ELSE AddToScenario(set, id, i, item)

SetParam(set, id, key, value) ==
    LET inherited == ParentView(set, id).params
        record == IF Get(inherited, key, NoParent) = value THEN Nothing ELSE [k \in {key} |-> value]
    IN IF ~Exists(set, id) THEN set
       ELSE IF id = Base THEN [set EXCEPT !.book.params = With(@, key, value)]
       ELSE [set EXCEPT !.scenarios[id].params = Over(record, Without(@, key))]

Unset(set, id, i) ==
    IF ~Exists(set, id) THEN set
    ELSE Replace(set, id, [set.scenarios[id] EXCEPT
             !.items = Without(@, i), !.added = Without(@, i), !.removed = @ \ {i}])

(* An addition of this scenario is dropped; what the parents have is       *)
(* recorded as removed.                                                    *)
RemoveItem(set, id, i) ==
    IF ~Exists(set, id) THEN set
    ELSE IF id = Base THEN [set EXCEPT !.book.items = Without(@, i)]
    ELSE IF i \in DOMAIN set.scenarios[id].added THEN
        [set EXCEPT !.scenarios[id].added = Without(@, i)]
    ELSE IF i \in DOMAIN ParentView(set, id).items THEN
        Replace(set, id, [set.scenarios[id] EXCEPT
            !.items = Without(@, i), !.removed = @ \cup {i}])
    ELSE set

(* Mutant: only what the scenario itself records is kept.                  *)
FlattenOwn(set, id, new) ==
    IF ~Exists(set, id) \/ Exists(set, new) THEN set
    ELSE [set EXCEPT !.scenarios =
             With(@, new, [set.scenarios[id] EXCEPT !.parent = NoParent])]

(* The chain collapsed: everything that differs from the authored book.    *)
Flatten(set, id, new) ==
    LET view == Resolve(set, id)
        book == set.book
        shared == DOMAIN view.items \cap DOMAIN book.items
        flat == [EmptyScenario(NoParent) EXCEPT
            !.added = Restrict(view.items, DOMAIN view.items \ DOMAIN book.items),
            !.items = [i \in {j \in shared : DiffFields(view.items[j], book.items[j]) # {}} |->
                          DiffOverlay(view.items[i], book.items[i])],
            !.removed = DOMAIN book.items \ DOMAIN view.items,
            !.params = Restrict(view.params, {k \in DOMAIN view.params :
                            Get(book.params, k, NoParent) # view.params[k]}),
            !.events = view.events]
    IN IF ~Exists(set, id) \/ Exists(set, new) THEN set
       ELSE [set EXCEPT !.scenarios = With(@, new, flat)]

(* A field of the authored book.                                           *)
SetBook(set, field, value) == [set EXCEPT !.book[field] = value]

-----------------------------------------------------------------------------
(* Reads.                                                                  *)

Provenance(set, id, i) ==
    LET view == Resolve(set, id) IN
    [exists |-> i \in DOMAIN view.items,
     fields |-> Get(view.origins, i, Nothing),
     removedBy |-> Get(view.removedBy, i, NoParent)]

(* Two scenarios are compared as the books they resolve to.                *)
ScenarioDiff(set, left, right) ==
    LET a == Resolve(set, left)
        b == Resolve(set, right)
        both == DOMAIN a.items \cap DOMAIN b.items
    IN [added |-> DOMAIN b.items \ DOMAIN a.items,
        removed |-> DOMAIN a.items \ DOMAIN b.items,
        changed |-> {i \in both : DiffFields(a.items[i], b.items[i]) # {}},
        params |-> {k \in DOMAIN a.params \cup DOMAIN b.params :
                       Get(a.params, k, NoParent) # Get(b.params, k, NoParent)},
        opening |-> a.opening # b.opening,
        events |-> {e \in DOMAIN a.events \cup DOMAIN b.events :
                       Get(a.events, e, Nothing) # Get(b.events, e, Nothing)}]

(* The ledger as a scenario sees it: an overlay never reaches an actual.   *)
ResolveEvents(set, id, rows) ==
    LET overlays == Resolve(set, id).events
        Seen(row) == IF row.status = "actual" THEN row
                     ELSE Over(Get(overlays, row.id, Nothing), row)
    IN [k \in DOMAIN rows |-> Seen(rows[k])]
=============================================================================
