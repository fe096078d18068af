------------------------------ MODULE Proposals ------------------------------
(***************************************************************************)
(* The write surface of the service: apps/service/cashkit_service,         *)
(* proposals.py and routers/book_edits.py.  An edit is first a card,       *)
(* dry-run against the book and stored; a second request accepts it.       *)
(*                                                                         *)
(* Requests are coroutines of one event loop: what lies between two awaits *)
(* is one step.  Each has a database transaction of its own, committed     *)
(* when it ends (READ COMMITTED: an UPDATE of a row another open           *)
(* transaction has written waits for it), and the book has a lock that is  *)
(* taken after the card was read and given back before the commit.         *)
(***************************************************************************)
EXTENDS Naturals, Sequences

CONSTANTS
    Requests,  \* the requests that may be in flight together
    Cards,     \* the ids of proposals
    Plans,     \* changes to the configuration
    Facts,     \* changes to the ledger
    Edits,     \* the operation lists a client may propose
    Kinds,     \* bound: the kinds of request the clients of an instance make
    None,      \* Python's None
    Faults,    \* whether requests may fail and the process may die
    MaxRev     \* bound: revisions of the book

VARIABLES
    book,      \* the open book: HEAD, the working overlay and the ledger
    lock,      \* the request that holds the book
    cards,     \* the proposals table, as committed
    overdue,   \* the cards found past their expires_at
    req,       \* the requests in flight
    applied    \* history: the cards applied, each with the book it gave

vars == <<book, lock, cards, overdue, req, applied>>

Changes == Plans \cup Facts
ASSUME EditsAreChanges == Edits \subseteq Seq(Changes) /\ Plans \cap Facts = {}

-----------------------------------------------------------------------------
(* The book.  Applying a change twice is applying it once: a plan change   *)
(* is written by value, and an event has an id made of its operation.      *)


ChangesOf(ops, n) == {ops[i] : i \in 1..n}
Applied(now, done) == [plan |-> now.plan \cup (done \cap Plans),
                       facts |-> now.facts \cup (done \cap Facts)]

(* Mutant: half a comparison.                                              *)
MatchesRevision(stored, current) == stored.revision = current.revision

(* Stamp.of: the revision and the fingerprint of overlay and ledger.       *)
StampOf(b) == [revision |-> b.rev, fingerprint |-> b.now]
Matches(stored, current) == stored = current
Outcome(card) == Applied(card.stamp.fingerprint, ChangesOf(card.ops, Len(card.ops)))

(* The rehearsal refuses an event the ledger already has (CK-E015).        *)
Applicable(now, ops) == ChangesOf(ops, Len(ops)) \cap now.facts = {}

-----------------------------------------------------------------------------
(* Requests and their transactions.                                        *)

Idle == [kind |-> "none", at |-> "idle", card |-> None, ops |-> <<>>,
         sweep |-> {}, writes |-> [c \in Cards |-> None]]
At(r, place) == req[r].at = place
Goto(r, place) == req' = [req EXCEPT ![r].at = place]
Over(r) == req' = [req EXCEPT ![r] = Idle]

(* A row as r sees it, and the rows r must wait for.                       *)
Sees(r, c) == IF req[r].writes[c] # None THEN req[r].writes[c] ELSE cards[c]
Locked(r, c) == cards[c] # None /\ \E q \in Requests \ {r} : req[q].writes[c] # None
Fresh(c) == cards[c] = None /\ \A r \in Requests : req[r].writes[c] = None

(* The dry run stops at the first operation it refuses, and the card keeps *)
(* what was tried.                                                         *)
Tried(now, ops) ==
    IF Applicable(now, ops) THEN ops
    ELSE SubSeq(ops, 1, CHOOSE n \in 1..Len(ops) : /\ ops[n] \in now.facts
                                                   /\ Applicable(now, SubSeq(ops, 1, n - 1)))

Card(status, ops, supersedes) ==
    [status |-> status, stamp |-> StampOf(book), ops |-> Tried(book.now, ops),
     supersedes |-> supersedes]
Marked(c, status) == [cards[c] EXCEPT !.status = status]

Write(r, c, row, place) == req' = [req EXCEPT ![r].writes[c] = row, ![r].at = place]

(* Mutant: the lock is not given back.                                     *)
StillLocked(r) == lock

Unlocked(r) == IF lock = r THEN None ELSE lock

(* Rolled back, the rows are as they were; the book keeps what it was      *)
(* given.                                                                  *)
RollBack(r) ==
    /\ lock' = Unlocked(r)
    /\ Over(r)
    /\ UNCHANGED <<book, cards, overdue, applied>>

Init ==
    LET nothing == [plan |-> {}, facts |-> {}] IN
    /\ book = [rev |-> 0, head |-> nothing, now |-> nothing]
    /\ lock = None
    /\ cards = [c \in Cards |-> None]
    /\ overdue = {}
    /\ req = [r \in Requests |-> Idle]
    /\ applied = {}

(* POST /book/edits, /book/save, /book/discard and scenario activation.    *)
Arrive(r, kind, ops) ==
    /\ At(r, "idle")
    /\ req' = [req EXCEPT ![r] = [Idle EXCEPT !.kind = kind, !.ops = ops, !.at = "waiting"]]
    /\ UNCHANGED <<book, lock, cards, overdue, applied>>

(* POST /proposals/{id}: the card is read before the book is locked; one   *)
(* that is not pending is refused (409, nothing is written).  The clock is *)
(* looked at here and nowhere else: a card found late stays late.          *)
Resolve(r, kind, c) ==
    /\ At(r, "idle")
    /\ cards[c] # None /\ cards[c].status = "pending"
    /\ \E late \in BOOLEAN :
          /\ c \in overdue => late
          /\ overdue' = IF late THEN overdue \cup {c} ELSE overdue
          /\ req' = [req EXCEPT ![r] = [Idle EXCEPT !.kind = kind, !.card = c, !.ops = cards[c].ops,
                                        !.at = IF late THEN "expiring" ELSE "waiting"]]
    /\ UNCHANGED <<book, lock, cards, applied>>

(* Past its time it is marked on a connection of its own, and refused.     *)
MarkExpired(r) ==
    LET c == req[r].card IN
    /\ At(r, "expiring") /\ ~Locked(r, c)
    /\ cards' = [cards EXCEPT ![c] = Marked(c, "expired")]
    /\ Over(r)
    /\ UNCHANGED <<book, lock, overdue, applied>>

TakeLock(r) ==
    /\ At(r, "waiting") /\ lock = None
    /\ lock' = r
    /\ Goto(r, "locked")
    /\ UNCHANGED <<book, cards, overdue, applied>>

(* create(): dry run, stamp and insert.                                    *)
Propose(r) ==
    /\ At(r, "locked") /\ req[r].kind = "edit"
    /\ \E c \in Cards : Fresh(c) /\ Write(r, c, Card("pending", req[r].ops, None), "leaving")
    /\ UNCHANGED <<book, lock, cards, overdue, applied>>

DiscardCard(r) ==
    LET c == req[r].card IN
    /\ At(r, "locked") /\ req[r].kind = "discard card"
    /\ ~Locked(r, c)
    /\ Write(r, c, Marked(c, "discarded"), "leaving")
    /\ UNCHANGED <<book, lock, cards, overdue, applied>>

Stale(r) == ~Matches(cards[req[r].card].stamp, StampOf(book))

(* The ground has moved: the card is superseded by one dry-run now.        *)
Refresh(r) ==
    LET c == req[r].card IN
    /\ At(r, "locked") /\ req[r].kind = "accept"
    /\ Stale(r) /\ ~Locked(r, c)
    /\ \E new \in Cards :
          /\ Fresh(new)
          /\ req' = [req EXCEPT ![r].writes[c] = Marked(c, "superseded"),
                                ![r].writes[new] = Card("pending", req[r].ops, c),
                                ![r].at = "leaving"]
    /\ UNCHANGED <<book, lock, cards, overdue, applied>>

(* The dry run asks a question instead of making a card: a new edit stores *)
(* nothing, and a refresh is a 409 whose rollback leaves the card pending. *)
Clarify(r) ==
    /\ At(r, "locked")
    /\ req[r].kind = "edit" \/ (req[r].kind = "accept" /\ Stale(r))
    /\ RollBack(r)

(* Mutant: the failed rehearsal does not stop the accept.                  *)
AcceptRefused(r) ==
    /\ At(r, "locked") /\ req[r].kind = "accept"
    /\ ~Stale(r) /\ ~Applicable(book.now, req[r].ops)
    /\ Goto(r, "marking")
    /\ UNCHANGED <<book, lock, cards, overdue, applied>>

(* The rehearsal fails: the request is refused and rolled back.            *)
RefuseApply(r) ==
    /\ At(r, "locked") /\ req[r].kind = "accept"
    /\ ~Stale(r) /\ ~Applicable(book.now, req[r].ops)
    /\ RollBack(r)

Apply(r) ==
    /\ At(r, "locked") /\ req[r].kind = "accept"
    /\ ~Stale(r) /\ Applicable(book.now, req[r].ops)
    /\ book' = [book EXCEPT !.now = Applied(@, ChangesOf(req[r].ops, Len(req[r].ops)))]
    /\ applied' = applied \cup {[card |-> req[r].card, gave |-> book'.now]}
    /\ Goto(r, "marking")
    /\ UNCHANGED <<lock, cards, overdue>>

MarkAccepted(r) ==
    LET c == req[r].card IN
    /\ At(r, "marking") /\ ~Locked(r, c)
    /\ Write(r, c, Marked(c, "accepted"), "superseding")
    /\ UNCHANGED <<book, lock, cards, overdue, applied>>

(* commit(), kit.discard() or nothing; then the lock is given back, and    *)
(* only then are the pending cards superseded.                             *)
Save(r) ==
    /\ At(r, "locked") /\ req[r].kind = "save"
    /\ \/ book.now = book.head /\ UNCHANGED book
       \/ /\ book.now # book.head /\ book.rev < MaxRev
          /\ book' = [book EXCEPT !.rev = @ + 1, !.head = book.now]
    /\ lock' = None
    /\ Goto(r, "superseding")
    /\ UNCHANGED <<cards, overdue, applied>>

DiscardOverlay(r) ==
    /\ At(r, "locked") /\ req[r].kind = "discard"
    /\ book' = [book EXCEPT !.now.plan = book.head.plan]
    /\ lock' = None
    /\ Goto(r, "superseding")
    /\ UNCHANGED <<cards, overdue, applied>>

Activate(r) ==
    /\ At(r, "locked") /\ req[r].kind = "activate"
    /\ lock' = None
    /\ Goto(r, "superseding")
    /\ UNCHANGED <<book, cards, overdue, applied>>

(* supersede_pending: the statement picks the pending rows it sees when it *)
(* starts, and locks them one after the other; one that another            *)
(* transaction holds is waited for, and looked at again.                   *)
Pending(r, c) == Sees(r, c) # None /\ Sees(r, c).status = "pending"

StartSweep(r) ==
    /\ At(r, "superseding")
    /\ req' = [req EXCEPT ![r].sweep = {c \in Cards \ {req[r].card} : Pending(r, c)},
                          ![r].at = "sweeping"]
    /\ UNCHANGED <<book, lock, cards, overdue, applied>>

SupersedeNext(r) ==
    /\ At(r, "sweeping")
    /\ \E c \in req[r].sweep :
          /\ ~Locked(r, c)
          /\ req' = [req EXCEPT ![r].sweep = @ \ {c},
                                ![r].writes[c] = IF Pending(r, c) THEN Marked(c, "superseded") ELSE @]
    /\ UNCHANGED <<book, lock, cards, overdue, applied>>

SweepDone(r) ==
    /\ At(r, "sweeping") /\ req[r].sweep = {}
    /\ Goto(r, "leaving")
    /\ UNCHANGED <<book, lock, cards, overdue, applied>>

Leave(r) ==
    /\ At(r, "leaving")
    /\ lock' = Unlocked(r)
    /\ Goto(r, "committing")
    /\ UNCHANGED <<book, cards, overdue, applied>>

Commit(r) ==
    /\ At(r, "committing")
    /\ cards' = [c \in Cards |-> Sees(r, c)]
    /\ Over(r)
    /\ UNCHANGED <<book, lock, overdue, applied>>

-----------------------------------------------------------------------------
Fail(r) == Faults /\ ~At(r, "idle") /\ RollBack(r)

(* Two transactions wait for each other's rows: Postgres aborts one.       *)
WaitsFor(r, q) ==
    \E c \in Cards : /\ cards[c] # None /\ req[q].writes[c] # None
                     /\ \/ At(r, "marking") /\ c = req[r].card
                        \/ At(r, "sweeping") /\ c \in req[r].sweep

BreakDeadlock(r) ==
    /\ \E q \in Requests \ {r} : WaitsFor(r, q) /\ WaitsFor(q, r)
    /\ RollBack(r)

(* The process dies, perhaps in the middle of an apply: every transaction  *)
(* is rolled back, and the next process opens the book as it is on disk.   *)
Crash ==
    /\ Faults
    /\ \/ UNCHANGED book
       \/ \E r \in Requests :
             /\ At(r, "locked") /\ req[r].kind = "accept" /\ ~Stale(r)
             /\ Applicable(book.now, req[r].ops)
             /\ \E n \in 1..Len(req[r].ops) :
                   book' = [book EXCEPT !.now = Applied(@, ChangesOf(req[r].ops, n))]
    /\ lock' = None
    /\ req' = [r \in Requests |-> Idle]
    /\ UNCHANGED <<cards, overdue, applied>>

Proceed(r) ==
    \/ MarkExpired(r) \/ TakeLock(r) \/ Propose(r) \/ DiscardCard(r) \/ Refresh(r)
    \/ Clarify(r) \/ RefuseApply(r) \/ Apply(r) \/ MarkAccepted(r) \/ Save(r) \/ DiscardOverlay(r)
    \/ Activate(r) \/ StartSweep(r) \/ SupersedeNext(r) \/ SweepDone(r) \/ Leave(r) \/ Commit(r)
    \/ BreakDeadlock(r)

Next ==
    \/ \E r \in Requests :
          \/ \E ops \in Edits : Arrive(r, "edit", ops)
          \/ \E kind \in Kinds \cap {"save", "discard", "activate"} : Arrive(r, kind, <<>>)
          \/ \E kind \in Kinds \cap {"accept", "discard card"}, c \in Cards : Resolve(r, kind, c)
          \/ Proceed(r)
          \/ Fail(r)
    \/ Crash

Spec == Init /\ [][Next]_vars
(* The event loop runs every coroutine; asyncio.Lock and the row locks of  *)
(* Postgres serve their waiters in turn.                                   *)
FairSpec == Spec /\ \A r \in Requests : SF_vars(Proceed(r))
-----------------------------------------------------------------------------
(* SPEC 2.5: "The card the user confirms is always the card that applies": *)
(* what an apply made of the book is what the dry run on the card showed,  *)
(* however many requests moved the book in between.                        *)
ConfirmedIsApplied == \A a \in applied : a.gave = Outcome(cards[a.card])

(* The table never claims an accept that did not reach the book, whatever  *)
(* failed.                                                                 *)
AcceptedMeansApplied ==
    \A c \in Cards : cards[c] # None /\ cards[c].status = "accepted" =>
        \E a \in applied : a.card = c

(* No request waits for ever: not on the book, not on a row, not on one    *)
(* that holds the book while it waits for a row.                           *)
RequestsAnswer == \A r \in Requests : ~At(r, "idle") ~> At(r, "idle")

Quiet == \A r \in Requests : At(r, "idle")

(* test_proposals: "a resolved proposal cannot be resolved again".         *)
ResolvedIsFinal ==
    [][\A c \in Cards : cards[c] # None /\ cards[c].status # "pending" =>
           cards'[c].status = cards[c].status]_vars

(* proposals.py: "no path mutates a book without a stored, user-accepted   *)
(* proposal": a card that was applied is not left pending.                 *)
AppliedIsResolved ==
    Quiet => \A a \in applied : cards[a.card].status # "pending"

(* book_edits.py: "a half-applied change is the one outcome a confirmation *)
(* must never produce".                                                    *)
NeverHalfApplied ==
    Quiet => \A c \in Cards : cards[c] # None =>
        LET done == ChangesOf(cards[c].ops, Len(cards[c].ops)) \cap (book.now.plan \cup book.now.facts)
        IN done = {} \/ done = ChangesOf(cards[c].ops, Len(cards[c].ops))

(* SPEC 2.5: Save, Discard, scenario activation and any accept supersede   *)
(* all other pending proposals: none outlives the book it was made for.    *)
PendingIsFresh ==
    Quiet => \A c \in Cards : cards[c] # None /\ cards[c].status = "pending" =>
        Matches(cards[c].stamp, StampOf(book))
=============================================================================
