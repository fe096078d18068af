-------------------------------- MODULE Turns --------------------------------
(***************************************************************************)
(* POST /turns: one sentence of the user, taken through the pipeline       *)
(* (agent/pipeline.py), with its journal (agent/journal.py), the budget    *)
(* it is admitted by (agent/budget.py), the guard on what the model says   *)
(* (agent/guard.py), and the connections all of it needs (db.py, deps.py). *)
(*                                                                         *)
(* Several requests of one user and one session.  A request keeps its own  *)
(* connection, and the transaction in it, from the first query to its end, *)
(* and the journal takes a second one for each of its writes; both come    *)
(* from one pool, which gives up after a while.  A step is what lies       *)
(* between two awaits; what is held under the book's lock without an await *)
(* is one step.                                                            *)
(***************************************************************************)
EXTENDS Integers, Sequences, FiniteSets, FiniteSetsExt, SequencesExt

CONSTANTS
    Requests,      \* turns, one request each
    PoolSize,      \* db_pool_size + db_max_overflow
    MaxCalls,      \* llm_max_calls_per_turn
    Attempts,      \* llm_json_retries + 1
    QaRounds,      \* llm_qa_max_calls
    Budget,        \* daily_model_budget_usd, in the price of a call
    TurnsPerHour,  \* turns_per_hour
    Answers,       \* what the model may say: [kind, intents]
    Refused,       \* changes the book refuses
    Undated,       \* changes that make it ask for a date
    None,
    Other          \* whoever else takes the book: an import, an edit

ASSUME PoolIsUsable == PoolSize \in Nat \ {0, 1}
ASSUME CallsArePositive == MaxCalls \in Nat \ {0} /\ Attempts \in Nat \ {0}
ASSUME BudgetIsNatural == Budget \in Nat
ASSUME RequestsAreFinite == IsFiniteSet(Requests)

VARIABLES
    turn,     \* the requests: where each is, and run_turn's locals
    turns,    \* the table turns, as committed
    calls,    \* the table llm_calls: how many rows each turn has
    cards,    \* the table proposals, as committed
    refusals, \* the refusals' rows in turns, as committed: how many
    book,     \* who holds the book's lock
    session,  \* the session's row: whether its renewal is due, and who has it locked
    spent     \* what the provider has charged each turn, and what it was asked for

vars == <<turn, turns, calls, cards, refusals, book, session, spent>>

-----------------------------------------------------------------------------
(* guard: what the model may name, sorted; everything else is dropped.     *)
ReadOps == {"cash_on", "query_ledger"}
MutationOps == {"add_item", "set_amount", "scale_items", "add_event"}
VerifyTriggers == {"shift_items", "scale_items"}
Changes(answer) == SelectSeq(answer.intents, LAMBDA op : op \in MutationOps)
AsksToRead(answer) == ToSet(answer.intents) \cap ReadOps # {}

(* What the model names is a list; None is no row, and no reason to end.   *)
Outcomes == {"running", "proposed", "call_limit", "clarified", "answered", "failed"}
ASSUME AnswersAreLists == \A answer \in Answers : Changes(answer) \in Seq(MutationOps)
ASSUME NoneIsNoRow == None \notin [outcome : Outcomes, cost : Nat]
ASSUME NoneIsNoReason == None \notin {"limit", "unreadable", "undated"}

(* dry_run stops at the first operation it cannot do.                      *)
Problem(ops) == {n \in DOMAIN ops : ops[n] \in Refused \cup Undated}
Tried(ops) == IF Problem(ops) = {} THEN ops ELSE SubSeq(ops, 1, Min(Problem(ops)))
Applies(ops) == Problem(ops) = {}
AsksForADate(ops) == ~Applies(ops) /\ Last(Tried(ops)) \in Undated
Triggered(ops) == ToSet(ops) \cap VerifyTriggers # {}

-----------------------------------------------------------------------------
At(r, place) == turn[r].at = place
InFlight(r) == turn[r].at \notin {"off", "over"}
HoldsConnection(r) == InFlight(r)
FreeConnection == Cardinality({r \in Requests : HoldsConnection(r)}) < PoolSize

Init ==
    /\ turn = [r \in Requests |->
          [at |-> "off", due |-> FALSE, purpose |-> "interpret", tries |-> 0, heard |-> None,
           answered |-> FALSE, seq |-> 0, cost |-> 0, rounds |-> 0, kind |-> "answer",
           declared |-> "answer", changes |-> <<>>, repaired |-> FALSE, card |-> None,
           refused |-> FALSE, why |-> None]]
    /\ turns = [r \in Requests |-> None]
    /\ calls = [r \in Requests |-> 0]
    /\ cards = [r \in Requests |-> None]
    /\ refusals = 0
    /\ book = None
    /\ session \in [due : BOOLEAN, by : {None}]
    /\ spent = [r \in Requests |-> [calls |-> 0, wanted |-> <<>>]]

(* The end of the request's transaction, and of its hold on a connection.  *)
Unlock(r) == IF session.by = r THEN [session EXCEPT !.by = None] ELSE session
Over(r) ==
    [turn[r] EXCEPT !.at = "over", !.purpose = "interpret", !.tries = 0, !.heard = None,
                    !.answered = FALSE, !.rounds = 0, !.declared = "answer", !.why = None]
RollBack(r) ==
    /\ turn' = [turn EXCEPT ![r] = Over(r)]
    /\ session' = Unlock(r)
    /\ UNCHANGED <<turns, calls, cards, refusals, spent>>

(* deps.get_conn and authenticate: the session is read, and renewed when   *)
(* that is due; the row stays locked until the request ends.               *)
Arrive(r) ==
    /\ At(r, "off") /\ FreeConnection
    /\ turn' = [turn EXCEPT ![r].at = IF session.due THEN "renewing" ELSE "checking"]
    /\ UNCHANGED <<turns, calls, cards, refusals, book, session, spent>>

Renew(r) ==
    /\ At(r, "renewing") /\ session.by = None
    /\ session' = [session EXCEPT !.by = r]
    /\ turn' = [turn EXCEPT ![r].at = "checking"]
    /\ UNCHANGED <<turns, calls, cards, refusals, book, spent>>

(* budget.check_turn, on what other connections have committed; all of it  *)
(* within the hour and the day it looks back on.                           *)
SpentToday == MapThenSumSet(LAMBDA q : turns[q].cost, {q \in Requests : turns[q] # None})
ThisHour == Cardinality({q \in Requests : turns[q] # None}) + refusals

CheckTurn(r) ==
    /\ At(r, "checking")
    /\ turn' = [turn EXCEPT ![r] =
          IF ThisHour >= TurnsPerHour \/ SpentToday >= Budget
          THEN [@ EXCEPT !.at = "snapshot", !.kind = "refusal", !.refused = TRUE]
          ELSE [@ EXCEPT !.at = "snapshot"]]
    /\ UNCHANGED <<turns, calls, cards, refusals, book, session, spent>>

(* The book's snapshot for the prompt, or the envelope of the refusal.     *)
Snapshot(r) ==
    /\ At(r, "snapshot") /\ book = None
    /\ turn' = [turn EXCEPT ![r].at = IF turn[r].refused THEN "responding" ELSE "opening"]
    /\ UNCHANGED <<turns, calls, cards, refusals, book, session, spent>>

(* TurnJournal.open, before the pipeline's try.                            *)
OpenJournal(r) ==
    /\ At(r, "opening") /\ FreeConnection
    /\ turns' = [turns EXCEPT ![r] = [outcome |-> "running", cost |-> 0]]
    /\ turn' = [turn EXCEPT ![r].at = "asking", ![r].tries = 1]
    /\ UNCHANGED <<calls, cards, refusals, book, session, spent>>

-----------------------------------------------------------------------------
(* ask_json.                                                               *)
Unreadable == [kind |-> "unreadable", intents |-> <<>>]
Unreachable == [kind |-> "unreachable", intents |-> <<>>]

Limited(t) == [t EXCEPT !.at = "closing", !.kind = "refusal", !.why = "limit"]

(* Mutant: the ceiling is looked at when a question is first put.          *)
AskUnlimited(t, purpose, tries) ==
    IF t.seq >= MaxCalls /\ tries = 1 THEN Limited(t)
    ELSE [t EXCEPT !.at = "asking", !.purpose = purpose, !.tries = tries, !.heard = None,
                   !.answered = tries > 1 /\ @]

Ask(t, purpose, tries) ==
    IF t.seq >= MaxCalls THEN Limited(t)
    ELSE [t EXCEPT !.at = "asking", !.purpose = purpose, !.tries = tries, !.heard = None,
                   !.answered = tries > 1 /\ @]

(* TurnJournal.record adds up before it writes.                            *)
(* Mutant: what was charged is added up when the row is written.           *)
AddedLater(t, answer) == [t EXCEPT !.at = "recording", !.heard = answer, !.seq = @ + 1]
AddedUp(t, answer) ==
    [t EXCEPT !.at = "recording", !.heard = answer, !.seq = @ + 1,
              !.cost = @ + (IF answer = Unreachable THEN 0 ELSE 1)]

Complete(r, answer) ==
    /\ At(r, "asking")
    /\ turn' = [turn EXCEPT ![r] = AddedUp(@, answer)]
    /\ spent' = [spent EXCEPT ![r] =
          [calls |-> @.calls + (IF answer = Unreachable THEN 0 ELSE 1),
           wanted |-> IF answer \in Answers /\ turn[r].purpose \in {"interpret", "qa"}
                      THEN @.wanted \o Changes(answer) ELSE @.wanted]]
    /\ UNCHANGED <<turns, calls, cards, refusals, book, session>>

(* What becomes of an answer.  A turn with changes goes on to the change   *)
(* phase, whatever its read phase said.                                    *)
ToChanges(t) ==
    IF t.changes # <<>> THEN [t EXCEPT !.at = "drying"]
    ELSE [t EXCEPT !.at = "closing",
                   !.kind = IF @ = "answer" /\ t.declared = "clarification"
                            THEN "clarification" ELSE @]

Interpreted(t, answer) ==
    LET sorted == [t EXCEPT !.changes = Changes(answer), !.declared = answer.kind]
    IN  IF AsksToRead(answer) THEN [sorted EXCEPT !.at = "reading"] ELSE ToChanges(sorted)

(* Mutant: a question of the model's ends the loop before its changes are  *)
(* sorted.                                                                 *)
FollowedInHaste(t, answer) ==
    LET sorted == [t EXCEPT !.changes = @ \o Changes(answer)]
    IN  IF answer.kind = "clarification" THEN ToChanges([t EXCEPT !.kind = "clarification"])
        ELSE IF AsksToRead(answer) /\ t.rounds < QaRounds THEN [sorted EXCEPT !.at = "reading"]
        ELSE ToChanges(sorted)

FollowedUp(t, answer) ==
    LET sorted == [t EXCEPT !.changes = @ \o Changes(answer)]
    IN  IF answer.kind = "clarification" THEN ToChanges([sorted EXCEPT !.kind = "clarification"])
        ELSE IF AsksToRead(answer) /\ t.rounds < QaRounds THEN [sorted EXCEPT !.at = "reading"]
        ELSE ToChanges(sorted)

Repaired(t, answer) ==
    IF Changes(answer) = <<>> THEN [t EXCEPT !.at = "storing"]
    ELSE [t EXCEPT !.at = "drying", !.repaired = TRUE, !.changes = Changes(answer)]

Verified(t, answer) ==
    IF answer.kind = "confirmed" \/ Changes(answer) = <<>> THEN [t EXCEPT !.at = "storing"]
    ELSE [t EXCEPT !.at = "storing", !.repaired = TRUE, !.changes = Changes(answer)]

Understood(t) ==
    CASE t.purpose = "interpret" -> Interpreted(t, t.heard)
      [] t.purpose = "qa"        -> FollowedUp(t, t.heard)
      [] t.purpose = "repair"    -> Repaired(t, t.heard)
      [] t.purpose = "verify"    -> Verified(t, t.heard)

Misheard(t) ==
    LET answered == t.answered \/ t.heard = Unreadable
    IN  IF t.tries < Attempts THEN Ask([t EXCEPT !.answered = answered], t.purpose, t.tries + 1)
        ELSE IF answered THEN [t EXCEPT !.at = "closing", !.kind = "clarification", !.why = "unreadable"]
        ELSE [t EXCEPT !.at = "erroring"]

RecordCall(r) ==
    /\ At(r, "recording") /\ FreeConnection
    /\ calls' = [calls EXCEPT ![r] = @ + 1]
    /\ turn' = [turn EXCEPT ![r] = IF @.heard \in Answers THEN Understood(@) ELSE Misheard(@)]
    /\ UNCHANGED <<turns, cards, refusals, book, session, spent>>

-----------------------------------------------------------------------------
(* read_context without an await in it: the reads, the rehearsal and the   *)
(* verification's receipts each take the book and give it back.            *)
Read(r) ==
    /\ At(r, "reading") /\ book = None
    /\ turn' = [turn EXCEPT ![r] = Ask([turn[r] EXCEPT !.rounds = @ + 1], "qa", 1)]
    /\ UNCHANGED <<turns, calls, cards, refusals, book, session, spent>>

Dry(r) ==
    LET ops == turn[r].changes IN
    /\ At(r, "drying") /\ book = None
    /\ turn' = [turn EXCEPT ![r] =
          CASE Applies(ops) /\ Triggered(ops) -> Ask(@, "verify", 1)
            [] ~Applies(ops) /\ ~AsksForADate(ops) /\ ~@.repaired -> Ask(@, "repair", 1)
            [] OTHER -> [@ EXCEPT !.at = "storing"]]
    /\ UNCHANGED <<turns, calls, cards, refusals, book, session, spent>>

(* proposals.create: the book is held while the card is inserted, in the   *)
(* request's own transaction.  A question is not a card.                   *)
TakeBook(r) ==
    /\ At(r, "storing") /\ book = None
    /\ IF AsksForADate(turn[r].changes)
       THEN /\ turn' = [turn EXCEPT ![r].at = "closing", ![r].kind = "clarification",
                                    ![r].why = "undated"]
            /\ UNCHANGED book
       ELSE turn' = [turn EXCEPT ![r].at = "inserting"] /\ book' = r
    /\ UNCHANGED <<turns, calls, cards, refusals, session, spent>>

(* Mutant: the card is stored on a connection of its own, as the journal   *)
(* is.                                                                     *)
InsertApart(r) ==
    /\ At(r, "inserting") /\ FreeConnection
    /\ cards' = [cards EXCEPT ![r] = Tried(turn[r].changes)]
    /\ turn' = [turn EXCEPT ![r].at = "closing", ![r].kind = "proposal",
                            ![r].card = Tried(turn[r].changes)]
    /\ book' = None
    /\ UNCHANGED <<turns, calls, refusals, session, spent>>

InsertCard(r) ==
    /\ At(r, "inserting")
    /\ turn' = [turn EXCEPT ![r].at = "closing", ![r].kind = "proposal",
                            ![r].card = Tried(turn[r].changes)]
    /\ book' = None
    /\ UNCHANGED <<turns, calls, cards, refusals, session, spent>>

-----------------------------------------------------------------------------
OutcomeOf(t) ==
    CASE t.kind = "proposal"      -> "proposed"
      [] t.kind = "refusal"       -> "call_limit"
      [] t.kind = "clarification" -> "clarified"
      [] t.kind = "answer"        -> "answered"

CloseJournal(r) ==
    /\ At(r, "closing") /\ FreeConnection
    /\ turns' = [turns EXCEPT ![r].outcome = OutcomeOf(turn[r]), ![r].cost = turn[r].cost]
    /\ turn' = [turn EXCEPT ![r].at = "responding"]
    /\ UNCHANGED <<calls, cards, refusals, book, session, spent>>

(* The response leaves before the dependency that owns the transaction is  *)
(* closed; then it commits, unless the database has gone.                  *)
Respond(r) ==
    /\ At(r, "responding")
    /\ turn' = [turn EXCEPT ![r].at = "committing"]
    /\ UNCHANGED <<turns, calls, cards, refusals, book, session, spent>>

Commit(r) ==
    /\ At(r, "committing")
    /\ cards' = [cards EXCEPT ![r] = IF turn[r].card # None THEN turn[r].card ELSE @]
    /\ refusals' = refusals + (IF turn[r].refused THEN 1 ELSE 0)
    /\ session' = IF session.by = r THEN [due |-> FALSE, by |-> None] ELSE session
    /\ turn' = [turn EXCEPT ![r] = Over(r)]
    /\ UNCHANGED <<turns, calls, book, spent>>

CommitFails(r) == At(r, "committing") /\ RollBack(r) /\ UNCHANGED book

(* Anything else that goes wrong: the row is closed if it can be, and the  *)
(* request's transaction is rolled back.                                   *)
CloseQuietly(r) ==
    /\ At(r, "erroring") /\ FreeConnection
    /\ turns' = [turns EXCEPT ![r].outcome = "failed", ![r].cost = turn[r].cost]
    /\ turn' = [turn EXCEPT ![r] = Over(r)]
    /\ session' = Unlock(r)
    /\ UNCHANGED <<calls, cards, refusals, book, spent>>

(* The pool gives up: before the pipeline and after it the request fails   *)
(* as it stands, in it the turn is still to be closed.                     *)
NeedsConnection == {"opening", "recording", "closing", "erroring"}

(* Mutant: a request waits for a connection as long as it takes.           *)
WaitForEver(r) == FALSE /\ UNCHANGED vars
PoolTimeout(r) ==
    /\ turn[r].at \in NeedsConnection /\ ~FreeConnection
    /\ IF At(r, "recording")
       THEN /\ turn' = [turn EXCEPT ![r].at = "erroring"]
            /\ UNCHANGED <<turns, calls, cards, refusals, session, spent>>
       ELSE RollBack(r)
    /\ UNCHANGED book

(* Somebody else has the book; it is told apart only while a turn may want *)
(* it.                                                                     *)
WantsBook == {"snapshot", "reading", "drying", "storing"}
OtherTakes ==
    /\ book = None /\ \E r \in Requests : turn[r].at \in WantsBook
    /\ book' = Other /\ UNCHANGED <<turn, turns, calls, cards, refusals, session, spent>>
OtherGives == book = Other /\ book' = None /\ UNCHANGED <<turn, turns, calls, cards, refusals, session, spent>>

(* BookRuntime.acquire gives up on the book.                               *)
Busy(r) ==
    /\ turn[r].at \in WantsBook /\ book # None
    /\ IF At(r, "snapshot") THEN RollBack(r)
       ELSE /\ turn' = [turn EXCEPT ![r].at = "erroring"]
            /\ UNCHANGED <<turns, calls, cards, refusals, session, spent>>
    /\ UNCHANGED book

Step(r) ==
    \/ Renew(r) \/ CheckTurn(r) \/ Snapshot(r) \/ OpenJournal(r) \/ RecordCall(r)
    \/ Read(r) \/ Dry(r) \/ TakeBook(r) \/ InsertCard(r)
    \/ CloseJournal(r) \/ Respond(r) \/ Commit(r) \/ CloseQuietly(r) \/ PoolTimeout(r)
    \/ \E answer \in Answers \cup {Unreadable, Unreachable} : Complete(r, answer)

Next == OtherTakes \/ OtherGives \/ \E r \in Requests : Arrive(r) \/ Step(r) \/ Busy(r) \/ CommitFails(r)

(* A provider call times out, a pool gives up, Postgres hands a row lock   *)
(* on: a request that can go on goes on.  A waiter is not starved: the     *)
(* pool and the row lock serve in order.                                   *)
Spec == Init /\ [][Next]_vars /\ WF_vars(OtherGives) /\ \A r \in Requests : SF_vars(Step(r))
-----------------------------------------------------------------------------
(* D-MLP-29: the journal outlives the failure it records.  A closed row    *)
(* carries every call the provider charged for, also one whose own row     *)
(* could not be written, and no more calls have rows than were made.       *)
ClosedTurnsCount ==
    \A r \in Requests :
        /\ turns[r] # None /\ turns[r].outcome # "running" => turns[r].cost = spent[r].calls
        /\ calls[r] <= turn[r].seq

(* SPEC 8: the budget is read before the first call only, so a day may     *)
(* overrun it: by the turns that can be open at once, which is one fewer   *)
(* than the pool has connections, each with its ceiling of calls, and by   *)
(* no more.  Turns whose row could not be closed are outside any budget    *)
(* (EveryTurnIsClosed).                                                    *)
Lost(r) == turn[r].at = "over" /\ turns[r] # None /\ turns[r].outcome = "running"
SpendIsBounded ==
    MapThenSumSet(LAMBDA r : spent[r].calls, {r \in Requests : ~Lost(r)})
        <= Budget - 1 + (PoolSize - 1) * MaxCalls

(* ADR-0029: a card comes from a turn that says so.  What other requests   *)
(* see as a card belongs to a turn recorded as proposed, and carries what  *)
(* that turn asked of the book.                                            *)
CardsHaveTheirTurn ==
    \A r \in Requests : cards[r] # None =>
        /\ turns[r].outcome = "proposed"
        /\ cards[r] = Tried(turn[r].changes)

(* pipeline.py: "A change emitted alongside a question is held for the     *)
(* change phase ...; dropping it on the way out would lose the user's      *)
(* change without a word."  Whatever the model named while it was asked    *)
(* what is wanted is on the card, up to what the book refused, unless the  *)
(* model itself put something in its place, or the user is told otherwise. *)
NoChangeIsLost ==
    \A r \in Requests : turn[r].at \in {"responding", "committing"} =>
        LET wanted == spent[r].wanted IN
        CASE turn[r].kind = "proposal" -> turn[r].repaired \/ turn[r].card = Tried(wanted)
          [] turn[r].why # None -> TRUE
          [] OTHER -> wanted = <<>>

(* D-MLP-104: refusing beats waiting.  A turn holds one connection and     *)
(* wants another, and the session's row besides; whatever the interleaving *)
(* and however small the pool, every request ends.                         *)
TurnsEnd == \A r \in Requests : InFlight(r) ~> At(r, "over")

(* Refuted, each by a pool that runs dry or a commit that fails: see the   *)
(* README.  The journal's row stays "running", without its cost; a call    *)
(* has no row; a turn is recorded as proposed and has no card; the user    *)
(* is shown a card before, or without, its being stored.                   *)
EveryTurnIsClosed == \A r \in Requests : ~Lost(r)
OneCallOneRow == \A r \in Requests : At(r, "over") /\ turns[r] # None => calls[r] = turn[r].seq
ProposedHasCard ==
    \A r \in Requests : At(r, "over") /\ turns[r] # None /\ turns[r].outcome = "proposed" => cards[r] # None
ShownCardIsStored ==
    \A r \in Requests : At(r, "committing") /\ turn[r].kind = "proposal" => cards[r] # None
=============================================================================
