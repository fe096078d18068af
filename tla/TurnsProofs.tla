---------------------------- MODULE TurnsProofs ----------------------------
(***************************************************************************)
(* Theorems about Turns, for any requests, pool, ceilings and answers of   *)
(* the model: the journal's row, once closed, carries what the provider    *)
(* charged for the turn; a card comes from the turn that made it, and no   *)
(* change the user asked for is lost; a day's spending is bounded.         *)
(***************************************************************************)
EXTENDS Turns, Sums, SequenceTheorems, TLAPS

Fields == {"at", "due", "purpose", "tries", "heard", "answered", "seq", "cost", "rounds", "kind",
           "declared", "changes", "repaired", "card", "refused", "why"}
Purposes == {"interpret", "qa", "repair", "verify"}

(* Before the turn has a row, while its row is open, and after.            *)
Before == {"off", "renewing", "checking", "snapshot", "opening"}
Between == {"asking", "reading", "drying", "storing", "inserting", "closing", "erroring"}
Within == Between \cup {"recording"}
Done == {"responding", "committing", "over"}

TurnOK(t) ==
    /\ DOMAIN t = Fields
    /\ t.at \in Before \cup Within \cup Done
    /\ t.purpose \in Purposes
    /\ t.seq \in Nat

Running == [outcome |-> "running", cost |-> 0]

(* The account of one request: the sum run_turn keeps is what was charged; *)
(* the row is open as long as the pipeline runs, and closed with that sum  *)
(* or not at all; a call that is being recorded has no row yet.            *)
AccountOK(r) ==
    /\ TurnOK(turn[r])
    /\ turn[r].cost = spent[r].calls
    /\ DOMAIN spent[r] = {"calls", "wanted"}
    /\ calls[r] \in Nat
    /\ calls[r] <= turn[r].seq
    /\ turn[r].at = "recording" => calls[r] < turn[r].seq
    /\ turn[r].at \in Before => turns[r] = None
    /\ turn[r].at \in Within => turns[r] = Running
    /\ turn[r].at \in Done /\ turns[r] # None /\ turns[r].outcome # "running" =>
          turns[r].cost = turn[r].cost

JournalInv ==
    /\ DOMAIN turn = Requests /\ DOMAIN turns = Requests
    /\ DOMAIN calls = Requests /\ DOMAIN spent = Requests
    /\ \A r \in Requests : AccountOK(r)

LEMMA InitJournal == Init => JournalInv
<1> SUFFICES ASSUME Init PROVE JournalInv
  OBVIOUS
<1>1. ASSUME NEW r \in Requests PROVE AccountOK(r)
  <2>1. TurnOK(turn[r]) /\ turn[r].cost = 0 /\ turn[r].seq = 0 /\ turn[r].at = "off"
    BY DEF Init, TurnOK, Fields, Purposes, Before
  <2>2. turns[r] = None /\ calls[r] = 0 /\ spent[r] = [calls |-> 0, wanted |-> <<>>]
    BY DEF Init
  <2> QED
    BY <2>1, <2>2 DEF AccountOK, Before, Within, Between, Done
<1> QED
  BY <1>1 DEF Init, JournalInv

(* A step of one request disturbs the account of no other.                 *)
LEMMA OneAccountMoves ==
  ASSUME JournalInv, NEW r \in Requests,
         DOMAIN turn' = Requests, DOMAIN turns' = Requests,
         DOMAIN calls' = Requests, DOMAIN spent' = Requests,
         \A q \in Requests \ {r} : /\ turn'[q] = turn[q] /\ turns'[q] = turns[q]
                                  /\ calls'[q] = calls[q] /\ spent'[q] = spent[q],
         AccountOK(r)'
  PROVE  JournalInv'
<1>1. \A q \in Requests \ {r} : AccountOK(q)'
  BY DEF JournalInv, AccountOK
<1> QED
  BY <1>1 DEF JournalInv

-----------------------------------------------------------------------------
(* What the pipeline makes of a turn between two calls: it goes on, with   *)
(* the account as it is.                                                   *)
GoesOn(t, u) ==
    /\ TurnOK(u)
    /\ u.at \in Between
    /\ u.seq = t.seq /\ u.cost = t.cost

LEMMA AskGoesOn ==
  ASSUME NEW t, TurnOK(t), NEW purpose \in Purposes, NEW tries
  PROVE  GoesOn(t, Ask(t, purpose, tries))
BY DEF GoesOn, TurnOK, Ask, Limited, Fields, Within, Between

LEMMA ToChangesGoesOn ==
  ASSUME NEW t, TurnOK(t)
  PROVE  GoesOn(t, ToChanges(t))
BY DEF GoesOn, TurnOK, ToChanges, Fields, Within, Between

LEMMA UnderstoodGoesOn ==
  ASSUME NEW t, TurnOK(t)
  PROVE  GoesOn(t, Understood(t))
<1>1. GoesOn(t, Interpreted(t, t.heard))
  <2> DEFINE sorted == [t EXCEPT !.changes = Changes(t.heard), !.declared = t.heard.kind]
  <2>1. TurnOK(sorted) /\ sorted.seq = t.seq /\ sorted.cost = t.cost
    BY DEF TurnOK, Fields
  <2>2. GoesOn(t, [sorted EXCEPT !.at = "reading"])
    BY <2>1 DEF GoesOn, TurnOK, Fields, Within, Between
  <2>3. GoesOn(t, ToChanges(sorted))
    BY <2>1, ToChangesGoesOn DEF GoesOn
  <2> QED
    BY <2>2, <2>3 DEF Interpreted
<1>2. GoesOn(t, FollowedUp(t, t.heard))
  <2> DEFINE sorted == [t EXCEPT !.changes = @ \o Changes(t.heard)]
             asked == [sorted EXCEPT !.kind = "clarification"]
  <2>1. TurnOK(sorted) /\ sorted.seq = t.seq /\ sorted.cost = t.cost
    BY DEF TurnOK, Fields
  <2>2. TurnOK(asked) /\ asked.seq = t.seq /\ asked.cost = t.cost
    BY <2>1 DEF TurnOK, Fields
  <2>3. GoesOn(t, [sorted EXCEPT !.at = "reading"])
    BY <2>1 DEF GoesOn, TurnOK, Fields, Within, Between
  <2>4. GoesOn(t, ToChanges(sorted)) /\ GoesOn(t, ToChanges(asked))
    BY <2>1, <2>2, ToChangesGoesOn DEF GoesOn
  <2> QED
    BY <2>3, <2>4 DEF FollowedUp
<1>3. GoesOn(t, Repaired(t, t.heard))
  BY DEF GoesOn, TurnOK, Repaired, Fields, Within, Between
<1>4. GoesOn(t, Verified(t, t.heard))
  BY DEF GoesOn, TurnOK, Verified, Fields, Within, Between
<1> QED
  BY <1>1, <1>2, <1>3, <1>4 DEF Understood, TurnOK, Purposes

LEMMA MisheardGoesOn ==
  ASSUME NEW t, TurnOK(t)
  PROVE  GoesOn(t, Misheard(t))
<1> DEFINE answered == t.answered \/ t.heard = Unreadable
           marked == [t EXCEPT !.answered = answered]
<1>1. TurnOK(marked) /\ marked.seq = t.seq /\ marked.cost = t.cost
  BY DEF TurnOK, Fields
<1>p. t.purpose \in Purposes
  BY DEF TurnOK
<1> HIDE DEF marked
<1>a. GoesOn(marked, Ask(marked, t.purpose, t.tries + 1))
  BY <1>1, <1>p, AskGoesOn
<1>2. GoesOn(t, Ask(marked, t.purpose, t.tries + 1))
  BY <1>1, <1>a DEF GoesOn
<1>3. /\ GoesOn(t, [t EXCEPT !.at = "closing", !.kind = "clarification", !.why = "unreadable"])
      /\ GoesOn(t, [t EXCEPT !.at = "erroring"])
  BY DEF GoesOn, TurnOK, Fields, Within, Between
<1> QED
  BY <1>2, <1>3 DEF Misheard, marked

LEMMA OverIsDone ==
  ASSUME NEW r, TurnOK(turn[r])
  PROVE  /\ TurnOK(Over(r)) /\ Over(r).at = "over"
         /\ Over(r).seq = turn[r].seq /\ Over(r).cost = turn[r].cost
BY DEF TurnOK, Over, Fields, Purposes, Done
-----------------------------------------------------------------------------
(* A step inside the pipeline: nothing of the account changes.             *)
LEMMA AccountWaits ==
  ASSUME JournalInv, NEW r \in Requests, NEW u, GoesOn(turn[r], u), turn[r].at \in Within,
         turn[r].at # "recording", turn' = [turn EXCEPT ![r] = u],
         UNCHANGED <<turns, calls, spent>>
  PROVE  JournalInv'
<1>1. AccountOK(r) /\ turn'[r] = u
  BY DEF JournalInv
<1>2. AccountOK(r)'
  BY <1>1 DEF AccountOK, GoesOn, Before, Within, Between, Done
<1> QED
  BY <1>2, OneAccountMoves DEF JournalInv

(* A step before the row is there, or after it was closed.                 *)
LEMMA AccountMoves ==
  ASSUME JournalInv, NEW r \in Requests, NEW u, turn' = [turn EXCEPT ![r] = u],
         TurnOK(u), u.seq = turn[r].seq, u.cost = turn[r].cost,
         UNCHANGED <<turns, calls, spent>>,
         \/ turn[r].at \in Before /\ u.at \in Before \cup Done
         \/ turn[r].at \in Within \cup Done /\ u.at \in Done
  PROVE  JournalInv'
<1>1. AccountOK(r) /\ turn'[r] = u
  BY DEF JournalInv
<1>2. turns[r] # None /\ turns[r].outcome # "running" => turns[r].cost = u.cost
  BY <1>1 DEF AccountOK, Running
<1>3. AccountOK(r)'
  BY <1>1, <1>2 DEF AccountOK, Before, Within, Between, Done
<1> QED
  BY <1>3, OneAccountMoves DEF JournalInv

LEMMA Admission ==
  ASSUME JournalInv, NEW r \in Requests,
         Arrive(r) \/ Renew(r) \/ CheckTurn(r) \/ Snapshot(r) \/ Respond(r) \/ Commit(r)
  PROVE  JournalInv'
<1> DEFINE t == turn[r]
           Sent(place) == [t EXCEPT !.at = place]
<1>t. TurnOK(t)
  BY DEF JournalInv, AccountOK
<1>s. \A place \in Before \cup Done :
        /\ TurnOK(Sent(place)) /\ Sent(place).at = place
        /\ Sent(place).seq = t.seq /\ Sent(place).cost = t.cost
  BY <1>t DEF TurnOK, Fields
<1>1. CASE Arrive(r) \/ Renew(r)
  <2>1. PICK place \in {"renewing", "checking"} :
            turn' = [turn EXCEPT ![r] = Sent(place)] /\ UNCHANGED <<turns, calls, spent>>
    BY <1>1 DEF Arrive, Renew
  <2>2. t.at \in Before /\ place \in Before
    BY <1>1 DEF Arrive, Renew, At, Before
  <2> QED
    BY <1>s, <2>1, <2>2, AccountMoves
<1>2. CASE CheckTurn(r)
  <2> DEFINE refusal == [t EXCEPT !.at = "snapshot", !.kind = "refusal", !.refused = TRUE]
  <2>1. /\ TurnOK(refusal) /\ refusal.at = "snapshot"
        /\ refusal.seq = t.seq /\ refusal.cost = t.cost
    BY <1>t DEF TurnOK, Fields, Before
  <2>2. /\ t.at \in Before /\ UNCHANGED <<turns, calls, spent>>
        /\ \/ turn' = [turn EXCEPT ![r] = refusal]
           \/ turn' = [turn EXCEPT ![r] = Sent("snapshot")]
    BY <1>2 DEF CheckTurn, At, Before
  <2>3. "snapshot" \in Before
    BY DEF Before
  <2> HIDE DEF refusal, Sent
  <2>4. CASE turn' = [turn EXCEPT ![r] = refusal]
    BY <2>1, <2>2, <2>3, <2>4, AccountMoves
  <2>5. CASE turn' = [turn EXCEPT ![r] = Sent("snapshot")]
    BY <1>s, <2>2, <2>3, <2>5, AccountMoves
  <2> QED
    BY <2>2, <2>4, <2>5
<1>3. CASE Snapshot(r)
  <2>1. PICK place \in {"responding", "opening"} :
            turn' = [turn EXCEPT ![r] = Sent(place)] /\ UNCHANGED <<turns, calls, spent>>
    BY <1>3 DEF Snapshot
  <2>2. t.at \in Before /\ place \in Before \cup Done
    BY <1>3 DEF Snapshot, At, Before, Done
  <2> QED
    BY <1>s, <2>1, <2>2, AccountMoves
<1>4. CASE Respond(r)
  <2>1. turn' = [turn EXCEPT ![r] = Sent("committing")] /\ UNCHANGED <<turns, calls, spent>>
    BY <1>4 DEF Respond
  <2>2. t.at \in Done /\ "committing" \in Done
    BY <1>4 DEF Respond, At, Done
  <2> QED
    BY <1>s, <2>1, <2>2, AccountMoves
<1>5. CASE Commit(r)
  <2>1. t.at \in Done /\ turn' = [turn EXCEPT ![r] = Over(r)] /\ UNCHANGED <<turns, calls, spent>>
    BY <1>5 DEF Commit, At, Done
  <2>2. "over" \in Done
    BY DEF Done
  <2> QED
    BY <1>t, <2>1, <2>2, OverIsDone, AccountMoves
<1> QED
  BY <1>1, <1>2, <1>3, <1>4, <1>5

LEMMA Failures ==
  ASSUME JournalInv, NEW r \in Requests, CommitFails(r) \/ PoolTimeout(r) \/ Busy(r)
  PROVE  JournalInv'
<1> DEFINE t == turn[r]
           failed == [t EXCEPT !.at = "erroring"]
<1>t. TurnOK(t) /\ AccountOK(r) /\ DOMAIN turn = Requests
  BY DEF JournalInv, AccountOK
<1>1. ASSUME RollBack(r) PROVE JournalInv'
  <2>1. turn' = [turn EXCEPT ![r] = Over(r)] /\ UNCHANGED <<turns, calls, spent>>
    BY <1>1 DEF RollBack
  <2>2. "over" \in Done /\ t.at \in Before \cup Within \cup Done
    BY <1>t DEF Done, TurnOK
  <2> QED
    BY <1>t, <2>1, <2>2, OverIsDone, AccountMoves
<1>f. GoesOn(t, failed)
  BY <1>t DEF GoesOn, TurnOK, Fields, Within, Between
<1>2. ASSUME turn' = [turn EXCEPT ![r] = failed], UNCHANGED <<turns, calls, spent>>, t.at \in Within
      PROVE JournalInv'
  <2> HIDE DEF failed
  <2>1. turn'[r] = failed
    BY <1>t, <1>2
  <2>2. AccountOK(r)'
    BY <1>t, <1>f, <1>2, <2>1 DEF AccountOK, GoesOn, Before, Within, Between, Done
  <2> QED
    BY <1>2, <2>2, OneAccountMoves DEF JournalInv
<1>3. CASE CommitFails(r)
  BY <1>1, <1>3 DEF CommitFails
<1>4. CASE PoolTimeout(r)
  <2>1. RollBack(r) \/ (At(r, "recording") /\ turn' = [turn EXCEPT ![r] = failed]
                        /\ UNCHANGED <<turns, calls, spent>>)
    BY <1>4 DEF PoolTimeout
  <2>2. At(r, "recording") => t.at \in Within
    BY DEF At, Within
  <2> QED
    BY <1>1, <1>2, <2>1, <2>2
<1>5. CASE Busy(r)
  <2>1. \/ RollBack(r)
        \/ /\ t.at \in WantsBook \ {"snapshot"}
           /\ turn' = [turn EXCEPT ![r] = failed] /\ UNCHANGED <<turns, calls, spent>>
    BY <1>5 DEF Busy, At
  <2>2. WantsBook \ {"snapshot"} \subseteq Within
    BY DEF WantsBook, Within, Between
  <2> QED
    BY <1>1, <1>2, <2>1, <2>2
<1> QED
  BY <1>3, <1>4, <1>5

LEMMA Rehearsal ==
  ASSUME JournalInv, NEW r \in Requests, Read(r) \/ Dry(r) \/ TakeBook(r) \/ InsertCard(r)
  PROVE  JournalInv'
<1> DEFINE t == turn[r]
<1>t. TurnOK(t)
  BY DEF JournalInv, AccountOK
<1>p. {"qa", "verify", "repair"} \subseteq Purposes
  BY DEF Purposes
<1>w. ASSUME NEW u, GoesOn(t, u), turn' = [turn EXCEPT ![r] = u],
             UNCHANGED <<turns, calls, spent>>, t.at \in Between
      PROVE  JournalInv'
  BY <1>w, AccountWaits DEF Within, Between
<1>1. CASE Read(r)
  <2> DEFINE next == [t EXCEPT !.rounds = @ + 1]
  <2>1. TurnOK(next) /\ next.seq = t.seq /\ next.cost = t.cost
    BY <1>t DEF TurnOK, Fields
  <2>2. t.at \in Between /\ UNCHANGED <<turns, calls, spent>>
    BY <1>1 DEF Read, At, Between
  <2>5. turn' = [turn EXCEPT ![r] = Ask(next, "qa", 1)]
    BY <1>1 DEF Read
  <2> HIDE DEF next
  <2>3. GoesOn(next, Ask(next, "qa", 1))
    BY <1>p, <2>1, AskGoesOn
  <2>4. GoesOn(t, Ask(next, "qa", 1))
    BY <2>1, <2>3 DEF GoesOn
  <2> QED
    BY <1>w, <2>2, <2>4, <2>5
<1>2. CASE Dry(r)
  <2> DEFINE storing == [t EXCEPT !.at = "storing"]
  <2>1. GoesOn(t, storing)
    BY <1>t DEF GoesOn, TurnOK, Fields, Within, Between
  <2>2. GoesOn(t, Ask(t, "verify", 1)) /\ GoesOn(t, Ask(t, "repair", 1))
    BY <1>t, <1>p, AskGoesOn
  <2>3. t.at \in Between /\ UNCHANGED <<turns, calls, spent>>
    BY <1>2 DEF Dry, At, Between
  <2>4. \E u \in {storing, Ask(t, "verify", 1), Ask(t, "repair", 1)} : turn' = [turn EXCEPT ![r] = u]
    BY <1>2 DEF Dry
  <2> HIDE DEF storing
  <2> QED
    BY <1>w, <2>1, <2>2, <2>3, <2>4
<1>3. CASE TakeBook(r)
  <2> DEFINE asking == [t EXCEPT !.at = "closing", !.kind = "clarification", !.why = "undated"]
             inserting == [t EXCEPT !.at = "inserting"]
  <2>1. GoesOn(t, asking) /\ GoesOn(t, inserting)
    BY <1>t DEF GoesOn, TurnOK, Fields, Within, Between
  <2>2. t.at \in Between /\ UNCHANGED <<turns, calls, spent>>
    BY <1>3 DEF TakeBook, At, Between
  <2>3. \E u \in {asking, inserting} : turn' = [turn EXCEPT ![r] = u]
    BY <1>3 DEF TakeBook
  <2> HIDE DEF asking, inserting
  <2> QED
    BY <1>w, <2>1, <2>2, <2>3
<1>4. CASE InsertCard(r)
  <2> DEFINE stored == [t EXCEPT !.at = "closing", !.kind = "proposal", !.card = Tried(t.changes)]
  <2>1. GoesOn(t, stored)
    BY <1>t DEF GoesOn, TurnOK, Fields, Within, Between
  <2>2. t.at \in Between /\ UNCHANGED <<turns, calls, spent>> /\ turn' = [turn EXCEPT ![r] = stored]
    BY <1>4 DEF InsertCard, At, Between
  <2> HIDE DEF stored
  <2> QED
    BY <1>w, <2>1, <2>2
<1> QED
  BY <1>1, <1>2, <1>3, <1>4

(* A call is added up when it is answered, and has its row a step later.   *)
LEMMA Calling ==
  ASSUME JournalInv, NEW r \in Requests,
         RecordCall(r) \/ \E answer \in Answers \cup {Unreadable, Unreachable} : Complete(r, answer)
  PROVE  JournalInv'
<1> DEFINE t == turn[r]
<1>t. TurnOK(t) /\ AccountOK(r)
  BY DEF JournalInv, AccountOK
<1>1. CASE RecordCall(r)
  <2>1. GoesOn(t, Understood(t)) /\ GoesOn(t, Misheard(t))
    BY <1>t, UnderstoodGoesOn, MisheardGoesOn
  <2>2. PICK u \in {Understood(t), Misheard(t)} : turn' = [turn EXCEPT ![r] = u]
    BY <1>1 DEF RecordCall
  <2>3. /\ t.at = "recording" /\ UNCHANGED <<turns, spent>>
        /\ calls' = [calls EXCEPT ![r] = calls[r] + 1]
    BY <1>1 DEF RecordCall, At
  <2>4. GoesOn(t, u) /\ turn'[r] = u /\ calls'[r] = calls[r] + 1
    BY <2>1, <2>2, <2>3 DEF JournalInv
  <2>5. calls[r] + 1 \in Nat /\ calls[r] + 1 <= t.seq
    BY <1>t, <2>3 DEF AccountOK, TurnOK
  <2>6. AccountOK(r)'
    BY <1>t, <2>3, <2>4, <2>5 DEF AccountOK, GoesOn, Before, Within, Between, Done
  <2> QED
    BY <2>2, <2>3, <2>6, OneAccountMoves DEF JournalInv
<1>2. ASSUME NEW answer \in Answers \cup {Unreadable, Unreachable}, Complete(r, answer)
      PROVE  JournalInv'
  <2> DEFINE charge == IF answer = Unreachable THEN 0 ELSE 1
             u == [t EXCEPT !.at = "recording", !.heard = answer, !.seq = @ + 1, !.cost = @ + charge]
             wanted == IF answer \in Answers /\ t.purpose \in {"interpret", "qa"}
                       THEN spent[r].wanted \o Changes(answer) ELSE spent[r].wanted
  <2>1. /\ t.at = "asking" /\ UNCHANGED <<turns, calls>> /\ turn' = [turn EXCEPT ![r] = u]
        /\ spent' = [spent EXCEPT ![r] = [calls |-> spent[r].calls + charge, wanted |-> wanted]]
    BY <1>2 DEF Complete, AddedUp, At
  <2>2. TurnOK(u) /\ u.at = "recording" /\ u.seq = t.seq + 1 /\ u.cost = t.cost + charge
    BY <1>t DEF TurnOK, Fields, Within
  <2> HIDE DEF charge, u, wanted
  <2>3. turn'[r] = u /\ spent'[r] = [calls |-> spent[r].calls + charge, wanted |-> wanted]
    BY <2>1 DEF JournalInv
  <2>4. calls[r] \in Nat /\ t.seq \in Nat /\ calls[r] <= t.seq /\ turns[r] = Running
        /\ t.cost = spent[r].calls
    BY <1>t, <2>1 DEF AccountOK, TurnOK, Within, Between
  <2>5. calls[r] <= u.seq /\ calls[r] < u.seq
    BY <2>2, <2>4
  <2>6. AccountOK(r)'
    BY <2>1, <2>2, <2>3, <2>4, <2>5 DEF AccountOK, Before, Within, Between, Done
  <2> QED
    BY <2>1, <2>6, OneAccountMoves DEF JournalInv
<1> QED
  BY <1>1, <1>2

(* The row is opened once, without a cost, and closed with the sum.        *)
LEMMA Journalling ==
  ASSUME JournalInv, NEW r \in Requests, OpenJournal(r) \/ CloseJournal(r) \/ CloseQuietly(r)
  PROVE  JournalInv'
<1> DEFINE t == turn[r]
<1>t. TurnOK(t) /\ AccountOK(r)
  BY DEF JournalInv, AccountOK
<1>1. CASE OpenJournal(r)
  <2> DEFINE u == [t EXCEPT !.at = "asking", !.tries = 1]
  <2>1. /\ UNCHANGED <<calls, spent>> /\ turns' = [turns EXCEPT ![r] = Running]
        /\ turn' = [turn EXCEPT ![r] = u]
    BY <1>1 DEF OpenJournal, Running
  <2>2. GoesOn(t, u)
    BY <1>t DEF GoesOn, TurnOK, Fields, Within, Between
  <2> HIDE DEF u
  <2>3. turn'[r] = u /\ turns'[r] = Running
    BY <2>1 DEF JournalInv
  <2>4. AccountOK(r)'
    BY <1>t, <2>1, <2>2, <2>3 DEF AccountOK, GoesOn, Before, Within, Between, Done
  <2> QED
    BY <2>1, <2>4, OneAccountMoves DEF JournalInv
<1>2. ASSUME NEW u, NEW outcome, turn' = [turn EXCEPT ![r] = u], UNCHANGED <<calls, spent>>,
             TurnOK(u), u.at \in Done, u.seq = t.seq, u.cost = t.cost, t.at \in Within,
             turns' = [turns EXCEPT ![r].outcome = outcome, ![r].cost = t.cost]
      PROVE  JournalInv'
  <2>1. turns[r] = Running
    BY <1>t, <1>2 DEF AccountOK
  <2>2. turns'[r] = [outcome |-> outcome, cost |-> t.cost] /\ turn'[r] = u
    BY <1>2, <2>1 DEF JournalInv, Running
  <2>3. AccountOK(r)'
    BY <1>t, <1>2, <2>2 DEF AccountOK, Before, Within, Between, Done
  <2> QED
    BY <1>2, <2>3, OneAccountMoves DEF JournalInv
<1>3. CASE CloseJournal(r)
  <2> DEFINE u == [t EXCEPT !.at = "responding"]
             outcome == OutcomeOf(t)
  <2>1. TurnOK(u) /\ u.at \in Done /\ u.seq = t.seq /\ u.cost = t.cost
    BY <1>t DEF TurnOK, Fields, Done
  <2>2. /\ t.at \in Within /\ UNCHANGED <<calls, spent>> /\ turn' = [turn EXCEPT ![r] = u]
        /\ turns' = [turns EXCEPT ![r].outcome = outcome, ![r].cost = t.cost]
    BY <1>3 DEF CloseJournal, At, Within, Between
  <2> HIDE DEF u, outcome
  <2> QED
    BY <1>2, <2>1, <2>2
<1>4. CASE CloseQuietly(r)
  <2>1. /\ t.at \in Within /\ UNCHANGED <<calls, spent>> /\ turn' = [turn EXCEPT ![r] = Over(r)]
        /\ turns' = [turns EXCEPT ![r].outcome = "failed", ![r].cost = t.cost]
    BY <1>4 DEF CloseQuietly, At, Within, Between
  <2>2. "over" \in Done
    BY DEF Done
  <2> QED
    BY <1>t, <1>2, <2>1, <2>2, OverIsDone
<1> QED
  BY <1>1, <1>3, <1>4

LEMMA JournalStep == JournalInv /\ [Next]_vars => JournalInv'
<1> SUFFICES ASSUME JournalInv, [Next]_vars PROVE JournalInv'
  OBVIOUS
<1>1. CASE UNCHANGED vars \/ OtherTakes \/ OtherGives
  BY <1>1 DEF vars, OtherTakes, OtherGives, JournalInv, AccountOK
<1>2. ASSUME NEW r \in Requests, Arrive(r) \/ Step(r) \/ Busy(r) \/ CommitFails(r)
      PROVE  JournalInv'
  BY <1>2, Admission, Failures, Rehearsal, Calling, Journalling DEF Step
<1> QED
  BY <1>1, <1>2 DEF Next

(* D-MLP-29, "the journal outlives the failure it records": whatever the   *)
(* model answers, whichever calls fail and however many requests share the *)
(* pool, a closed row carries every call the provider charged for.         *)
THEOREM ClosedTurnsAreAccounted == Spec => []ClosedTurnsCount
<1>1. JournalInv => ClosedTurnsCount
  BY DEF JournalInv, AccountOK, TurnOK, ClosedTurnsCount, Running
<1> QED
  BY <1>1, InitJournal, JournalStep, PTL DEF Spec

-----------------------------------------------------------------------------
(* What the turn carries: its changes are those the model named while it   *)
(* was asked what is wanted, once they are sorted, or what it put in their *)
(* place; the phases before the card leave no card behind, and those after *)
(* it change nothing of what it shows.                                     *)
Kinds == {"answer", "clarification", "refusal"}
Wanting == {"interpret", "qa"}
Pending == {"asking", "recording", "reading", "drying", "storing", "inserting"}
Reasons == {"limit", "unreadable", "undated"}
Told == {"closing", "responding", "committing"}
Unsorted(t) == t.at = "recording" /\ t.heard \in Answers /\ t.purpose \in Wanting

Listed(t, wanted) ==
    /\ t.changes \in Seq(MutationOps) /\ wanted \in Seq(MutationOps)
    /\ t.repaired \in BOOLEAN
    /\ \/ t.kind \in Kinds /\ t.card = None
       \/ /\ t.kind = "proposal" /\ t.card = Tried(t.changes)
          /\ t.at \in {"closing"} \cup Done

Sorted(t, wanted) ==
    /\ t.at \in Before => wanted = <<>> /\ t.changes = <<>> /\ t.repaired = FALSE
    /\ t.at = "reading" => t.purpose \in Wanting
    /\ t.at \in {"asking", "recording", "reading"} /\ t.purpose \in Wanting => t.repaired = FALSE
    /\ t.at \in {"asking", "recording"} /\ t.purpose = "interpret" => t.changes = <<>>
    /\ t.at \in Pending /\ t.repaired = FALSE =>
          wanted = IF Unsorted(t) THEN t.changes \o Changes(t.heard) ELSE t.changes

TellsAll(t, wanted) ==
    t.at \in Told =>
        IF t.kind = "proposal" THEN t.repaired = TRUE \/ t.changes = wanted
        ELSE t.why \in Reasons \/ wanted = <<>>

Carries(t, wanted) == TurnOK(t) /\ Listed(t, wanted) /\ Sorted(t, wanted) /\ TellsAll(t, wanted)

CarryOK(r) ==
    /\ Carries(turn[r], spent[r].wanted)
    /\ turn[r].at \in {"responding", "committing"} /\ turn[r].kind = "proposal" =>
          turns[r].outcome = "proposed"
    /\ cards[r] # None => /\ turn[r].at = "over"
                          /\ turns[r].outcome = "proposed"
                          /\ cards[r] = Tried(turn[r].changes)

CarryInv == DOMAIN cards = Requests /\ \A r \in Requests : CarryOK(r)

(* A turn that was sorted and goes on, without a card.                     *)
Heading(t, wanted) ==
    /\ TurnOK(t)
    /\ t.kind \in Kinds /\ t.card = None
    /\ t.changes \in Seq(MutationOps) /\ wanted \in Seq(MutationOps)
    /\ t.repaired \in BOOLEAN
    /\ t.repaired = FALSE => wanted = t.changes

LEMMA AskCarries ==
  ASSUME NEW t, NEW wanted, Heading(t, wanted), NEW purpose \in Purposes, NEW tries,
         purpose \in Wanting => t.repaired = FALSE, purpose = "interpret" => t.changes = <<>>
  PROVE  Carries(Ask(t, purpose, tries), wanted)
<1> USE DEF Heading, TurnOK, Fields, Within, Between, Before, Done, Listed, Sorted, TellsAll,
            Pending, Told, Kinds, Unsorted, Wanting, Reasons
<1>1. Carries(Limited(t), wanted)
  BY DEF Limited, Carries
<1> DEFINE u == [t EXCEPT !.at = "asking", !.purpose = purpose, !.tries = tries, !.heard = None,
                          !.answered = tries > 1 /\ @]
<1>2. Carries(u, wanted)
  BY DEF Carries
<1> QED
  BY <1>1, <1>2 DEF Ask

LEMMA ToChangesCarries ==
  ASSUME NEW t, NEW wanted, Heading(t, wanted), t.repaired = FALSE
  PROVE  Carries(ToChanges(t), wanted)
<1> USE DEF Heading, TurnOK, Fields, Within, Between, Before, Done, Listed, Sorted, TellsAll,
            Pending, Told, Kinds, Unsorted, Wanting, Reasons
<1>1. CASE t.changes # <<>>
  <2>1. ToChanges(t) = [t EXCEPT !.at = "drying"]
    BY <1>1 DEF ToChanges
  <2>2. Carries([t EXCEPT !.at = "drying"], wanted)
    BY DEF Carries
  <2> QED
    BY <2>1, <2>2
<1>2. CASE t.changes = <<>>
  <2>1. PICK kind \in Kinds : ToChanges(t) = [t EXCEPT !.at = "closing", !.kind = kind]
    BY <1>2 DEF ToChanges
  <2>2. Carries([t EXCEPT !.at = "closing", !.kind = kind], wanted)
    BY <1>2 DEF Carries
  <2> QED
    BY <2>1, <2>2
<1> QED
  BY <1>1, <1>2

(* It moves to a place where it waits for the book, or for the end.        *)
LEMMA MovesOnCarries ==
  ASSUME NEW t, NEW wanted, Heading(t, wanted), NEW place \in {"drying", "storing", "inserting", "erroring"}
  PROVE  Carries([t EXCEPT !.at = place], wanted)
BY DEF Heading, TurnOK, Fields, Within, Between, Before, Done, Listed, Sorted, TellsAll,
       Pending, Told, Kinds, Unsorted, Wanting, Reasons, Carries

LEMMA ReadsOnCarries ==
  ASSUME NEW t, NEW wanted, Heading(t, wanted), t.purpose \in Wanting, t.repaired = FALSE
  PROVE  Carries([t EXCEPT !.at = "reading"], wanted)
BY DEF Heading, TurnOK, Fields, Within, Between, Before, Done, Listed, Sorted, TellsAll,
       Pending, Told, Kinds, Unsorted, Wanting, Reasons, Carries

LEMMA EndsWithAWord ==
  ASSUME NEW t, NEW wanted, Heading(t, wanted), NEW why \in Reasons
  PROVE  Carries([t EXCEPT !.at = "closing", !.kind = "clarification", !.why = why], wanted)
BY DEF Heading, TurnOK, Fields, Within, Between, Before, Done, Listed, Sorted, TellsAll,
       Pending, Told, Kinds, Unsorted, Wanting, Reasons, Carries

(* What a recorded answer of the model adds, or puts in the place of what  *)
(* was there.                                                              *)
LEMMA UnderstoodCarries ==
  ASSUME NEW t, NEW wanted, Carries(t, wanted), t.at = "recording", t.heard \in Answers
  PROVE  Carries(Understood(t), wanted)
<1> DEFINE named == Changes(t.heard)
<1>n. named \in Seq(MutationOps)
  BY AnswersAreLists
<1>t. /\ TurnOK(t) /\ t.kind \in Kinds /\ t.card = None /\ t.repaired \in BOOLEAN
      /\ t.changes \in Seq(MutationOps) /\ wanted \in Seq(MutationOps)
  BY DEF Carries, Listed, Done
<1>1. CASE t.purpose = "interpret"
  <2> DEFINE sorted == [t EXCEPT !.changes = named, !.declared = t.heard.kind]
  <2>1. t.repaired = FALSE /\ t.changes = <<>> /\ wanted = <<>> \o named
    BY <1>1 DEF Carries, Sorted, Unsorted, Wanting, Pending
  <2>2. wanted = named
    BY <1>n, <2>1, ConcatEmptySeq
  <2>3. Heading(sorted, wanted) /\ sorted.purpose \in Wanting /\ sorted.repaired = FALSE
    BY <1>1, <1>n, <1>t, <2>1, <2>2 DEF Heading, TurnOK, Fields, Wanting
  <2> HIDE DEF sorted, named
  <2>4. Carries([sorted EXCEPT !.at = "reading"], wanted) /\ Carries(ToChanges(sorted), wanted)
    BY <2>3, ReadsOnCarries, ToChangesCarries
  <2>5. Understood(t) \in {[sorted EXCEPT !.at = "reading"], ToChanges(sorted)}
    BY <1>1 DEF Understood, Interpreted, sorted, named
  <2> QED
    BY <2>4, <2>5
<1>2. CASE t.purpose = "qa"
  <2> DEFINE sorted == [t EXCEPT !.changes = @ \o named]
             asked == [sorted EXCEPT !.kind = "clarification"]
  <2>1. t.repaired = FALSE /\ wanted = t.changes \o named
    BY <1>2 DEF Carries, Sorted, Unsorted, Wanting, Pending
  <2>2. Heading(sorted, wanted) /\ sorted.purpose \in Wanting /\ sorted.repaired = FALSE
    BY <1>2, <1>n, <1>t, <2>1 DEF Heading, TurnOK, Fields, Wanting
  <2> HIDE DEF sorted, named
  <2>3. Heading(asked, wanted) /\ asked.repaired = FALSE
    BY <2>2 DEF Heading, TurnOK, Fields, Kinds
  <2> HIDE DEF asked
  <2>4. /\ Carries([sorted EXCEPT !.at = "reading"], wanted)
        /\ Carries(ToChanges(sorted), wanted) /\ Carries(ToChanges(asked), wanted)
    BY <2>2, <2>3, ReadsOnCarries, ToChangesCarries
  <2>5. Understood(t) \in {[sorted EXCEPT !.at = "reading"], ToChanges(sorted), ToChanges(asked)}
    BY <1>2 DEF Understood, FollowedUp, sorted, named, asked
  <2> QED
    BY <2>4, <2>5
<1>3. CASE t.purpose \in {"repair", "verify"}
  <2>1. Heading(t, wanted)
    BY <1>3, <1>t DEF Heading, Carries, Sorted, Unsorted, Wanting, Pending
  <2>2. Carries([t EXCEPT !.at = "storing"], wanted)
    BY <2>1, MovesOnCarries
  <2> DEFINE Replaced(place) == [t EXCEPT !.at = place, !.repaired = TRUE, !.changes = named]
  <2>3. \A place \in {"drying", "storing"} : Carries(Replaced(place), wanted)
    BY <1>n, <1>t DEF Carries, TurnOK, Fields, Within, Between, Before, Done, Listed, Sorted,
       TellsAll, Pending, Told, Kinds, Unsorted, Wanting
  <2>4. Understood(t) \in {[t EXCEPT !.at = "storing"], Replaced("drying"), Replaced("storing")}
    BY <1>3 DEF Understood, Repaired, Verified
  <2> QED
    BY <2>2, <2>3, <2>4
<1> QED
  BY <1>1, <1>2, <1>3, <1>t DEF TurnOK, Purposes

LEMMA MisheardCarries ==
  ASSUME NEW t, NEW wanted, Carries(t, wanted), t.at = "recording", t.heard \notin Answers
  PROVE  Carries(Misheard(t), wanted)
<1> DEFINE answered == t.answered \/ t.heard = Unreadable
           marked == [t EXCEPT !.answered = answered]
<1>1. Heading(t, wanted)
  BY DEF Heading, Carries, Listed, Done, Sorted, Unsorted, Pending
<1>2. /\ Heading(marked, wanted) /\ marked.changes = t.changes /\ marked.repaired = t.repaired
      /\ t.purpose \in Purposes
  BY <1>1 DEF Heading, TurnOK, Fields
<1>3. /\ t.purpose \in Wanting => t.repaired = FALSE
      /\ t.purpose = "interpret" => t.changes = <<>>
  BY DEF Carries, Sorted
<1> HIDE DEF marked
<1>4. Carries(Ask(marked, t.purpose, t.tries + 1), wanted)
  BY <1>2, <1>3, AskCarries
<1>5. /\ Carries([t EXCEPT !.at = "closing", !.kind = "clarification", !.why = "unreadable"], wanted)
      /\ Carries([t EXCEPT !.at = "erroring"], wanted)
  BY <1>1, EndsWithAWord, MovesOnCarries DEF Reasons
<1> QED
  BY <1>4, <1>5 DEF Misheard, marked

LEMMA OverCarries ==
  ASSUME NEW r, NEW wanted, Carries(turn[r], wanted)
  PROVE  Carries(Over(r), wanted)
BY DEF Carries, TurnOK, Over, Fields, Purposes, Done, Before, Within, Between, Listed, Sorted,
       TellsAll, Pending, Told
-----------------------------------------------------------------------------
LEMMA InitCarries == Init => CarryInv
<1> SUFFICES ASSUME Init PROVE CarryInv
  OBVIOUS
<1>1. ASSUME NEW r \in Requests PROVE CarryOK(r)
  <2>1. /\ TurnOK(turn[r]) /\ turn[r].at = "off" /\ turn[r].kind = "answer" /\ turn[r].card = None
        /\ turn[r].changes = <<>> /\ turn[r].repaired = FALSE
    BY DEF Init, TurnOK, Fields, Purposes, Before
  <2>2. cards[r] = None /\ spent[r].wanted = <<>>
    BY DEF Init
  <2>3. <<>> \in Seq(MutationOps)
    OBVIOUS
  <2>4. Listed(turn[r], <<>>)
    BY <2>1, <2>3 DEF Listed, Kinds
  <2>5. Sorted(turn[r], <<>>) /\ TellsAll(turn[r], <<>>)
    BY <2>1 DEF Sorted, TellsAll, Before, Pending, Told
  <2> QED
    BY <2>1, <2>2, <2>4, <2>5 DEF CarryOK, Carries
<1> QED
  BY <1>1 DEF Init, CarryInv

(* A step of one request disturbs what no other carries.                   *)
LEMMA OneCarrierMoves ==
  ASSUME CarryInv, NEW r \in Requests, DOMAIN cards' = Requests,
         \A q \in Requests \ {r} : /\ turn'[q] = turn[q] /\ turns'[q] = turns[q]
                                  /\ cards'[q] = cards[q] /\ spent'[q] = spent[q],
         CarryOK(r)'
  PROVE  CarryInv'
<1>1. \A q \in Requests \ {r} : CarryOK(q)'
  BY DEF CarryInv, CarryOK
<1> QED
  BY <1>1 DEF CarryInv

(* A step in the course of a request: neither a row nor a card.            *)
LEMMA CarrierWaits ==
  ASSUME JournalInv, CarryInv, NEW r \in Requests, NEW u, turn' = [turn EXCEPT ![r] = u],
         UNCHANGED <<turns, cards, spent>>, turn[r].at # "over",
         Carries(u, spent[r].wanted),
         u.at \notin {"responding", "committing"} \/ u.kind \in Kinds \/ turns[r].outcome = "proposed"
  PROVE  CarryInv'
<1>1. CarryOK(r) /\ turn'[r] = u
  BY DEF CarryInv, JournalInv
<1>2. u.kind \in Kinds => u.kind # "proposal"
  BY DEF Kinds
<1>3. CarryOK(r)'
  BY <1>1, <1>2 DEF CarryOK
<1> QED
  BY <1>3, OneCarrierMoves DEF JournalInv, CarryInv

LEMMA CarriedIn ==
  ASSUME JournalInv, CarryInv, NEW r \in Requests,
         Arrive(r) \/ Renew(r) \/ CheckTurn(r) \/ Snapshot(r) \/ Respond(r)
  PROVE  CarryInv'
<1> DEFINE t == turn[r]
           wanted == spent[r].wanted
           Sent(place) == [t EXCEPT !.at = place]
<1>t. TurnOK(t) /\ CarryOK(r) /\ Carries(t, wanted)
  BY DEF JournalInv, AccountOK, CarryInv, CarryOK
<1>1. CASE Arrive(r) \/ Renew(r) \/ Snapshot(r)
  <2>1. PICK place \in {"renewing", "checking", "responding", "opening"} :
            turn' = [turn EXCEPT ![r] = Sent(place)] /\ UNCHANGED <<turns, cards, spent>>
    BY <1>1 DEF Arrive, Renew, Snapshot
  <2>2. t.at \in Before
    BY <1>1 DEF Arrive, Renew, Snapshot, At, Before
  <2>3. Carries(Sent(place), wanted) /\ Sent(place).kind \in Kinds
    BY <1>t, <2>2 DEF Carries, TurnOK, Fields, Before, Done, Listed, Sorted, TellsAll, Pending, Told
  <2>4. t.at # "over"
    BY <2>2 DEF Before
  <2> HIDE DEF Sent
  <2> QED
    BY <2>1, <2>3, <2>4, CarrierWaits
<1>2. CASE CheckTurn(r)
  <2> DEFINE refusal == [t EXCEPT !.at = "snapshot", !.kind = "refusal", !.refused = TRUE]
             u == IF ThisHour >= TurnsPerHour \/ SpentToday >= Budget THEN refusal ELSE Sent("snapshot")
  <2>1. t.at = "checking" /\ turn' = [turn EXCEPT ![r] = u] /\ UNCHANGED <<turns, cards, spent>>
    BY <1>2 DEF CheckTurn, At
  <2>2. Carries(refusal, wanted) /\ Carries(Sent("snapshot"), wanted)
        /\ refusal.at = "snapshot" /\ Sent("snapshot").at = "snapshot"
    BY <1>t, <2>1 DEF Carries, TurnOK, Fields, Before, Done, Listed, Sorted, TellsAll, Pending, Told,
       Kinds
  <2> HIDE DEF refusal, Sent
  <2>3. Carries(u, wanted) /\ u.at = "snapshot"
    BY <2>2
  <2> HIDE DEF u
  <2> QED
    BY <2>1, <2>3, CarrierWaits
<1>3. CASE Respond(r)
  <2>1. /\ t.at = "responding" /\ turn' = [turn EXCEPT ![r] = Sent("committing")]
        /\ UNCHANGED <<turns, cards, spent>>
    BY <1>3 DEF Respond, At
  <2>2. Carries(Sent("committing"), wanted) /\ Sent("committing").kind = t.kind
    BY <1>t, <2>1 DEF Carries, TurnOK, Fields, Before, Done, Listed, Sorted, TellsAll, Pending, Told
  <2>3. t.kind \in Kinds \/ turns[r].outcome = "proposed"
    BY <1>t, <2>1 DEF CarryOK, Carries, Listed
  <2> HIDE DEF Sent
  <2> QED
    BY <2>1, <2>2, <2>3, CarrierWaits
<1> QED
  BY <1>1, <1>2, <1>3

LEMMA CarriedThroughFailures ==
  ASSUME JournalInv, CarryInv, NEW r \in Requests, CommitFails(r) \/ PoolTimeout(r) \/ Busy(r)
  PROVE  CarryInv'
<1> DEFINE t == turn[r]
           wanted == spent[r].wanted
           failed == [t EXCEPT !.at = "erroring"]
<1>t. TurnOK(t) /\ CarryOK(r) /\ Carries(t, wanted)
  BY DEF JournalInv, AccountOK, CarryInv, CarryOK
<1>1. ASSUME RollBack(r), t.at # "over" PROVE CarryInv'
  <2>1. turn' = [turn EXCEPT ![r] = Over(r)] /\ UNCHANGED <<turns, cards, spent>>
    BY <1>1 DEF RollBack
  <2>2. Carries(Over(r), wanted) /\ Over(r).at = "over"
    BY <1>t, OverCarries, OverIsDone
  <2> QED
    BY <1>1, <2>1, <2>2, CarrierWaits
<1>2. ASSUME turn' = [turn EXCEPT ![r] = failed], UNCHANGED <<turns, cards, spent>>, t.at \in Pending
      PROVE CarryInv'
  <2>1. Carries(failed, wanted) /\ failed.at = "erroring"
    BY <1>t, <1>2 DEF Carries, TurnOK, Fields, Before, Within, Between, Done, Listed, Sorted, TellsAll,
       Pending, Told
  <2>2. t.at # "over"
    BY <1>2 DEF Pending
  <2> HIDE DEF failed
  <2> QED
    BY <1>2, <2>1, <2>2, CarrierWaits
<1>3. CASE CommitFails(r)
  BY <1>1, <1>3 DEF CommitFails, At
<1>4. CASE PoolTimeout(r)
  <2>1. \/ RollBack(r) /\ t.at # "over"
        \/ /\ At(r, "recording") /\ turn' = [turn EXCEPT ![r] = failed]
           /\ UNCHANGED <<turns, cards, spent>>
    BY <1>4 DEF PoolTimeout, NeedsConnection
  <2>2. At(r, "recording") => t.at \in Pending
    BY DEF At, Pending
  <2> QED
    BY <1>1, <1>2, <2>1, <2>2
<1>5. CASE Busy(r)
  <2>1. \/ RollBack(r) /\ t.at # "over"
        \/ /\ t.at \in WantsBook \ {"snapshot"}
           /\ turn' = [turn EXCEPT ![r] = failed] /\ UNCHANGED <<turns, cards, spent>>
    BY <1>5 DEF Busy, At, WantsBook
  <2>2. WantsBook \ {"snapshot"} \subseteq Pending
    BY DEF WantsBook, Pending
  <2> QED
    BY <1>1, <1>2, <2>1, <2>2
<1> QED
  BY <1>3, <1>4, <1>5

(* Up to the card, which shows what the turn carries.                      *)
LEMMA CarriedToTheCard ==
  ASSUME JournalInv, CarryInv, NEW r \in Requests, Read(r) \/ Dry(r) \/ TakeBook(r) \/ InsertCard(r)
  PROVE  CarryInv'
<1> DEFINE t == turn[r]
           wanted == spent[r].wanted
<1>t. TurnOK(t) /\ CarryOK(r) /\ Carries(t, wanted)
  BY DEF JournalInv, AccountOK, CarryInv, CarryOK
<1>a. t.at \in {"reading", "drying", "storing", "inserting"} /\ UNCHANGED <<turns, cards, spent>>
  BY DEF Read, Dry, TakeBook, InsertCard, At
<1>h. Heading(t, wanted)
  BY <1>t, <1>a DEF Heading, Carries, Listed, Done, Sorted, Unsorted, Pending
<1>p. {"qa", "verify", "repair"} \subseteq Purposes /\ {"verify", "repair"} \cap Wanting = {}
  BY DEF Purposes, Wanting
<1>w. ASSUME NEW u, Carries(u, wanted), u.at \notin {"responding", "committing"},
             turn' = [turn EXCEPT ![r] = u]
      PROVE  CarryInv'
  BY <1>a, <1>w, CarrierWaits
<1>k. \A u, purpose, tries : u = Ask(t, purpose, tries) => u.at \notin {"responding", "committing"}
  BY <1>t DEF Ask, Limited, TurnOK, Fields
<1>1. CASE Read(r)
  <2> DEFINE next == [t EXCEPT !.rounds = @ + 1]
             u == Ask(next, "qa", 1)
  <2>1. t.at = "reading" /\ turn' = [turn EXCEPT ![r] = u]
    BY <1>1 DEF Read, At
  <2>2. Heading(next, wanted) /\ next.repaired = FALSE
    BY <1>h, <1>t, <2>1 DEF Heading, TurnOK, Fields, Carries, Sorted
  <2>3. u.at \notin {"responding", "committing"}
    BY <2>2 DEF Heading, Ask, Limited, TurnOK, Fields
  <2> HIDE DEF next
  <2>4. Carries(u, wanted)
    BY <1>p, <2>2, AskCarries
  <2> HIDE DEF u
  <2> QED
    BY <1>w, <2>1, <2>3, <2>4
<1>2. CASE Dry(r)
  <2> DEFINE storing == [t EXCEPT !.at = "storing"]
  <2>1. Carries(storing, wanted) /\ storing.at = "storing"
    BY <1>h, MovesOnCarries DEF Heading, TurnOK, Fields
  <2>2. Carries(Ask(t, "verify", 1), wanted) /\ Carries(Ask(t, "repair", 1), wanted)
    BY <1>p, <1>h, AskCarries
  <2>3. \E u \in {storing, Ask(t, "verify", 1), Ask(t, "repair", 1)} : turn' = [turn EXCEPT ![r] = u]
    BY <1>2 DEF Dry
  <2> HIDE DEF storing
  <2> QED
    BY <1>k, <1>w, <2>1, <2>2, <2>3
<1>3. CASE TakeBook(r)
  <2> DEFINE asking == [t EXCEPT !.at = "closing", !.kind = "clarification", !.why = "undated"]
             inserting == [t EXCEPT !.at = "inserting"]
  <2>1. Carries(asking, wanted) /\ Carries(inserting, wanted)
    BY <1>h, EndsWithAWord, MovesOnCarries DEF Reasons
  <2>2. asking.at = "closing" /\ inserting.at = "inserting"
    BY <1>t DEF TurnOK, Fields
  <2>3. \E u \in {asking, inserting} : turn' = [turn EXCEPT ![r] = u]
    BY <1>3 DEF TakeBook
  <2> HIDE DEF asking, inserting
  <2> QED
    BY <1>w, <2>1, <2>2, <2>3
<1>4. CASE InsertCard(r)
  <2> DEFINE stored == [t EXCEPT !.at = "closing", !.kind = "proposal", !.card = Tried(t.changes)]
  <2>1. Carries(stored, wanted) /\ stored.at = "closing"
    BY <1>h DEF Heading, Carries, TurnOK, Fields, Within, Between, Before, Done, Listed, Sorted,
       TellsAll, Pending, Told
  <2>2. turn' = [turn EXCEPT ![r] = stored]
    BY <1>4 DEF InsertCard
  <2> HIDE DEF stored
  <2> QED
    BY <1>w, <2>1, <2>2
<1> QED
  BY <1>1, <1>2, <1>3, <1>4

(* The model's answers: asked for, and recorded.                           *)
LEMMA CarriedByCalls ==
  ASSUME JournalInv, CarryInv, NEW r \in Requests,
         RecordCall(r) \/ \E answer \in Answers \cup {Unreadable, Unreachable} : Complete(r, answer)
  PROVE  CarryInv'
<1> DEFINE t == turn[r]
<1>t. TurnOK(t) /\ CarryOK(r) /\ Carries(t, spent[r].wanted)
  BY DEF JournalInv, AccountOK, CarryInv, CarryOK
<1>1. CASE RecordCall(r)
  <2> DEFINE u == IF t.heard \in Answers THEN Understood(t) ELSE Misheard(t)
  <2>1. t.at = "recording" /\ turn' = [turn EXCEPT ![r] = u] /\ UNCHANGED <<turns, cards, spent>>
    BY <1>1 DEF RecordCall, At
  <2>2. Carries(u, spent[r].wanted)
    BY <1>t, <2>1, UnderstoodCarries, MisheardCarries
  <2>3. u.at \notin {"responding", "committing"}
    BY <1>t, UnderstoodGoesOn, MisheardGoesOn DEF GoesOn, Between
  <2> HIDE DEF u
  <2> QED
    BY <2>1, <2>2, <2>3, CarrierWaits
<1>2. ASSUME NEW answer \in Answers \cup {Unreadable, Unreachable}, Complete(r, answer)
      PROVE  CarryInv'
  <2> DEFINE charge == IF answer = Unreachable THEN 0 ELSE 1
             u == [t EXCEPT !.at = "recording", !.heard = answer, !.seq = @ + 1, !.cost = @ + charge]
             wanted == IF answer \in Answers /\ t.purpose \in Wanting
                       THEN spent[r].wanted \o Changes(answer) ELSE spent[r].wanted
  <2>1. /\ t.at = "asking" /\ UNCHANGED <<turns, cards>> /\ turn' = [turn EXCEPT ![r] = u]
        /\ spent' = [spent EXCEPT ![r] = [calls |-> spent[r].calls + charge, wanted |-> wanted]]
    BY <1>2 DEF Complete, AddedUp, At, Wanting
  <2>2. /\ TurnOK(u) /\ u.at = "recording" /\ u.heard = answer /\ u.purpose = t.purpose
        /\ u.kind = t.kind /\ u.card = t.card /\ u.changes = t.changes /\ u.repaired = t.repaired
    BY <1>t DEF TurnOK, Fields, Within
  <2>3. wanted \in Seq(MutationOps)
    <3>1. spent[r].wanted \in Seq(MutationOps)
      BY <1>t DEF Carries, Listed
    <3>2. answer \in Answers => Changes(answer) \in Seq(MutationOps)
      BY AnswersAreLists
    <3> QED
      BY <3>1, <3>2, ConcatProperties
  <2>4. t.repaired = FALSE => spent[r].wanted = t.changes
    BY <1>t, <2>1 DEF Carries, Sorted, Unsorted, Pending
  <2> HIDE DEF u
  <2>5. Carries(u, wanted)
    <3>1. Listed(u, wanted)
      BY <1>t, <2>1, <2>2, <2>3 DEF Carries, Listed, Done
    <3>2. u.repaired = FALSE =>
              wanted = IF Unsorted(u) THEN u.changes \o Changes(u.heard) ELSE u.changes
      BY <2>2, <2>4 DEF Unsorted
    <3>3. Sorted(u, wanted)
      BY <1>t, <2>1, <2>2, <3>2 DEF Carries, Sorted, Before
    <3> QED
      BY <2>2, <3>1, <3>3 DEF Carries, TellsAll, Told
  <2> HIDE DEF wanted, charge
  <2>6. turn'[r] = u /\ spent'[r].wanted = wanted
    BY <2>1 DEF JournalInv
  <2>7. cards[r] = None
    BY <1>t, <2>1 DEF CarryOK
  <2>8. CarryOK(r)'
    BY <2>1, <2>2, <2>5, <2>6, <2>7 DEF CarryOK
  <2> QED
    BY <2>1, <2>8, OneCarrierMoves DEF JournalInv, CarryInv
<1> QED
  BY <1>1, <1>2

(* The row says what became of the turn before anybody sees its card.      *)
LEMMA CarriedIntoTheTables ==
  ASSUME JournalInv, CarryInv, NEW r \in Requests,
         OpenJournal(r) \/ CloseJournal(r) \/ CloseQuietly(r) \/ Commit(r)
  PROVE  CarryInv'
<1> DEFINE t == turn[r]
           wanted == spent[r].wanted
<1>t. TurnOK(t) /\ CarryOK(r) /\ Carries(t, wanted) /\ AccountOK(r)
  BY DEF JournalInv, AccountOK, CarryInv, CarryOK
<1>w. ASSUME NEW u, Carries(u, wanted), t.at # "over", turn' = [turn EXCEPT ![r] = u],
             UNCHANGED <<cards, spent>>, \A q \in Requests \ {r} : turns'[q] = turns[q],
             \/ u.at \notin {"responding", "committing"} \/ u.kind \in Kinds
             \/ turns'[r].outcome = "proposed"
      PROVE  CarryInv'
  <2>1. turn'[r] = u /\ cards[r] = None /\ (u.kind \in Kinds => u.kind # "proposal")
    BY <1>t, <1>w DEF JournalInv, CarryOK, Kinds
  <2>2. CarryOK(r)'
    BY <1>w, <2>1 DEF CarryOK
  <2> QED
    BY <1>w, <2>2, OneCarrierMoves DEF JournalInv, CarryInv
<1>1. CASE OpenJournal(r)
  <2> DEFINE u == [t EXCEPT !.at = "asking", !.tries = 1]
  <2>1. /\ t.at = "opening" /\ UNCHANGED <<cards, spent>> /\ turn' = [turn EXCEPT ![r] = u]
        /\ \A q \in Requests \ {r} : turns'[q] = turns[q]
    BY <1>1 DEF OpenJournal, At, JournalInv
  <2>2. Carries(u, wanted) /\ u.at = "asking"
    BY <1>t, <2>1 DEF Carries, TurnOK, Fields, Before, Within, Between, Done, Listed, Sorted, TellsAll,
       Pending, Told, Unsorted
  <2> HIDE DEF u
  <2> QED
    BY <1>w, <2>1, <2>2
<1>2. CASE CloseJournal(r)
  <2> DEFINE u == [t EXCEPT !.at = "responding"]
  <2>1. /\ t.at = "closing" /\ UNCHANGED <<cards, spent>> /\ turn' = [turn EXCEPT ![r] = u]
        /\ turns' = [turns EXCEPT ![r].outcome = OutcomeOf(t), ![r].cost = t.cost]
    BY <1>2 DEF CloseJournal, At
  <2>2. turns[r] = Running /\ DOMAIN turns = Requests
    BY <1>t, <2>1 DEF AccountOK, Within, Between, JournalInv
  <2>3. turns'[r].outcome = OutcomeOf(t)
    BY <2>1, <2>2 DEF Running
  <2>4. t.kind \in Kinds \/ turns'[r].outcome = "proposed"
    BY <1>t, <2>3 DEF Carries, Listed, OutcomeOf
  <2>5. Carries(u, wanted) /\ u.kind = t.kind
    BY <1>t, <2>1 DEF Carries, TurnOK, Fields, Before, Within, Between, Done, Listed, Sorted, TellsAll,
       Pending, Told
  <2>6. \A q \in Requests \ {r} : turns'[q] = turns[q]
    BY <2>1, <2>2
  <2> HIDE DEF u
  <2> QED
    BY <1>w, <2>1, <2>4, <2>5, <2>6
<1>3. CASE CloseQuietly(r)
  <2>1. /\ t.at = "erroring" /\ UNCHANGED <<cards, spent>> /\ turn' = [turn EXCEPT ![r] = Over(r)]
        /\ \A q \in Requests \ {r} : turns'[q] = turns[q]
    BY <1>3 DEF CloseQuietly, At, JournalInv
  <2>2. Carries(Over(r), wanted) /\ Over(r).at = "over"
    BY <1>t, OverCarries, OverIsDone
  <2> QED
    BY <1>w, <2>1, <2>2
<1>4. CASE Commit(r)
  <2>1. /\ t.at = "committing" /\ UNCHANGED <<turns, spent>> /\ turn' = [turn EXCEPT ![r] = Over(r)]
        /\ cards' = [cards EXCEPT ![r] = IF t.card # None THEN t.card ELSE cards[r]]
    BY <1>4 DEF Commit, At
  <2>2. Carries(Over(r), wanted) /\ Over(r).at = "over" /\ Over(r).changes = t.changes
    BY <1>t, OverCarries, OverIsDone DEF Over, TurnOK, Fields
  <2>3. cards[r] = None
    BY <1>t, <2>1 DEF CarryOK
  <2>4. turn'[r] = Over(r) /\ cards'[r] = IF t.card # None THEN t.card ELSE None
    BY <2>1, <2>3 DEF JournalInv, CarryInv
  <2>5. t.card # None => t.kind = "proposal" /\ t.card = Tried(t.changes)
    BY <1>t DEF Carries, Listed
  <2>6. t.kind = "proposal" => turns[r].outcome = "proposed"
    BY <1>t, <2>1 DEF CarryOK
  <2>7. CarryOK(r)'
    BY <2>1, <2>2, <2>4, <2>5, <2>6 DEF CarryOK
  <2> QED
    BY <2>1, <2>7, OneCarrierMoves DEF JournalInv, CarryInv
<1> QED
  BY <1>1, <1>2, <1>3, <1>4

LEMMA CarryStep == JournalInv /\ CarryInv /\ [Next]_vars => CarryInv'
<1> SUFFICES ASSUME JournalInv, CarryInv, [Next]_vars PROVE CarryInv'
  OBVIOUS
<1>1. CASE UNCHANGED vars \/ OtherTakes \/ OtherGives
  BY <1>1 DEF vars, OtherTakes, OtherGives, CarryInv, CarryOK
<1>2. ASSUME NEW r \in Requests, Arrive(r) \/ Step(r) \/ Busy(r) \/ CommitFails(r)
      PROVE  CarryInv'
  BY <1>2, CarriedIn, CarriedThroughFailures, CarriedToTheCard, CarriedByCalls, CarriedIntoTheTables
     DEF Step
<1> QED
  BY <1>1, <1>2 DEF Next

(* ADR-0029, "a card comes from a turn that says so": what others see as a *)
(* card belongs to a row that says proposed, and shows what its turn asked *)
(* of the book, whatever the pool and the database do in between.          *)
THEOREM CardsComeFromTurns == Spec => []CardsHaveTheirTurn
<1>1. CarryInv => CardsHaveTheirTurn
  BY DEF CarryInv, CarryOK, CardsHaveTheirTurn
<1> QED
  BY <1>1, InitJournal, JournalStep, InitCarries, CarryStep, PTL DEF Spec

(* "Dropping it on the way out would lose the user's change without a      *)
(* word" (pipeline.py): whatever the model answers and in whatever order   *)
(* of reads, repairs and questions, a turn that responds shows every       *)
(* change that was named, or says why it does not.                         *)
THEOREM ChangesAreCarried == Spec => []NoChangeIsLost
<1>1. ASSUME CarryInv, NEW r \in Requests, turn[r].at \in {"responding", "committing"}
      PROVE  LET wanted == spent[r].wanted IN
             CASE turn[r].kind = "proposal" -> turn[r].repaired \/ turn[r].card = Tried(wanted)
               [] turn[r].why # None -> TRUE
               [] OTHER -> wanted = <<>>
  <2>1. Listed(turn[r], spent[r].wanted) /\ TellsAll(turn[r], spent[r].wanted)
    BY <1>1 DEF CarryInv, CarryOK, Carries
  <2>2. CASE turn[r].kind = "proposal"
    BY <1>1, <2>1, <2>2 DEF Listed, TellsAll, Told, Kinds
  <2>3. CASE turn[r].kind # "proposal"
    BY <1>1, <2>1, <2>3, NoneIsNoReason DEF TellsAll, Told, Reasons
  <2> QED
    BY <2>2, <2>3
<1>2. CarryInv => NoChangeIsLost
  BY <1>1 DEF NoChangeIsLost
<1> QED
  BY <1>2, InitJournal, JournalStep, InitCarries, CarryStep, PTL DEF Spec

-----------------------------------------------------------------------------
(* What the turns of a day spend: those admitted while the budget was not  *)
(* spent hold a connection each, and one that closes its row finds another *)
(* one free; so each closed row that takes the sum over the budget leaves  *)
(* one less to do so.                                                      *)
Open == {r \in Requests : turn[r].at \in Within}
Flying == {r \in Requests : InFlight(r)}
MayCall(t) == t.refused = FALSE /\ t.at \in {"snapshot", "opening"} \cup Within
Admitted == {r \in Requests : MayCall(turn[r])}
Room == IF Cardinality(Admitted) < PoolSize THEN PoolSize - 1 - Cardinality(Admitted) ELSE 0

CostOK(r) ==
    /\ turn[r].refused \in BOOLEAN
    /\ turn[r].at \in {"off", "renewing", "checking", "opening"} \cup Within => turn[r].refused = FALSE
    /\ spent[r].calls \in Nat /\ spent[r].calls <= turn[r].seq /\ turn[r].seq <= MaxCalls
    /\ turn[r].at \in {"asking", "opening"} => turn[r].seq < MaxCalls
    /\ turn[r].at \in Before => turn[r].seq = 0
    /\ turns[r] = None => spent[r].calls = 0
    /\ turns[r] # None => turns[r] \in [outcome : Outcomes, cost : Nat]
    /\ turn[r].at \in {"responding", "committing"} /\ turns[r] # None => turns[r].outcome # "running"
    /\ turns[r] # None /\ turns[r].outcome = "running" => turns[r].cost = 0

SpendInv ==
    /\ \A r \in Requests : CostOK(r)
    /\ Cardinality(Open) <= PoolSize - 1
    /\ SpentToday <= Budget - 1 + Room * MaxCalls

LEMMA ProductsGrow ==
  ASSUME NEW a \in Nat, NEW b \in Nat, a <= b, NEW m \in Nat
  PROVE  a * m <= b * m /\ a * m \in Nat /\ (a + 1) * m = a * m + m
<1>1. b - a \in Nat /\ (b - a) * m \in Nat
  OBVIOUS
<1>2. b = a + (b - a) /\ (a + (b - a)) * m = a * m + (b - a) * m
  OBVIOUS
<1>3. a * m \in Nat /\ b * m \in Nat
  OBVIOUS
<1>4. (a + 1) * m = a * m + m
  OBVIOUS
<1> QED
  BY <1>1, <1>2, <1>3, <1>4

(* The sums of the specification, as totals over all requests.             *)
CostsOf(rows) == [r \in Requests |-> IF rows[r] = None THEN 0 ELSE rows[r].cost]
SpentIn(rows) == MapThenSumSet(LAMBDA q : rows[q].cost, {q \in Requests : rows[q] # None})

LEMMA SpentInIsTotal ==
  ASSUME NEW rows, \A r \in Requests : rows[r] # None => rows[r].cost \in Nat
  PROVE  /\ SpentIn(rows) = TotalOf(CostsOf(rows), Requests)
         /\ SpentIn(rows) \in Nat
<1> DEFINE S == {q \in Requests : rows[q] # None}
           f == CostsOf(rows)
           Adding(F) == [s \in SUBSET S |-> IF s = {} THEN 0 ELSE rows[Pick(s)].cost + F[Rest(s)]]
           G == CHOOSE F : F = Adding(F)
<1>f. IsFiniteSet(S) /\ S \in SUBSET Requests
  BY RequestsAreFinite, FS_Subset
<1>1. \A s \in SUBSET S : s # {} => f[Pick(s)] = rows[Pick(s)].cost
  BY PickIn DEF CostsOf
<1>2. \A F : F = Adding(F) <=> AreTotals(F, f, S)
  BY <1>1 DEF AreTotals, Adds
<1>3. SpentIn(rows) = G[S]
  BY DEF SpentIn, MapThenSumSet, MapThenFoldSet, Pick, Rest
<1>4. /\ \A r \in Requests : f[r] \in Nat
      /\ \A r \in Requests \ S : f[r] = 0
  BY DEF CostsOf
<1> HIDE DEF f
<1>5. AreTotals(G, f, S)
  <2> HIDE DEF Adding
  <2>1. \E F : F = Adding(F)
    BY <1>2, <1>f, TotalsExist
  <2>2. G = Adding(G)
    BY <2>1
  <2> QED
    BY <1>2, <2>2
<1> HIDE DEF G
<1>6. G[S] = TotalOf(f, S)
  BY <1>5, <1>f, TotalUnfolds, SolutionsAgree
<1> HIDE DEF S
<1>7. TotalOf(f, S) \in Nat /\ TotalOf(f, S) = TotalOf(f, Requests)
  BY <1>f, <1>4, RequestsAreFinite, TotalOfPart
<1> QED
  BY <1>3, <1>6, <1>7 DEF f

LEMMA SpentTodayIsSpentIn == SpentToday = SpentIn(turns) /\ SpentToday' = SpentIn(turns')
BY DEF SpentToday, SpentIn, MapThenSumSet, MapThenFoldSet

LEMMA Crowds ==
  /\ IsFiniteSet(Open) /\ IsFiniteSet(Flying) /\ IsFiniteSet(Admitted)
  /\ Cardinality(Open) \in Nat /\ Cardinality(Flying) \in Nat /\ Cardinality(Admitted) \in Nat
BY RequestsAreFinite, FS_Subset, FS_CardinalityType DEF Open, Flying, Admitted

LEMMA CrowdsAfter ==
  /\ IsFiniteSet(Open') /\ IsFiniteSet(Flying') /\ IsFiniteSet(Admitted')
  /\ Cardinality(Open') \in Nat /\ Cardinality(Flying') \in Nat /\ Cardinality(Admitted') \in Nat
BY RequestsAreFinite, FS_Subset, FS_CardinalityType DEF Open, Flying, Admitted

LEMMA RoomIsNatural == Room \in Nat /\ Room * MaxCalls \in Nat
<1>1. Room \in Nat /\ MaxCalls \in Nat
  BY Crowds, PoolIsUsable, CallsArePositive DEF Room
<1> QED
  BY <1>1, ProductsGrow

LEMMA FreeMeansRoom == FreeConnection => Cardinality(Flying) < PoolSize
BY DEF FreeConnection, HoldsConnection, Flying

-----------------------------------------------------------------------------
(* One request moves; no row changes what it says of money.                *)
LEMMA OneSpenderMoves ==
  ASSUME JournalInv, SpendInv, NEW r \in Requests, NEW u, turn' = [turn EXCEPT ![r] = u],
         \A q \in Requests \ {r} : turns'[q] = turns[q] /\ spent'[q] = spent[q],
         CostOK(r)', CostsOf(turns')[r] = CostsOf(turns)[r],
         MayCall(u) => MayCall(turn[r]) \/ SpentToday < Budget,
         u.at \in Within => turn[r].at \in Within \/ (FreeConnection /\ InFlight(r))
  PROVE  SpendInv'
<1>1. turn'[r] = u /\ \A q \in Requests \ {r} : turn'[q] = turn[q]
  BY DEF JournalInv
<1>2. \A q \in Requests : CostOK(q)'
  <2>1. \A q \in Requests \ {r} : CostOK(q)'
    BY <1>1 DEF SpendInv, CostOK
  <2> QED
    BY <2>1
<1>3. SpentToday' = SpentToday /\ SpentToday \in Nat
  <2>1. \A q \in Requests : turns[q] # None => turns[q].cost \in Nat
    BY DEF SpendInv, CostOK
  <2>2. \A q \in Requests : turns'[q] # None => turns'[q].cost \in Nat
    BY <1>2 DEF CostOK
  <2>3. CostsOf(turns') = CostsOf(turns)
    BY DEF CostsOf
  <2> QED
    BY <2>1, <2>2, <2>3, SpentInIsTotal, SpentTodayIsSpentIn
<1>4. Cardinality(Open') <= PoolSize - 1
  <2>1. CASE u.at \in Within /\ turn[r].at \notin Within
    <3>1. Open' \subseteq Flying
      BY <1>1, <2>1 DEF Open, Flying, InFlight, Within, Between
    <3>2. Cardinality(Open') <= Cardinality(Flying)
      BY <3>1, Crowds, FS_Subset
    <3> QED
      BY <2>1, <3>2, FreeMeansRoom, Crowds, CrowdsAfter, PoolIsUsable
  <2>2. CASE ~(u.at \in Within /\ turn[r].at \notin Within)
    <3>1. Open' \subseteq Open
      BY <1>1, <2>2 DEF Open
    <3>2. Cardinality(Open') <= Cardinality(Open)
      BY <3>1, Crowds, FS_Subset
    <3> QED
      BY <3>2, Crowds, CrowdsAfter, PoolIsUsable DEF SpendInv
  <2> QED
    BY <2>1, <2>2
<1>5. Room' \in Nat /\ Room' * MaxCalls \in Nat
  <2>1. Room' \in Nat /\ MaxCalls \in Nat
    BY CrowdsAfter, PoolIsUsable, CallsArePositive DEF Room
  <2>2. PICK n \in Nat : n = Room'
    BY <2>1
  <2>3. n * MaxCalls \in Nat
    BY <2>1, ProductsGrow
  <2> QED
    BY <2>2, <2>3
<1>6. SpentToday <= Budget - 1 + Room' * MaxCalls
  <2>1. CASE SpentToday < Budget
    BY <1>3, <1>5, <2>1, BudgetIsNatural
  <2>2. CASE ~(SpentToday < Budget)
    <3>1. Admitted' \subseteq Admitted
      BY <1>1, <2>2 DEF Admitted
    <3>2. Cardinality(Admitted') <= Cardinality(Admitted)
      BY <3>1, Crowds, FS_Subset
    <3>3. Room <= Room'
      BY <3>2, Crowds, CrowdsAfter, PoolIsUsable DEF Room
    <3>4. Room * MaxCalls <= Room' * MaxCalls
      BY <1>5, <3>3, RoomIsNatural, ProductsGrow, CallsArePositive
    <3>5. SpentToday <= Budget - 1 + Room * MaxCalls
      BY DEF SpendInv
    <3> QED
      BY <1>3, <1>5, <3>4, <3>5, RoomIsNatural, BudgetIsNatural
  <2> QED
    BY <2>1, <2>2
<1> QED
  BY <1>2, <1>3, <1>4, <1>6 DEF SpendInv

(* A row is closed: a connection was free, so there was room.              *)
LEMMA OneSpenderCloses ==
  ASSUME JournalInv, SpendInv, NEW r \in Requests, NEW u, turn' = [turn EXCEPT ![r] = u],
         \A q \in Requests \ {r} : turns'[q] = turns[q] /\ spent'[q] = spent[q],
         CostOK(r)', FreeConnection, turn[r].at \in Within, u.at \in Done,
         CostsOf(turns)[r] = 0, CostsOf(turns')[r] <= MaxCalls
  PROVE  SpendInv'
<1>1. turn'[r] = u /\ \A q \in Requests \ {r} : turn'[q] = turn[q]
  BY DEF JournalInv
<1>2. \A q \in Requests : CostOK(q)'
  <2>1. \A q \in Requests \ {r} : CostOK(q)'
    BY <1>1 DEF SpendInv, CostOK
  <2> QED
    BY <2>1
<1>3. SpentToday' <= SpentToday + MaxCalls /\ SpentToday \in Nat /\ SpentToday' \in Nat
  <2>1. \A q \in Requests : turns[q] # None => turns[q].cost \in Nat
    BY DEF SpendInv, CostOK
  <2>2. \A q \in Requests : turns'[q] # None => turns'[q].cost \in Nat
    BY <1>2 DEF CostOK
  <2> DEFINE f == CostsOf(turns)
             g == CostsOf(turns')
  <2>3. \A q \in Requests : f[q] \in Int /\ g[q] \in Int
    BY <2>1, <2>2 DEF CostsOf
  <2>4. \A q \in Requests \ {r} : g[q] = f[q]
    BY DEF CostsOf
  <2>5. /\ SpentToday = TotalOf(f, Requests) /\ SpentToday' = TotalOf(g, Requests)
        /\ SpentToday \in Nat /\ SpentToday' \in Nat
    BY <2>1, <2>2, SpentInIsTotal, SpentTodayIsSpentIn
  <2> HIDE DEF f, g
  <2>6. TotalOf(g, Requests) = TotalOf(f, Requests) - f[r] + g[r]
    BY <2>3, <2>4, RequestsAreFinite, TotalMoves
  <2>7. f[r] = 0 /\ g[r] <= MaxCalls /\ g[r] \in Int
    BY <2>3 DEF f, g
  <2> QED
    BY <2>5, <2>6, <2>7, CallsArePositive
<1>4. Cardinality(Open') <= PoolSize - 1
  <2>1. Open' \subseteq Open
    BY <1>1 DEF Open, Within, Between, Done
  <2>2. Cardinality(Open') <= Cardinality(Open)
    BY <2>1, Crowds, FS_Subset
  <2> QED
    BY <2>2, Crowds, CrowdsAfter, PoolIsUsable DEF SpendInv
<1>5. Cardinality(Admitted) < PoolSize
  <2>1. Admitted \subseteq Flying
    BY DEF Admitted, MayCall, Flying, InFlight, Within, Between
  <2>2. Cardinality(Admitted) <= Cardinality(Flying)
    BY <2>1, Crowds, FS_Subset
  <2> QED
    BY <2>2, FreeMeansRoom, Crowds, PoolIsUsable
<1>6. Cardinality(Admitted') = Cardinality(Admitted) - 1
  <2>1. r \in Admitted
    BY DEF SpendInv, CostOK, Admitted, MayCall
  <2>2. Admitted' = Admitted \ {r}
    BY <1>1 DEF Admitted, MayCall, Done, Within, Between
  <2> QED
    BY <2>1, <2>2, Crowds, FS_RemoveElement
<1>7. Room' = Room + 1
  BY <1>5, <1>6, Crowds, CrowdsAfter, PoolIsUsable DEF Room
<1>8. Room' * MaxCalls = Room * MaxCalls + MaxCalls
  BY <1>7, RoomIsNatural, ProductsGrow, CallsArePositive
<1>9. SpentToday <= Budget - 1 + Room * MaxCalls
  BY DEF SpendInv
<1>10. SpentToday' <= Budget - 1 + Room' * MaxCalls
  BY <1>3, <1>8, <1>9, RoomIsNatural, BudgetIsNatural, CallsArePositive
<1> QED
  BY <1>2, <1>4, <1>10 DEF SpendInv

-----------------------------------------------------------------------------
LEMMA InitSpends == Init => SpendInv
<1> SUFFICES ASSUME Init PROVE SpendInv
  OBVIOUS
<1>1. ASSUME NEW r \in Requests PROVE CostOK(r)
  <2>1. turn[r].at = "off" /\ turn[r].refused = FALSE /\ turn[r].seq = 0
    BY DEF Init
  <2>2. turns[r] = None /\ spent[r].calls = 0
    BY DEF Init
  <2>3. spent[r].calls \in Nat /\ spent[r].calls <= turn[r].seq /\ turn[r].seq < MaxCalls
    BY <2>1, <2>2, CallsArePositive
  <2>4. turn[r].refused \in BOOLEAN
    BY <2>1
  <2>5. turn[r].seq <= MaxCalls
    BY <2>1, CallsArePositive
  <2>6. turns[r] # None => FALSE
    BY <2>2
  <2> QED
    BY <2>1, <2>2, <2>3, <2>4, <2>5, <2>6 DEF CostOK
<1>2. \A r \in Requests : turn[r].at = "off" /\ turns[r] = None
  BY DEF Init
<1>3. Open = {} /\ Admitted = {}
  BY <1>2 DEF Open, Admitted, MayCall, Within, Between
<1>4. Cardinality(Open) = 0 /\ Cardinality(Admitted) = 0
  BY <1>3, FS_EmptySet
<1>5. SpentToday = 0
  <2>1. CostsOf(turns) = [r \in Requests |-> 0]
    BY <1>2 DEF CostsOf
  <2>2. SpentToday = TotalOf(CostsOf(turns), Requests)
    BY <1>2, SpentInIsTotal, SpentTodayIsSpentIn
  <2>3. TotalOf([r \in Requests |-> 0], {}) = TotalOf([r \in Requests |-> 0], Requests)
    <3> DEFINE f == [r \in Requests |-> 0]
    <3>1. {} \in SUBSET Requests /\ (\A r \in Requests : f[r] \in Nat) /\ \A r \in Requests \ {} : f[r] = 0
      OBVIOUS
    <3> HIDE DEF f
    <3>2. TotalOf(f, {}) = TotalOf(f, Requests)
      BY <3>1, RequestsAreFinite, TotalOfPart
    <3> QED
      BY <3>2 DEF f
  <2> QED
    BY <2>1, <2>2, <2>3, TotalOfNothing
<1>6. Room = PoolSize - 1
  BY <1>4, PoolIsUsable DEF Room
<1>7. 0 <= Budget - 1 + Room * MaxCalls
  <2>1. Room \in Nat /\ 1 <= Room
    BY <1>6, PoolIsUsable
  <2>2. 1 * MaxCalls <= Room * MaxCalls
    BY <2>1, CallsArePositive, ProductsGrow
  <2> QED
    BY <2>2, RoomIsNatural, BudgetIsNatural, CallsArePositive
<1> QED
  BY <1>1, <1>4, <1>5, <1>7, PoolIsUsable DEF SpendInv

LEMMA SpentTodayIsNatural == SpendInv => SpentToday \in Nat
BY SpentInIsTotal, SpentTodayIsSpentIn DEF SpendInv, CostOK

(* What the pipeline makes of a turn asks for no more than the ceiling.    *)
Keeps(t, u) == u.refused = t.refused /\ u.seq = t.seq /\ (u.at = "asking" => u.seq < MaxCalls)

LEMMA AskKeeps ==
  ASSUME NEW t, TurnOK(t), t.seq <= MaxCalls, NEW purpose, NEW tries
  PROVE  Keeps(t, Ask(t, purpose, tries))
BY CallsArePositive DEF Keeps, Ask, Limited, TurnOK, Fields

LEMMA ToChangesKeeps ==
  ASSUME NEW t, TurnOK(t)
  PROVE  Keeps(t, ToChanges(t))
BY DEF Keeps, ToChanges, TurnOK, Fields

LEMMA UnderstoodKeeps ==
  ASSUME NEW t, TurnOK(t)
  PROVE  Keeps(t, Understood(t))
<1>1. Keeps(t, Interpreted(t, t.heard))
  <2> DEFINE sorted == [t EXCEPT !.changes = Changes(t.heard), !.declared = t.heard.kind]
  <2>1. TurnOK(sorted) /\ sorted.seq = t.seq /\ sorted.refused = t.refused
    BY DEF TurnOK, Fields
  <2>2. Keeps(t, [sorted EXCEPT !.at = "reading"])
    BY <2>1 DEF Keeps, TurnOK, Fields
  <2>3. Keeps(t, ToChanges(sorted))
    BY <2>1, ToChangesKeeps DEF Keeps
  <2> QED
    BY <2>2, <2>3 DEF Interpreted
<1>2. Keeps(t, FollowedUp(t, t.heard))
  <2> DEFINE sorted == [t EXCEPT !.changes = @ \o Changes(t.heard)]
             asked == [sorted EXCEPT !.kind = "clarification"]
  <2>1. TurnOK(sorted) /\ sorted.seq = t.seq /\ sorted.refused = t.refused
    BY DEF TurnOK, Fields
  <2>2. TurnOK(asked) /\ asked.seq = t.seq /\ asked.refused = t.refused
    BY <2>1 DEF TurnOK, Fields
  <2>3. Keeps(t, [sorted EXCEPT !.at = "reading"])
    BY <2>1 DEF Keeps, TurnOK, Fields
  <2>4. Keeps(t, ToChanges(sorted)) /\ Keeps(t, ToChanges(asked))
    BY <2>1, <2>2, ToChangesKeeps DEF Keeps
  <2> QED
    BY <2>3, <2>4 DEF FollowedUp
<1>3. Keeps(t, Repaired(t, t.heard)) /\ Keeps(t, Verified(t, t.heard))
  BY DEF Keeps, TurnOK, Repaired, Verified, Fields
<1> QED
  BY <1>1, <1>2, <1>3 DEF Understood, TurnOK, Purposes

LEMMA MisheardKeeps ==
  ASSUME NEW t, TurnOK(t), t.seq <= MaxCalls
  PROVE  Keeps(t, Misheard(t))
<1> DEFINE answered == t.answered \/ t.heard = Unreadable
           marked == [t EXCEPT !.answered = answered]
<1>1. TurnOK(marked) /\ marked.seq = t.seq /\ marked.refused = t.refused
  BY DEF TurnOK, Fields
<1> HIDE DEF marked
<1>2. Keeps(t, Ask(marked, t.purpose, t.tries + 1))
  BY <1>1, AskKeeps DEF Keeps
<1>3. /\ Keeps(t, [t EXCEPT !.at = "closing", !.kind = "clarification", !.why = "unreadable"])
      /\ Keeps(t, [t EXCEPT !.at = "erroring"])
  BY DEF Keeps, TurnOK, Fields
<1> QED
  BY <1>2, <1>3 DEF Misheard, marked

LEMMA OverKeeps ==
  ASSUME NEW r, TurnOK(turn[r])
  PROVE  Over(r).refused = turn[r].refused
BY DEF TurnOK, Over, Fields
-----------------------------------------------------------------------------
LEMMA SpenderGoesOn ==
  ASSUME JournalInv, SpendInv, NEW r \in Requests, NEW u, turn' = [turn EXCEPT ![r] = u],
         GoesOn(turn[r], u), Keeps(turn[r], u), turn[r].at \in Within, UNCHANGED <<turns, spent>>
  PROVE  SpendInv'
<1>1. turn'[r] = u /\ CostOK(r) /\ u.at \in Between
  BY DEF JournalInv, SpendInv, GoesOn
<1>2. CostOK(r)'
  BY <1>1 DEF CostOK, Keeps, Before, Within, Between
<1>3. MayCall(u) => MayCall(turn[r])
  BY <1>1 DEF MayCall, Keeps
<1> QED
  BY <1>2, <1>3, OneSpenderMoves DEF CostsOf

LEMMA SpenderEnds ==
  ASSUME JournalInv, SpendInv, NEW r \in Requests, turn' = [turn EXCEPT ![r] = Over(r)],
         UNCHANGED <<turns, spent>>
  PROVE  SpendInv'
<1> DEFINE u == Over(r)
<1>1. TurnOK(turn[r]) /\ CostOK(r)
  BY DEF JournalInv, AccountOK, SpendInv
<1>2. u.at = "over" /\ u.seq = turn[r].seq /\ u.refused = turn[r].refused /\ turn'[r] = u
  BY <1>1, OverIsDone, OverKeeps DEF JournalInv
<1> HIDE DEF u
<1>3. CostOK(r)'
  BY <1>1, <1>2 DEF CostOK, Before, Within, Between
<1>4. ~MayCall(u) /\ u.at \notin Within
  BY <1>2 DEF MayCall, Within, Between
<1>5. turn' = [turn EXCEPT ![r] = u]
  BY DEF u
<1> QED
  BY <1>3, <1>4, <1>5, OneSpenderMoves DEF CostsOf

LEMMA SpendAdmission ==
  ASSUME JournalInv, SpendInv, NEW r \in Requests,
         Arrive(r) \/ Renew(r) \/ CheckTurn(r) \/ Snapshot(r) \/ Respond(r)
  PROVE  SpendInv'
<1> DEFINE t == turn[r]
           Sent(place) == [t EXCEPT !.at = place]
<1>t. TurnOK(t) /\ CostOK(r) /\ AccountOK(r) /\ UNCHANGED <<turns, spent>>
  BY DEF JournalInv, AccountOK, SpendInv, Arrive, Renew, CheckTurn, Snapshot, Respond
<1>w. ASSUME NEW u, turn' = [turn EXCEPT ![r] = u], u.seq = t.seq, u.refused \in BOOLEAN,
             u.at \in {"renewing", "checking", "opening"} => u.refused = FALSE,
             \/ t.at \in Before /\ u.at \in {"renewing", "checking", "snapshot", "opening", "responding"}
             \/ t.at = "responding" /\ u.at = "committing",
             MayCall(u) => MayCall(t) \/ SpentToday < Budget
      PROVE  SpendInv'
  <2>1. turn'[r] = u
    BY <1>w DEF JournalInv
  <2>2. CostOK(r)'
    <3>1. CASE t.at \in Before
      <4>1. turns[r] = None /\ t.seq = 0
        BY <1>t, <3>1 DEF AccountOK, CostOK
      <4> QED
        BY <1>t, <1>w, <2>1, <3>1, <4>1, CallsArePositive DEF CostOK, Before, Within, Between
    <3>2. CASE t.at = "responding"
      BY <1>t, <1>w, <2>1, <3>2 DEF CostOK, Before, Within, Between
    <3> QED
      BY <1>w, <3>1, <3>2
  <2>3. u.at \notin Within
    BY <1>w DEF Within, Between
  <2> QED
    BY <1>t, <1>w, <2>2, <2>3, OneSpenderMoves DEF CostsOf
<1>1. CASE Arrive(r) \/ Renew(r)
  <2>1. PICK place \in {"renewing", "checking"} : turn' = [turn EXCEPT ![r] = Sent(place)]
    BY <1>1 DEF Arrive, Renew
  <2>2. t.at \in {"off", "renewing"}
    BY <1>1 DEF Arrive, Renew, At
  <2>3. /\ Sent(place).at = place /\ Sent(place).seq = t.seq /\ Sent(place).refused = FALSE
        /\ t.at \in Before
    BY <1>t, <2>2 DEF TurnOK, Fields, CostOK, Before
  <2>4. ~MayCall(Sent(place))
    BY <2>3 DEF MayCall, Within, Between
  <2> HIDE DEF Sent
  <2> QED
    BY <1>w, <2>1, <2>3, <2>4
<1>2. CASE CheckTurn(r)
  <2> DEFINE refusal == [t EXCEPT !.at = "snapshot", !.kind = "refusal", !.refused = TRUE]
             spentOut == ThisHour >= TurnsPerHour \/ SpentToday >= Budget
  <2>1. t.at = "checking"
    BY <1>2 DEF CheckTurn, At
  <2>2. /\ refusal.at = "snapshot" /\ refusal.seq = t.seq /\ refusal.refused = TRUE
        /\ Sent("snapshot").at = "snapshot" /\ Sent("snapshot").seq = t.seq
        /\ Sent("snapshot").refused = FALSE /\ t.at \in Before
    BY <1>t, <2>1 DEF TurnOK, Fields, CostOK, Before
  <2>3. CASE spentOut
    <3>1. turn' = [turn EXCEPT ![r] = refusal]
      BY <1>2, <2>3 DEF CheckTurn
    <3>2. ~MayCall(refusal)
      BY <2>2 DEF MayCall
    <3> HIDE DEF refusal
    <3> QED
      BY <1>w, <2>2, <3>1, <3>2
  <2>4. CASE ~spentOut
    <3>1. turn' = [turn EXCEPT ![r] = Sent("snapshot")]
      BY <1>2, <2>4 DEF CheckTurn
    <3>2. SpentToday < Budget
      BY <2>4, SpentTodayIsNatural, BudgetIsNatural
    <3> HIDE DEF Sent
    <3> QED
      BY <1>w, <2>2, <3>1, <3>2
  <2> QED
    BY <2>3, <2>4
<1>3. CASE Snapshot(r)
  <2> DEFINE u == Sent(IF t.refused THEN "responding" ELSE "opening")
  <2>1. t.at = "snapshot" /\ turn' = [turn EXCEPT ![r] = u]
    BY <1>3 DEF Snapshot, At
  <2>2. t.refused \in BOOLEAN
    BY <1>t DEF CostOK
  <2>3. /\ u.at = (IF t.refused = TRUE THEN "responding" ELSE "opening")
        /\ u.seq = t.seq /\ u.refused = t.refused /\ t.at \in Before
    BY <1>t, <2>1, <2>2 DEF TurnOK, Fields, Before
  <2>4. MayCall(u) => MayCall(t)
    BY <2>1, <2>3 DEF MayCall
  <2> HIDE DEF u
  <2> QED
    BY <1>w, <2>1, <2>2, <2>3, <2>4
<1>4. CASE Respond(r)
  <2>1. t.at = "responding" /\ turn' = [turn EXCEPT ![r] = Sent("committing")]
    BY <1>4 DEF Respond, At
  <2>2. /\ Sent("committing").at = "committing" /\ Sent("committing").seq = t.seq
        /\ Sent("committing").refused = t.refused /\ t.refused \in BOOLEAN
    BY <1>t DEF TurnOK, Fields, CostOK
  <2>3. ~MayCall(Sent("committing"))
    BY <2>2 DEF MayCall, Within, Between
  <2> HIDE DEF Sent
  <2> QED
    BY <1>w, <2>1, <2>2, <2>3
<1> QED
  BY <1>1, <1>2, <1>3, <1>4

LEMMA SpendPipeline ==
  ASSUME JournalInv, SpendInv, NEW r \in Requests,
         Read(r) \/ Dry(r) \/ TakeBook(r) \/ InsertCard(r) \/ RecordCall(r)
  PROVE  SpendInv'
<1> DEFINE t == turn[r]
<1>t. TurnOK(t) /\ CostOK(r) /\ t.seq <= MaxCalls
  BY DEF JournalInv, AccountOK, SpendInv, CostOK
<1>a. t.at \in Within /\ UNCHANGED <<turns, spent>>
  BY DEF Read, Dry, TakeBook, InsertCard, RecordCall, At, Within, Between
<1>p. {"qa", "verify", "repair"} \subseteq Purposes
  BY DEF Purposes
<1>w. ASSUME NEW u, GoesOn(t, u), Keeps(t, u), turn' = [turn EXCEPT ![r] = u]
      PROVE  SpendInv'
  BY <1>a, <1>w, SpenderGoesOn
<1>1. CASE Read(r)
  <2> DEFINE next == [t EXCEPT !.rounds = @ + 1]
             u == Ask(next, "qa", 1)
  <2>1. turn' = [turn EXCEPT ![r] = u]
    BY <1>1 DEF Read
  <2>2. TurnOK(next) /\ next.seq = t.seq /\ next.cost = t.cost /\ next.refused = t.refused
    BY <1>t DEF TurnOK, Fields
  <2> HIDE DEF next
  <2>3. GoesOn(next, u) /\ Keeps(next, u)
    BY <1>p, <1>t, <2>2, AskGoesOn, AskKeeps
  <2>4. GoesOn(t, u) /\ Keeps(t, u)
    BY <2>2, <2>3 DEF GoesOn, Keeps
  <2> HIDE DEF u
  <2> QED
    BY <1>w, <2>1, <2>4
<1>2. CASE Dry(r)
  <2> DEFINE storing == [t EXCEPT !.at = "storing"]
  <2>1. GoesOn(t, storing) /\ Keeps(t, storing)
    BY <1>t DEF GoesOn, Keeps, TurnOK, Fields, Within, Between
  <2>2. /\ GoesOn(t, Ask(t, "verify", 1)) /\ GoesOn(t, Ask(t, "repair", 1))
        /\ Keeps(t, Ask(t, "verify", 1)) /\ Keeps(t, Ask(t, "repair", 1))
    BY <1>t, <1>p, AskGoesOn, AskKeeps
  <2>3. \E u \in {storing, Ask(t, "verify", 1), Ask(t, "repair", 1)} : turn' = [turn EXCEPT ![r] = u]
    BY <1>2 DEF Dry
  <2> HIDE DEF storing
  <2> QED
    BY <1>w, <2>1, <2>2, <2>3
<1>3. CASE TakeBook(r)
  <2> DEFINE asking == [t EXCEPT !.at = "closing", !.kind = "clarification", !.why = "undated"]
             inserting == [t EXCEPT !.at = "inserting"]
  <2>1. GoesOn(t, asking) /\ GoesOn(t, inserting) /\ Keeps(t, asking) /\ Keeps(t, inserting)
    BY <1>t DEF GoesOn, Keeps, TurnOK, Fields, Within, Between
  <2>2. \E u \in {asking, inserting} : turn' = [turn EXCEPT ![r] = u]
    BY <1>3 DEF TakeBook
  <2> HIDE DEF asking, inserting
  <2> QED
    BY <1>w, <2>1, <2>2
<1>4. CASE InsertCard(r)
  <2> DEFINE stored == [t EXCEPT !.at = "closing", !.kind = "proposal", !.card = Tried(t.changes)]
  <2>1. GoesOn(t, stored) /\ Keeps(t, stored)
    BY <1>t DEF GoesOn, Keeps, TurnOK, Fields, Within, Between
  <2>2. turn' = [turn EXCEPT ![r] = stored]
    BY <1>4 DEF InsertCard
  <2> HIDE DEF stored
  <2> QED
    BY <1>w, <2>1, <2>2
<1>5. CASE RecordCall(r)
  <2>1. GoesOn(t, Understood(t)) /\ GoesOn(t, Misheard(t)) /\ Keeps(t, Understood(t)) /\ Keeps(t, Misheard(t))
    BY <1>t, UnderstoodGoesOn, MisheardGoesOn, UnderstoodKeeps, MisheardKeeps
  <2>2. \E u \in {Understood(t), Misheard(t)} : turn' = [turn EXCEPT ![r] = u]
    BY <1>5 DEF RecordCall
  <2> QED
    BY <1>w, <2>1, <2>2
<1> QED
  BY <1>1, <1>2, <1>3, <1>4, <1>5

LEMMA SpendFailures ==
  ASSUME JournalInv, SpendInv, NEW r \in Requests,
         Commit(r) \/ CommitFails(r) \/ PoolTimeout(r) \/ Busy(r)
  PROVE  SpendInv'
<1> DEFINE t == turn[r]
           failed == [t EXCEPT !.at = "erroring"]
<1>t. TurnOK(t)
  BY DEF JournalInv, AccountOK
<1>1. \/ turn' = [turn EXCEPT ![r] = Over(r)] /\ UNCHANGED <<turns, spent>>
      \/ turn' = [turn EXCEPT ![r] = failed] /\ UNCHANGED <<turns, spent>> /\ t.at \in Within
  <2>1. CASE Commit(r) \/ CommitFails(r)
    BY <2>1 DEF Commit, CommitFails, RollBack
  <2>2. CASE PoolTimeout(r)
    BY <2>2 DEF PoolTimeout, RollBack, At, Within
  <2>3. CASE Busy(r)
    BY <2>3 DEF Busy, RollBack, At, WantsBook, Within, Between
  <2> QED
    BY <2>1, <2>2, <2>3
<1>2. GoesOn(t, failed) /\ Keeps(t, failed)
  BY <1>t DEF GoesOn, Keeps, TurnOK, Fields, Within, Between
<1> HIDE DEF failed
<1> QED
  BY <1>1, <1>2, SpenderEnds, SpenderGoesOn

LEMMA SpendCalls ==
  ASSUME JournalInv, SpendInv, NEW r \in Requests,
         NEW answer \in Answers \cup {Unreadable, Unreachable}, Complete(r, answer)
  PROVE  SpendInv'
<1> DEFINE t == turn[r]
           charge == IF answer = Unreachable THEN 0 ELSE 1
           u == [t EXCEPT !.at = "recording", !.heard = answer, !.seq = @ + 1, !.cost = @ + charge]
           wanted == IF answer \in Answers /\ t.purpose \in {"interpret", "qa"}
                     THEN spent[r].wanted \o Changes(answer) ELSE spent[r].wanted
<1>t. TurnOK(t) /\ CostOK(r) /\ AccountOK(r)
  BY DEF JournalInv, AccountOK, SpendInv
<1>1. /\ t.at = "asking" /\ UNCHANGED turns /\ turn' = [turn EXCEPT ![r] = u]
      /\ spent' = [spent EXCEPT ![r] = [calls |-> spent[r].calls + charge, wanted |-> wanted]]
  BY DEF Complete, AddedUp, At
<1>2. u.at = "recording" /\ u.seq = t.seq + 1 /\ u.refused = t.refused
  BY <1>t DEF TurnOK, Fields
<1>3. charge \in {0, 1}
  OBVIOUS
<1> HIDE DEF u, wanted, charge
<1>4. turn'[r] = u /\ spent'[r].calls = spent[r].calls + charge
  BY <1>1 DEF JournalInv
<1>5. turns[r] = Running /\ turns[r] # None
  BY <1>t, <1>1, NoneIsNoRow DEF AccountOK, Within, Between, Running, Outcomes
<1>6. /\ t.seq \in Nat /\ spent[r].calls \in Nat /\ spent[r].calls <= t.seq /\ t.seq < MaxCalls
      /\ t.refused = FALSE
  BY <1>t, <1>1 DEF TurnOK, CostOK, Within, Between
<1>7. CostOK(r)'
  <2>1. /\ spent[r].calls + charge \in Nat /\ spent[r].calls + charge <= t.seq + 1
        /\ t.seq + 1 <= MaxCalls
    BY <1>3, <1>6, CallsArePositive
  <2>2. u.refused \in BOOLEAN /\ u.refused = FALSE
    BY <1>2, <1>6
  <2>3. turns'[r] = Running /\ Running \in [outcome : Outcomes, cost : Nat]
    BY <1>1, <1>5 DEF Running, Outcomes
  <2> QED
    BY <1>1, <1>2, <1>4, <1>5, <2>1, <2>2, <2>3 DEF CostOK, Running, Before
<1>8. MayCall(t) /\ t.at \in Within
  BY <1>1, <1>6 DEF MayCall, Within, Between
<1>9. \A q \in Requests \ {r} : turns'[q] = turns[q] /\ spent'[q] = spent[q]
  BY <1>1
<1> QED
  BY <1>1, <1>7, <1>8, <1>9, OneSpenderMoves DEF CostsOf

LEMMA SpendJournalling ==
  ASSUME JournalInv, CarryInv, SpendInv, NEW r \in Requests,
         OpenJournal(r) \/ CloseJournal(r) \/ CloseQuietly(r)
  PROVE  SpendInv'
<1> DEFINE t == turn[r]
<1>t. TurnOK(t) /\ CostOK(r) /\ AccountOK(r)
  BY DEF JournalInv, AccountOK, SpendInv
<1>n. Running # None /\ Running \in [outcome : Outcomes, cost : Nat]
  BY NoneIsNoRow DEF Running, Outcomes
<1>1. CASE OpenJournal(r)
  <2> DEFINE u == [t EXCEPT !.at = "asking", !.tries = 1]
  <2>1. /\ t.at = "opening" /\ UNCHANGED spent /\ turns' = [turns EXCEPT ![r] = Running]
        /\ turn' = [turn EXCEPT ![r] = u] /\ FreeConnection
    BY <1>1 DEF OpenJournal, Running, At
  <2>2. u.at = "asking" /\ u.seq = t.seq /\ u.refused = t.refused
    BY <1>t DEF TurnOK, Fields
  <2> HIDE DEF u
  <2>3. turn'[r] = u /\ turns'[r] = Running /\ turns[r] = None
    BY <1>t, <2>1 DEF JournalInv, AccountOK, Before
  <2>4. CostOK(r)'
    BY <1>n, <1>t, <2>1, <2>2, <2>3 DEF CostOK, Running, Before
  <2>5. CostsOf(turns')[r] = CostsOf(turns)[r]
    BY <1>n, <2>3 DEF CostsOf, Running
  <2>6. MayCall(t) /\ InFlight(r)
    BY <1>t, <2>1 DEF MayCall, CostOK, InFlight
  <2>7. \A q \in Requests \ {r} : turns'[q] = turns[q] /\ spent'[q] = spent[q]
    BY <2>1 DEF JournalInv
  <2> QED
    BY <2>1, <2>4, <2>5, <2>6, <2>7, OneSpenderMoves
<1>2. ASSUME NEW u, NEW outcome \in Outcomes, turn' = [turn EXCEPT ![r] = u], UNCHANGED spent,
             u.at \in Done, u.seq = t.seq, u.refused = t.refused, t.at \in Within,
             outcome # "running", FreeConnection,
             turns' = [turns EXCEPT ![r].outcome = outcome, ![r].cost = t.cost]
      PROVE  SpendInv'
  <2>1. turns[r] = Running /\ t.cost = spent[r].calls
    BY <1>t, <1>2 DEF AccountOK
  <2>2. turns'[r] = [outcome |-> outcome, cost |-> t.cost] /\ turn'[r] = u
    BY <1>2, <2>1 DEF JournalInv, Running
  <2>3. t.cost \in Nat /\ t.cost <= MaxCalls
    BY <1>t, <2>1, CallsArePositive DEF CostOK, TurnOK
  <2>4. CostOK(r)'
    <3>1. turns'[r] \in [outcome : Outcomes, cost : Nat] /\ turns'[r].outcome # "running"
      <4>1. turns'[r].outcome = outcome
        BY <2>2
      <4>2. [outcome |-> outcome, cost |-> t.cost] \in [outcome : Outcomes, cost : Nat]
        BY <1>2, <2>3
      <4> QED
        BY <1>2, <2>2, <4>1, <4>2
    <3>2. turns'[r] # None
      BY <3>1, NoneIsNoRow
    <3> QED
      BY <1>t, <1>2, <2>2, <3>1, <3>2 DEF CostOK, Before, Within, Between, Done
  <2>5. CostsOf(turns)[r] = 0
    BY <1>n, <2>1 DEF CostsOf, Running
  <2>6. CostsOf(turns')[r] <= MaxCalls
    BY <2>2, <2>3, CallsArePositive DEF CostsOf
  <2>7. \A q \in Requests \ {r} : turns'[q] = turns[q] /\ spent'[q] = spent[q]
    BY <1>2 DEF JournalInv
  <2> QED
    BY <1>2, <2>4, <2>5, <2>6, <2>7, OneSpenderCloses
<1>3. CASE CloseJournal(r)
  <2> DEFINE u == [t EXCEPT !.at = "responding"]
             outcome == OutcomeOf(t)
  <2>1. u.at \in Done /\ u.seq = t.seq /\ u.refused = t.refused
    BY <1>t DEF TurnOK, Fields, Done
  <2>2. /\ t.at \in Within /\ UNCHANGED spent /\ turn' = [turn EXCEPT ![r] = u] /\ FreeConnection
        /\ turns' = [turns EXCEPT ![r].outcome = outcome, ![r].cost = t.cost]
    BY <1>3 DEF CloseJournal, At, Within, Between
  <2>3. outcome \in Outcomes /\ outcome # "running"
    <3>1. t.kind \in Kinds \cup {"proposal"}
      BY DEF CarryInv, CarryOK, Carries, Listed
    <3> QED
      BY <3>1 DEF OutcomeOf, Kinds, Outcomes
  <2> HIDE DEF u, outcome
  <2> QED
    BY <1>2, <2>1, <2>2, <2>3
<1>4. CASE CloseQuietly(r)
  <2>1. /\ t.at \in Within /\ UNCHANGED spent /\ turn' = [turn EXCEPT ![r] = Over(r)] /\ FreeConnection
        /\ turns' = [turns EXCEPT ![r].outcome = "failed", ![r].cost = t.cost]
    BY <1>4 DEF CloseQuietly, At, Within, Between
  <2>2. Over(r).at \in Done /\ Over(r).seq = t.seq /\ Over(r).refused = t.refused
        /\ "failed" \in Outcomes
    BY <1>t, OverIsDone, OverKeeps DEF Done, Outcomes
  <2> QED
    BY <1>2, <2>1, <2>2
<1> QED
  BY <1>1, <1>3, <1>4

LEMMA SpendStep == JournalInv /\ CarryInv /\ SpendInv /\ [Next]_vars => SpendInv'
<1> SUFFICES ASSUME JournalInv, CarryInv, SpendInv, [Next]_vars PROVE SpendInv'
  OBVIOUS
<1>1. CASE UNCHANGED vars \/ OtherTakes \/ OtherGives
  <2>1. turn' = turn /\ turns' = turns /\ spent' = spent
    BY <1>1 DEF vars, OtherTakes, OtherGives
  <2>2. SpentToday' = SpentToday
    BY <2>1, SpentTodayIsSpentIn
  <2>3. Open' = Open /\ Admitted' = Admitted /\ Room' = Room
    BY <2>1 DEF Open, Admitted, Room
  <2>4. \A r \in Requests : CostOK(r)'
    BY <2>1 DEF SpendInv, CostOK
  <2> QED
    BY <2>2, <2>3, <2>4 DEF SpendInv
<1>2. ASSUME NEW r \in Requests, Arrive(r) \/ Step(r) \/ Busy(r) \/ CommitFails(r)
      PROVE  SpendInv'
  BY <1>2, SpendAdmission, SpendPipeline, SpendFailures, SpendCalls, SpendJournalling DEF Step
<1> QED
  BY <1>1, <1>2 DEF Next

LEMMA ProductsAdd ==
  ASSUME NEW a \in Nat, NEW b \in Nat, NEW m \in Nat
  PROVE  (a + b) * m = a * m + b * m
OBVIOUS

(* What the turns that are not lost have cost, against the rows and those  *)
(* still open.                                                             *)
LEMMA ChargesAgainstRows ==
  ASSUME JournalInv, SpendInv
  PROVE  /\ MapThenSumSet(LAMBDA r : spent[r].calls, {r \in Requests : ~Lost(r)})
               <= SpentToday + Cardinality(Open) * MaxCalls
         /\ MapThenSumSet(LAMBDA r : spent[r].calls, {r \in Requests : ~Lost(r)}) \in Int
<1> DEFINE S == {r \in Requests : ~Lost(r)}
           f == [r \in Requests |-> spent[r].calls]
           g == CostsOf(turns)
           Adding(F) == [s \in SUBSET S |-> IF s = {} THEN 0 ELSE spent[Pick(s)].calls + F[Rest(s)]]
           G == CHOOSE F : F = Adding(F)
<1>f. IsFiniteSet(S) /\ S \in SUBSET Requests
  BY RequestsAreFinite, FS_Subset
<1>1. \A s \in SUBSET S : s # {} => f[Pick(s)] = spent[Pick(s)].calls
  BY PickIn
<1>2. \A F : F = Adding(F) <=> AreTotals(F, f, S)
  BY <1>1 DEF AreTotals, Adds
<1>3. MapThenSumSet(LAMBDA r : spent[r].calls, S) = G[S]
  BY DEF MapThenSumSet, MapThenFoldSet, Pick, Rest
<1>4. \A r \in S : f[r] <= g[r] + (IF r \in Open THEN MaxCalls ELSE 0)
  <2> SUFFICES ASSUME NEW r \in S
               PROVE  f[r] <= g[r] + (IF r \in Open THEN MaxCalls ELSE 0)
    OBVIOUS
  <2>1. /\ CostOK(r) /\ AccountOK(r) /\ f[r] = spent[r].calls /\ spent[r].calls \in Nat
        /\ g[r] = IF turns[r] = None THEN 0 ELSE turns[r].cost
        /\ g[r] \in Nat
    BY DEF SpendInv, JournalInv, CostOK, CostsOf
  <2>2. CASE r \in Open
    <3>1. spent[r].calls <= MaxCalls
      BY <2>1, CallsArePositive DEF CostOK, AccountOK, TurnOK
    <3> QED
      BY <2>1, <2>2, <3>1, CallsArePositive
  <2>3. CASE r \notin Open
    <3>1. turns[r] # None => turns[r].cost = spent[r].calls
      <4>1. turn[r].at \in Before \cup Done
        BY <2>1, <2>3 DEF AccountOK, TurnOK, Open
      <4>2. CASE turn[r].at \in Before
        BY <2>1, <4>2 DEF AccountOK
      <4>3. CASE turn[r].at \in Done
        <5>1. turns[r] # None => turns[r].outcome # "running"
          BY <2>1, <4>3 DEF CostOK, Done, Lost
        <5> QED
          BY <2>1, <4>3, <5>1 DEF AccountOK
      <4> QED
        BY <4>1, <4>2, <4>3
    <3>2. turns[r] = None => spent[r].calls = 0
      BY <2>1 DEF CostOK
    <3> QED
      BY <2>1, <2>3, <3>1, <3>2
  <2> QED
    BY <2>2, <2>3
<1>5. (\A r \in S : f[r] \in Int /\ g[r] \in Int) /\ \A r \in Requests : g[r] \in Nat
  BY DEF SpendInv, CostOK, CostsOf
<1>6. SpentToday = TotalOf(g, Requests) /\ SpentToday \in Nat
  BY SpentInIsTotal, SpentTodayIsSpentIn DEF SpendInv, CostOK
<1> HIDE DEF f, g
<1>7. AreTotals(G, f, S)
  <2> HIDE DEF Adding
  <2>1. \E F : F = Adding(F)
    BY <1>2, <1>f, TotalsExist
  <2>2. G = Adding(G)
    BY <2>1
  <2> QED
    BY <1>2, <2>2
<1> HIDE DEF G
<1>8. G[S] = TotalOf(f, S)
  BY <1>7, <1>f, TotalUnfolds, SolutionsAgree
<1>k. MapThenSumSet(LAMBDA r : spent[r].calls, {r \in Requests : ~Lost(r)}) = TotalOf(f, S)
  BY <1>3, <1>8
<1> HIDE DEF S
<1>9. MaxCalls \in Int /\ MaxCalls \in Nat
  BY CallsArePositive
<1>10. TotalOf(f, S) <= TotalOf(g, S) + Cardinality(S \cap Open) * MaxCalls
  BY <1>4, <1>5, <1>9, <1>f, TotalsCompare
<1>11. TotalOf(g, S) \in Nat /\ TotalOf(g, S) <= SpentToday
  BY <1>5, <1>6, <1>f, RequestsAreFinite, TotalOfPart
<1>12. Cardinality(S \cap Open) \in Nat /\ Cardinality(S \cap Open) <= Cardinality(Open)
  <2>1. S \cap Open \in SUBSET Open
    OBVIOUS
  <2> QED
    BY <2>1, Crowds, FS_Subset, FS_CardinalityType
<1>13. /\ Cardinality(S \cap Open) * MaxCalls <= Cardinality(Open) * MaxCalls
       /\ Cardinality(S \cap Open) * MaxCalls \in Nat /\ Cardinality(Open) * MaxCalls \in Nat
  BY <1>9, <1>12, Crowds, ProductsGrow
<1>14. TotalOf(f, S) \in Int
  BY <1>5, <1>f, TotalIsInt
<1>15. TotalOf(f, S) <= SpentToday + Cardinality(Open) * MaxCalls
  BY <1>6, <1>10, <1>11, <1>13, <1>14
<1> QED
  BY <1>14, <1>15, <1>k

(* SPEC 8, the daily budget: it is read before the first call of a turn    *)
(* only, so a day may overrun it, but never by more than the calls of as   *)
(* many turns as the pool lets run beside one that waits.                  *)
THEOREM DaysStayWithinBudget == Spec => []SpendIsBounded
<1>1. ASSUME JournalInv, SpendInv
      PROVE  MapThenSumSet(LAMBDA r : spent[r].calls, {r \in Requests : ~Lost(r)})
               <= Budget - 1 + (PoolSize - 1) * MaxCalls
  <2> DEFINE total == MapThenSumSet(LAMBDA r : spent[r].calls, {r \in Requests : ~Lost(r)})
             open == Cardinality(Open)
             admitted == Cardinality(Admitted)
  <2>1. total <= SpentToday + open * MaxCalls /\ total \in Int
    BY <1>1, ChargesAgainstRows
  <2>2. /\ SpentToday <= Budget - 1 + Room * MaxCalls /\ open <= PoolSize - 1
        /\ SpentToday \in Nat /\ open \in Nat /\ admitted \in Nat /\ MaxCalls \in Nat
        /\ PoolSize - 1 \in Nat /\ Budget \in Nat /\ Room \in Nat
    BY <1>1, SpentTodayIsNatural, Crowds, RoomIsNatural, PoolIsUsable, CallsArePositive, BudgetIsNatural
       DEF SpendInv
  <2>3. open <= admitted
    <3>1. Open \in SUBSET Admitted
      BY <1>1 DEF SpendInv, CostOK, Open, Admitted, MayCall
    <3> QED
      BY <3>1, Crowds, FS_Subset
  <2>4. Room + open \in Nat /\ Room + open <= PoolSize - 1
    BY <2>2, <2>3, PoolIsUsable DEF Room
  <2> HIDE DEF total, open
  <2>5. /\ Room * MaxCalls + open * MaxCalls <= (PoolSize - 1) * MaxCalls
        /\ Room * MaxCalls \in Nat /\ open * MaxCalls \in Nat /\ (PoolSize - 1) * MaxCalls \in Nat
    BY <2>2, <2>4, ProductsGrow, ProductsAdd
  <2>6. total <= Budget - 1 + (PoolSize - 1) * MaxCalls
    BY <2>1, <2>2, <2>5
  <2> QED
    BY <2>6 DEF total
<1>2. JournalInv /\ SpendInv => SpendIsBounded
  BY <1>1 DEF SpendIsBounded
<1> QED
  BY <1>2, InitJournal, JournalStep, InitCarries, CarryStep, InitSpends, SpendStep, PTL DEF Spec
=============================================================================
