-------------------------- MODULE ProposalsProofs --------------------------
(***************************************************************************)
(* Theorems about Proposals, for any requests, cards and edits, with or    *)
(* without faults: what an accept makes of the book is what the card's dry *)
(* run showed.                                                             *)
(***************************************************************************)
EXTENDS Proposals, TLAPS

(* A row of the table; two rows of one card, which differ in their status. *)
Row(x) == x = [status |-> x.status, stamp |-> x.stamp, ops |-> x.ops, supersedes |-> x.supersedes]
SameCard(x, y) == x.stamp = y.stamp /\ x.ops = y.ops

(* The one assumption: no row is taken for None.                           *)
NoneIsNoRow ==
    \A status, stamp, ops, supersedes :
        [status |-> status, stamp |-> stamp, ops |-> ops, supersedes |-> supersedes] # None

Resolving == {"accept", "discard card"}

(* The card c was applied; a row x of it says so only then.                *)
Done(c) == \E a \in applied : a.card = c
SaysTrue(x, c) == x.status = "accepted" => Done(c)

(* What holds of one request: the card it resolves is there, with the      *)
(* operations it read; and of a card that is there it has only a new       *)
(* status to write.  It has rows of its own only when it is on its way out.*)
RequestOK(r) ==
    /\ DOMAIN req[r] = {"kind", "at", "card", "ops", "sweep", "writes"}
    /\ DOMAIN req[r].writes = Cards
    /\ req[r].sweep \subseteq Cards
    /\ req[r].at \in {"expiring", "marking"} => req[r].kind \in Resolving
    /\ req[r].at = "marking" => Done(req[r].card)
    /\ req[r].at # "idle" /\ req[r].kind \in Resolving =>
          /\ req[r].card \in Cards
          /\ cards[req[r].card] # None
          /\ cards[req[r].card].ops = req[r].ops
    /\ \A c \in Cards : req[r].writes[c] # None =>
          /\ Row(req[r].writes[c]) /\ SaysTrue(req[r].writes[c], c)
          /\ cards[c] # None => SameCard(req[r].writes[c], cards[c])
          /\ cards[c] = None => req[r].at \in {"leaving", "committing"}

(* A card is named once: a new one is in one transaction only.             *)
NewIsNew ==
    \A c \in Cards : cards[c] = None =>
        \A q, r \in Requests : req[q].writes[c] # None /\ req[r].writes[c] # None => q = r

CardsInv ==
    /\ DOMAIN book = {"rev", "head", "now"}
    /\ DOMAIN cards = Cards /\ DOMAIN req = Requests
    /\ \A c \in Cards : cards[c] # None => Row(cards[c]) /\ SaysTrue(cards[c], c)
    /\ \A r \in Requests : RequestOK(r)
    /\ NewIsNew
    /\ \A a \in applied :
          a.card \in Cards /\ cards[a.card] # None /\ a.gave = Outcome(cards[a.card])

LEMMA IdleHasNothing ==
    /\ DOMAIN Idle = {"kind", "at", "card", "ops", "sweep", "writes"}
    /\ Idle.kind = "none" /\ Idle.at = "idle" /\ Idle.sweep = {}
    /\ DOMAIN Idle.writes = Cards /\ \A c \in Cards : Idle.writes[c] = None
<1>1. DOMAIN Idle = {"kind", "at", "card", "ops", "sweep", "writes"}
  BY DEF Idle
<1>2. Idle.kind = "none" /\ Idle.at = "idle" /\ Idle.sweep = {}
  BY DEF Idle
<1>3. DOMAIN Idle.writes = Cards /\ \A c \in Cards : Idle.writes[c] = None
  BY DEF Idle
<1> QED
  BY <1>1, <1>2, <1>3

LEMMA InitCards == Init => CardsInv
<1> SUFFICES ASSUME Init PROVE CardsInv
  OBVIOUS
<1>1. ASSUME NEW r \in Requests PROVE RequestOK(r)
  BY IdleHasNothing DEF Init, RequestOK, Resolving
<1>2. NewIsNew
  BY IdleHasNothing DEF Init, NewIsNew
<1> QED
  BY <1>1, <1>2 DEF Init, CardsInv

(* A step of request r that changes no row of the table.                   *)
LEMMA OneRequestMoves ==
  ASSUME CardsInv, NEW r \in Requests, NEW u, req' = [req EXCEPT ![r] = u],
         UNCHANGED <<cards, applied>>, DOMAIN book' = DOMAIN book, RequestOK(r)',
         \A c \in Cards : u.writes[c] # None /\ cards[c] = None =>
            \A q \in Requests \ {r} : req[q].writes[c] = None
  PROVE  CardsInv'
<1>1. req'[r] = u /\ \A q \in Requests \ {r} : req'[q] = req[q]
  BY DEF CardsInv
<1>2. \A q \in Requests \ {r} : RequestOK(q)'
  BY <1>1 DEF CardsInv, RequestOK, SaysTrue, Done
<1>3. NewIsNew'
  BY <1>1 DEF CardsInv, NewIsNew
<1> QED
  BY <1>1, <1>2, <1>3 DEF CardsInv, Outcome, SaysTrue, Done

(* A request goes on; its rows are as they were.                           *)
LEMMA GoingOn ==
  ASSUME CardsInv, NEW r \in Requests, NEW place,
         Goto(r, place), UNCHANGED <<cards, applied>>, DOMAIN book' = DOMAIN book,
         ~At(r, "idle"), place \notin {"expiring", "marking"},
         req[r].at \in {"leaving", "committing"} => place \in {"leaving", "committing"}
  PROVE  CardsInv'
<1> DEFINE u == [req[r] EXCEPT !.at = place]
<1>1. RequestOK(r)
  BY DEF CardsInv
<1>2. req' = [req EXCEPT ![r] = u] /\ DOMAIN u = DOMAIN req[r] /\ u.at = place
      /\ u.kind = req[r].kind /\ u.card = req[r].card /\ u.ops = req[r].ops
      /\ u.sweep = req[r].sweep /\ u.writes = req[r].writes
  BY <1>1 DEF Goto, RequestOK
<1> HIDE DEF u
<1>3. req'[r] = u
  BY <1>2 DEF CardsInv
<1>4. RequestOK(r)'
  BY <1>1, <1>2, <1>3 DEF RequestOK, At, SaysTrue, Done
<1>5. ASSUME NEW c \in Cards, u.writes[c] # None, cards[c] = None, NEW q \in Requests \ {r}
      PROVE  req[q].writes[c] = None
  BY <1>2, <1>5 DEF CardsInv, NewIsNew
<1> QED
  BY <1>2, <1>4, <1>5, OneRequestMoves

(* A request is over, and its rows with it.                                *)
LEMMA BeingOver ==
  ASSUME CardsInv, NEW r \in Requests, Over(r), UNCHANGED <<cards, applied>>,
         DOMAIN book' = DOMAIN book
  PROVE  CardsInv'
<1>1. req' = [req EXCEPT ![r] = Idle] /\ req'[r] = Idle
  BY DEF Over, CardsInv
<1>2. RequestOK(r)'
  BY <1>1, IdleHasNothing DEF RequestOK, Resolving
<1> QED
  BY <1>1, <1>2, IdleHasNothing, OneRequestMoves

LEMMA Arriving ==
  ASSUME CardsInv, NEW r \in Requests,
         \/ \E ops \in Edits : Arrive(r, "edit", ops)
         \/ \E kind \in Kinds \cap {"save", "discard", "activate"} : Arrive(r, kind, <<>>)
         \/ \E kind \in Kinds \cap {"accept", "discard card"}, c \in Cards : Resolve(r, kind, c)
  PROVE  CardsInv'
<1>1. ASSUME NEW kind, kind \notin Resolving, NEW ops, Arrive(r, kind, ops) PROVE CardsInv'
  <2> DEFINE u == [Idle EXCEPT !.kind = kind, !.ops = ops, !.at = "waiting"]
  <2>1. /\ DOMAIN u = DOMAIN Idle /\ u.kind = kind /\ u.at = "waiting"
        /\ u.sweep = Idle.sweep /\ u.writes = Idle.writes
    BY IdleHasNothing
  <2>2. req' = [req EXCEPT ![r] = u] /\ UNCHANGED <<book, cards, applied>>
    BY <1>1 DEF Arrive
  <2> HIDE DEF u
  <2>3. req'[r] = u
    BY <2>2 DEF CardsInv
  <2>4. RequestOK(r)'
    BY <1>1, <2>1, <2>2, <2>3, IdleHasNothing DEF RequestOK
  <2>5. \A c \in Cards : u.writes[c] = None
    BY <2>1, IdleHasNothing
  <2>6. DOMAIN book' = DOMAIN book /\ UNCHANGED <<cards, applied>>
    BY <2>2
  <2> QED
    BY <2>2, <2>4, <2>5, <2>6, OneRequestMoves
<1>2. ASSUME NEW kind \in Resolving, NEW c \in Cards, Resolve(r, kind, c) PROVE CardsInv'
  <2>1. PICK place \in {"expiring", "waiting"} :
            req' = [req EXCEPT ![r] = [Idle EXCEPT !.kind = kind, !.card = c, !.ops = cards[c].ops,
                                                   !.at = place]]
    BY <1>2 DEF Resolve
  <2> DEFINE u == [Idle EXCEPT !.kind = kind, !.card = c, !.ops = cards[c].ops, !.at = place]
  <2>2. /\ DOMAIN u = DOMAIN Idle /\ u.kind = kind /\ u.at = place /\ u.card = c
        /\ u.ops = cards[c].ops /\ u.sweep = Idle.sweep /\ u.writes = Idle.writes
    BY IdleHasNothing
  <2>3. UNCHANGED <<book, cards, applied>> /\ cards[c] # None
    BY <1>2 DEF Resolve
  <2> HIDE DEF u
  <2>4. req' = [req EXCEPT ![r] = u] /\ req'[r] = u
    BY <2>1 DEF CardsInv, u
  <2>5. \A d \in Cards : u.writes[d] = None
    BY <2>2, IdleHasNothing
  <2>6. DOMAIN book' = DOMAIN book /\ UNCHANGED <<cards, applied>> /\ cards' = cards
    BY <2>3
  <2>7. DOMAIN u = {"kind", "at", "card", "ops", "sweep", "writes"}
        /\ DOMAIN u.writes = Cards /\ u.sweep \subseteq Cards
    BY <2>2, IdleHasNothing
  <2>8. RequestOK(r)'
    BY <1>2, <2>2, <2>3, <2>4, <2>5, <2>6, <2>7 DEF RequestOK
  <2> QED
    BY <2>4, <2>5, <2>6, <2>8, OneRequestMoves
<1>3. "edit" \notin Resolving /\ {"save", "discard", "activate"} \cap Resolving = {}
  BY DEF Resolving
<1> QED
  BY <1>1, <1>2, <1>3 DEF Resolving

(* The book is taken, saved, put back or let go.                           *)
LEMMA Working ==
  ASSUME CardsInv, NEW r \in Requests,
         \/ TakeLock(r) \/ Save(r) \/ DiscardOverlay(r) \/ Activate(r) \/ SweepDone(r) \/ Leave(r)
  PROVE  CardsInv'
<1>1. CASE TakeLock(r)
  <2>1. ~At(r, "idle") /\ req[r].at \notin {"leaving", "committing"}
    BY <1>1 DEF TakeLock, At
  <2> QED
    BY <1>1, <2>1, GoingOn DEF TakeLock
<1>2. CASE Save(r) \/ DiscardOverlay(r) \/ Activate(r)
  <2>1. ~At(r, "idle") /\ req[r].at \notin {"leaving", "committing"}
    BY <1>2 DEF Save, DiscardOverlay, Activate, At
  <2>2. Goto(r, "superseding") /\ UNCHANGED <<cards, applied>> /\ DOMAIN book' = DOMAIN book
    BY <1>2 DEF Save, DiscardOverlay, Activate
  <2> QED
    BY <2>1, <2>2, GoingOn
<1>3. CASE SweepDone(r) \/ Leave(r)
  <2>1. ~At(r, "idle")
    BY <1>3 DEF SweepDone, Leave, At
  <2>2. Goto(r, "leaving") \/ Goto(r, "committing")
    BY <1>3 DEF SweepDone, Leave
  <2>3. UNCHANGED <<book, cards, applied>>
    BY <1>3 DEF SweepDone, Leave
  <2> QED
    BY <2>1, <2>2, <2>3, GoingOn
<1> QED
  BY <1>1, <1>2, <1>3
-----------------------------------------------------------------------------
(* Rows are written.                                                       *)

LEMMA MarkedIsSame ==
  ASSUME CardsInv, NEW c \in Cards, cards[c] # None, NEW status
  PROVE  /\ Row(Marked(c, status)) /\ SameCard(Marked(c, status), cards[c])
         /\ Marked(c, status).status = status
<1>1. Row(cards[c])
  BY DEF CardsInv
<1>2. Marked(c, status) = [status |-> status, stamp |-> cards[c].stamp, ops |-> cards[c].ops,
                           supersedes |-> cards[c].supersedes]
  BY <1>1 DEF Marked, Row
<1> QED
  BY <1>2 DEF Row, SameCard

LEMMA CardIsRow ==
  \A status, ops, supersedes : /\ Row(Card(status, ops, supersedes))
                                /\ Card(status, ops, supersedes).status = status
BY DEF Row, Card

(* A request writes a new status of a card that is there, or a new card on *)
(* its way out.                                                            *)
LEMMA RowsWritten ==
  ASSUME CardsInv, NEW r \in Requests, NEW u, req' = [req EXCEPT ![r] = u],
         UNCHANGED <<cards, applied>>, DOMAIN book' = DOMAIN book,
         DOMAIN u = DOMAIN req[r], DOMAIN u.writes = Cards, u.sweep \subseteq Cards,
         u.kind = req[r].kind, u.card = req[r].card, u.ops = req[r].ops,
         req[r].at \notin {"idle", "leaving", "committing"},
         u.at \in {"superseding", "sweeping", "leaving"},
         \A c \in Cards : u.writes[c] # None =>
            \/ u.writes[c] = req[r].writes[c]
            \/ /\ cards[c] # None /\ Row(u.writes[c])
               /\ SameCard(u.writes[c], cards[c]) /\ SaysTrue(u.writes[c], c)
            \/ Fresh(c) /\ Row(u.writes[c]) /\ SaysTrue(u.writes[c], c) /\ u.at = "leaving"
  PROVE  CardsInv'
<1>1. RequestOK(r) /\ req'[r] = u
  BY DEF CardsInv
<1>2. ASSUME NEW c \in Cards, u.writes[c] # None
      PROVE  /\ Row(u.writes[c]) /\ SaysTrue(u.writes[c], c)
             /\ cards[c] # None => SameCard(u.writes[c], cards[c])
             /\ cards[c] = None => Fresh(c) /\ u.at = "leaving"
  BY <1>1, <1>2 DEF RequestOK, Fresh
<1>3. RequestOK(r)'
  BY <1>1, <1>2 DEF RequestOK, SaysTrue, Done
<1>4. ASSUME NEW c \in Cards, u.writes[c] # None, cards[c] = None, NEW q \in Requests \ {r}
      PROVE  req[q].writes[c] = None
  BY <1>2, <1>4 DEF Fresh
<1> QED
  BY <1>3, <1>4, OneRequestMoves

LEMMA Marking ==
  ASSUME CardsInv, NEW r \in Requests,
         DiscardCard(r) \/ MarkAccepted(r) \/ StartSweep(r) \/ SupersedeNext(r)
  PROVE  CardsInv'
<1>r. RequestOK(r)
  BY DEF CardsInv
<1>1. ASSUME NEW status, NEW place \in {"superseding", "leaving"},
             Write(r, req[r].card, Marked(req[r].card, status), place),
             UNCHANGED <<book, cards, applied>>, req[r].kind \in Resolving,
             req[r].at \in {"locked", "marking"}, status = "accepted" => Done(req[r].card)
      PROVE  CardsInv'
  <2> DEFINE c == req[r].card
             row == Marked(c, status)
             u == [req[r] EXCEPT !.writes[c] = row, !.at = place]
  <2>1. c \in Cards /\ cards[c] # None
    BY <1>r, <1>1 DEF RequestOK
  <2>2. Row(row) /\ SameCard(row, cards[c]) /\ SaysTrue(row, c)
    BY <1>1, <2>1, MarkedIsSame DEF SaysTrue
  <2>3. req' = [req EXCEPT ![r] = u]
    BY <1>1 DEF Write
  <2> HIDE DEF c, row
  <2>4. /\ DOMAIN u = DOMAIN req[r] /\ u.writes = [req[r].writes EXCEPT ![c] = row]
        /\ u.at = place /\ u.kind = req[r].kind /\ u.card = req[r].card
        /\ u.ops = req[r].ops /\ u.sweep = req[r].sweep
    BY <1>r DEF RequestOK
  <2> HIDE DEF u
  <2>5. DOMAIN u.writes = Cards /\ u.sweep \subseteq Cards
    BY <1>r, <2>4 DEF RequestOK
  <2>6. \A d \in Cards : u.writes[d] = IF d = c THEN row ELSE req[r].writes[d]
    BY <1>r, <2>4 DEF RequestOK
  <2>7. DOMAIN book' = DOMAIN book /\ UNCHANGED <<cards, applied>>
    BY <1>1
  <2>8. \A d \in Cards : u.writes[d] # None =>
            \/ u.writes[d] = req[r].writes[d]
            \/ /\ cards[d] # None /\ Row(u.writes[d])
               /\ SameCard(u.writes[d], cards[d]) /\ SaysTrue(u.writes[d], d)
    BY <2>1, <2>2, <2>6
  <2>9. u.at \in {"superseding", "sweeping", "leaving"}
        /\ req[r].at \notin {"idle", "leaving", "committing"}
    BY <1>1, <2>4
  <2>10. /\ DOMAIN u = DOMAIN req[r] /\ u.kind = req[r].kind /\ u.card = req[r].card
         /\ u.ops = req[r].ops
    BY <2>4
  <2> QED
    BY <2>3, <2>5, <2>7, <2>8, <2>9, <2>10, RowsWritten
<1>2. CASE DiscardCard(r)
  <2>1. /\ Write(r, req[r].card, Marked(req[r].card, "discarded"), "leaving")
        /\ UNCHANGED <<book, cards, applied>>
        /\ req[r].kind \in Resolving /\ req[r].at \in {"locked", "marking"}
    BY <1>2 DEF DiscardCard, At, Resolving
  <2> QED
    BY <1>1, <2>1
<1>3. CASE MarkAccepted(r)
  <2>1. req[r].at = "marking" /\ req[r].kind \in Resolving /\ Done(req[r].card)
    BY <1>r, <1>3 DEF MarkAccepted, At, RequestOK
  <2> QED
    BY <1>1, <1>3, <2>1 DEF MarkAccepted
<1>4. CASE StartSweep(r)
  <2> DEFINE found == {c \in Cards \ {req[r].card} : Pending(r, c)}
             u == [req[r] EXCEPT !.sweep = found, !.at = "sweeping"]
  <2>1. /\ req' = [req EXCEPT ![r] = u] /\ UNCHANGED <<book, cards, applied>>
        /\ req[r].at = "superseding"
    BY <1>4 DEF StartSweep, At
  <2>2. found \subseteq Cards
    OBVIOUS
  <2> HIDE DEF found
  <2>3. /\ DOMAIN u = DOMAIN req[r] /\ u.writes = req[r].writes /\ u.at = "sweeping"
        /\ u.kind = req[r].kind /\ u.card = req[r].card /\ u.ops = req[r].ops /\ u.sweep = found
    BY <1>r DEF RequestOK
  <2> HIDE DEF u
  <2>4. DOMAIN u.writes = Cards /\ DOMAIN book' = DOMAIN book /\ UNCHANGED <<cards, applied>>
    BY <1>r, <2>1, <2>3 DEF RequestOK
  <2> QED
    BY <2>1, <2>2, <2>3, <2>4, RowsWritten
<1>5. CASE SupersedeNext(r)
  <2>1. PICK c \in req[r].sweep :
            req' = [req EXCEPT ![r].sweep = @ \ {c},
                               ![r].writes[c] = IF Pending(r, c) THEN Marked(c, "superseded") ELSE @]
    BY <1>5 DEF SupersedeNext
  <2> DEFINE row == IF Pending(r, c) THEN Marked(c, "superseded") ELSE req[r].writes[c]
             left == req[r].sweep \ {c}
             u == [req[r] EXCEPT !.sweep = left, !.writes[c] = row]
  <2>2. c \in Cards
    BY <1>r, <2>1 DEF RequestOK
  <2>3. req[r].at = "sweeping" /\ UNCHANGED <<book, cards, applied>>
    BY <1>5 DEF SupersedeNext, At
  <2>4. req[r].writes[c] # None => cards[c] # None
    BY <1>r, <2>2, <2>3 DEF RequestOK
  <2>5. row # None => \/ row = req[r].writes[c]
                      \/ /\ cards[c] # None /\ Row(row)
                         /\ SameCard(row, cards[c]) /\ SaysTrue(row, c)
    BY <2>2, <2>4, MarkedIsSame DEF Pending, Sees, SaysTrue
  <2>6. req' = [req EXCEPT ![r] = u]
    BY <2>1
  <2> HIDE DEF row, left
  <2>7. /\ DOMAIN u = DOMAIN req[r] /\ u.writes = [req[r].writes EXCEPT ![c] = row]
        /\ u.at = "sweeping" /\ u.kind = req[r].kind /\ u.card = req[r].card
        /\ u.ops = req[r].ops /\ u.sweep = left
    BY <1>r, <2>3 DEF RequestOK
  <2> HIDE DEF u
  <2>8. left \subseteq Cards
    BY <1>r DEF RequestOK, left
  <2>9. DOMAIN u.writes = Cards /\ DOMAIN book' = DOMAIN book /\ UNCHANGED <<cards, applied>>
    BY <1>r, <2>3, <2>7 DEF RequestOK
  <2>10. \A d \in Cards : u.writes[d] = IF d = c THEN row ELSE req[r].writes[d]
    BY <1>r, <2>7 DEF RequestOK
  <2>11. \A d \in Cards : u.writes[d] # None =>
            \/ u.writes[d] = req[r].writes[d]
            \/ /\ cards[d] # None /\ Row(u.writes[d])
               /\ SameCard(u.writes[d], cards[d]) /\ SaysTrue(u.writes[d], d)
    BY <2>5, <2>10
  <2>12. u.sweep \subseteq Cards
    BY <2>7, <2>8
  <2> QED
    BY <2>3, <2>6, <2>7, <2>9, <2>11, <2>12, RowsWritten
<1> QED
  BY <1>2, <1>3, <1>4, <1>5

(* A card is made.                                                         *)
LEMMA Making ==
  ASSUME CardsInv, NEW r \in Requests, Propose(r) \/ Refresh(r)
  PROVE  CardsInv'
<1>r. RequestOK(r)
  BY DEF CardsInv
<1>1. CASE Propose(r)
  <2>1. PICK c \in Cards : Fresh(c) /\ Write(r, c, Card("pending", req[r].ops, None), "leaving")
    BY <1>1 DEF Propose
  <2> DEFINE row == Card("pending", req[r].ops, None)
             u == [req[r] EXCEPT !.writes[c] = row, !.at = "leaving"]
  <2>2. Row(row) /\ SaysTrue(row, c)
    BY CardIsRow DEF SaysTrue
  <2>3. req' = [req EXCEPT ![r] = u]
    BY <2>1 DEF Write
  <2>4. UNCHANGED <<book, cards, applied>> /\ req[r].at = "locked"
    BY <1>1 DEF Propose, At
  <2> HIDE DEF row
  <2>5. /\ DOMAIN u = DOMAIN req[r] /\ u.writes = [req[r].writes EXCEPT ![c] = row]
        /\ u.at = "leaving" /\ u.kind = req[r].kind /\ u.card = req[r].card
        /\ u.ops = req[r].ops /\ u.sweep = req[r].sweep
    BY <1>r DEF RequestOK
  <2> HIDE DEF u
  <2>6. DOMAIN u.writes = Cards /\ u.sweep \subseteq Cards /\ DOMAIN book' = DOMAIN book
    BY <1>r, <2>4, <2>5 DEF RequestOK
  <2>7. \A d \in Cards : u.writes[d] # None =>
            \/ u.writes[d] = req[r].writes[d]
            \/ Fresh(d) /\ Row(u.writes[d]) /\ SaysTrue(u.writes[d], d) /\ u.at = "leaving"
    BY <1>r, <2>1, <2>2, <2>5 DEF RequestOK
  <2>8. u.at \in {"superseding", "sweeping", "leaving"}
        /\ req[r].at \notin {"idle", "leaving", "committing"} /\ UNCHANGED <<cards, applied>>
    BY <2>4, <2>5
  <2> QED
    BY <2>3, <2>5, <2>6, <2>7, <2>8, RowsWritten, ZenonT(60)
<1>2. CASE Refresh(r)
  <2> DEFINE c == req[r].card
  <2>1. PICK new \in Cards :
            /\ Fresh(new)
            /\ req' = [req EXCEPT ![r].writes[c] = Marked(c, "superseded"),
                                  ![r].writes[new] = Card("pending", req[r].ops, c),
                                  ![r].at = "leaving"]
    BY <1>2 DEF Refresh
  <2> DEFINE old == Marked(c, "superseded")
             row == Card("pending", req[r].ops, c)
             u == [req[r] EXCEPT !.writes[c] = old, !.writes[new] = row, !.at = "leaving"]
  <2>2. UNCHANGED <<book, cards, applied>> /\ req[r].at = "locked" /\ req[r].kind = "accept"
    BY <1>2 DEF Refresh, At
  <2>3. c \in Cards /\ cards[c] # None /\ c # new
    BY <1>r, <2>1, <2>2 DEF RequestOK, Resolving, Fresh
  <2>4. Row(row) /\ Row(old) /\ SameCard(old, cards[c]) /\ SaysTrue(row, new) /\ SaysTrue(old, c)
    BY <2>3, CardIsRow, MarkedIsSame DEF SaysTrue
  <2>5. req' = [req EXCEPT ![r] = u]
    BY <2>1
  <2> HIDE DEF c, old, row
  <2>6. /\ DOMAIN u = DOMAIN req[r]
        /\ u.writes = [req[r].writes EXCEPT ![c] = old, ![new] = row]
        /\ u.at = "leaving" /\ u.kind = req[r].kind /\ u.card = req[r].card
        /\ u.ops = req[r].ops /\ u.sweep = req[r].sweep
    BY <1>r DEF RequestOK
  <2> HIDE DEF u
  <2>7. DOMAIN u.writes = Cards /\ u.sweep \subseteq Cards /\ DOMAIN book' = DOMAIN book
    BY <1>r, <2>2, <2>6 DEF RequestOK
  <2>8. \A d \in Cards : u.writes[d] # None =>
            \/ u.writes[d] = req[r].writes[d]
            \/ /\ cards[d] # None /\ Row(u.writes[d])
               /\ SameCard(u.writes[d], cards[d]) /\ SaysTrue(u.writes[d], d)
            \/ Fresh(d) /\ Row(u.writes[d]) /\ SaysTrue(u.writes[d], d) /\ u.at = "leaving"
    BY <1>r, <2>1, <2>3, <2>4, <2>6 DEF RequestOK
  <2>9. u.at \in {"superseding", "sweeping", "leaving"}
        /\ req[r].at \notin {"idle", "leaving", "committing"} /\ UNCHANGED <<cards, applied>>
    BY <2>2, <2>6
  <2> QED
    BY <2>5, <2>6, <2>7, <2>8, <2>9, RowsWritten, ZenonT(60)
<1> QED
  BY <1>1, <1>2

(* The book is as the card's dry run found it, so the accept gives what it *)
(* showed.                                                                 *)
LEMMA Applying == ASSUME CardsInv, NEW r \in Requests, Apply(r) PROVE CardsInv'
<1> DEFINE u == [req[r] EXCEPT !.at = "marking"]
           a == [card |-> req[r].card, gave |-> book'.now]
<1>1. RequestOK(r) /\ req[r].kind = "accept" /\ req[r].at = "locked"
  BY DEF CardsInv, Apply, At
<1>2. /\ cards' = cards /\ req' = [req EXCEPT ![r] = u] /\ applied' = applied \cup {a}
      /\ DOMAIN book' = DOMAIN book
  BY DEF Apply, Goto
<1>3. DOMAIN u = DOMAIN req[r] /\ u.at = "marking" /\ u.kind = req[r].kind
      /\ u.card = req[r].card /\ u.ops = req[r].ops /\ u.sweep = req[r].sweep
      /\ u.writes = req[r].writes
  BY <1>1 DEF RequestOK
<1>4. req[r].card \in Cards /\ cards[req[r].card] # None /\ cards[req[r].card].ops = req[r].ops
  BY <1>1 DEF RequestOK, Resolving
<1>5. book'.now = Applied(book.now, ChangesOf(req[r].ops, Len(req[r].ops)))
  BY DEF Apply, CardsInv
<1>6. cards[req[r].card].stamp.fingerprint = book.now
  BY DEF Apply, Stale, Matches, StampOf
<1>7. a.card \in Cards /\ cards[a.card] # None /\ a.gave = Outcome(cards[a.card])
  BY <1>4, <1>5, <1>6 DEF Outcome
<1>c. a.card = req[r].card
  OBVIOUS
<1> HIDE DEF u, a
<1>d. ASSUME NEW c, c = req[r].card \/ Done(c) PROVE Done(c)'
  BY <1>2, <1>c, <1>d DEF Done
<1>8. req'[r] = u /\ \A q \in Requests \ {r} : req'[q] = req[q]
  BY <1>2 DEF CardsInv
<1>9. RequestOK(r)'
  <2>1. u.kind \in Resolving /\ u.sweep \subseteq Cards /\ DOMAIN u.writes = Cards
    BY <1>1, <1>3 DEF RequestOK, Resolving
  <2>2. \A c \in Cards : u.writes[c] # None => Row(u.writes[c]) /\ cards[c] # None
                                              /\ SameCard(u.writes[c], cards[c])
                                              /\ SaysTrue(req[r].writes[c], c)'
    BY <1>1, <1>3, <1>8, <1>d DEF RequestOK, SaysTrue
  <2> QED
    BY <1>1, <1>2, <1>3, <1>4, <1>8, <1>d, <2>1, <2>2 DEF RequestOK
<1>10. \A q \in Requests \ {r} : RequestOK(q)'
  BY <1>2, <1>8, <1>d DEF CardsInv, RequestOK, SaysTrue
<1>11. NewIsNew'
  BY <1>2, <1>3, <1>8 DEF CardsInv, NewIsNew
<1>12. \A x \in applied' : x.card \in Cards /\ cards'[x.card] # None /\ x.gave = Outcome(cards'[x.card])
  BY <1>2, <1>7 DEF CardsInv, Outcome
<1>13. \A c \in Cards : cards'[c] # None => Row(cards'[c]) /\ SaysTrue(cards[c], c)'
  BY <1>2, <1>d DEF CardsInv, SaysTrue
<1> QED
  BY <1>2, <1>9, <1>10, <1>11, <1>12, <1>13 DEF CardsInv, Outcome

(* The table takes what a request leaves: no row goes, and none changes    *)
(* its stamp or its operations.                                            *)
LEMMA TableMoves ==
  ASSUME CardsInv, NEW r \in Requests, Over(r), UNCHANGED <<book, applied>>,
         DOMAIN cards' = Cards,
         \A c \in Cards : cards[c] # None =>
            cards'[c] # None /\ Row(cards'[c]) /\ SameCard(cards'[c], cards[c])
            /\ SaysTrue(cards[c], c)',
         \A c \in Cards : cards[c] = None /\ cards'[c] # None =>
            Row(cards'[c]) /\ SaysTrue(cards[c], c)' /\ req[r].writes[c] # None
  PROVE  CardsInv'
<1>1. req'[r] = Idle /\ DOMAIN req' = Requests /\ \A q \in Requests \ {r} : req'[q] = req[q]
  BY DEF Over, CardsInv
<1>2. RequestOK(r)'
  BY <1>1, IdleHasNothing DEF RequestOK, Resolving
<1>3. ASSUME NEW q \in Requests \ {r} PROVE RequestOK(q)'
  <2>1. RequestOK(q) /\ req'[q] = req[q]
    BY <1>1 DEF CardsInv
  <2>2. ASSUME NEW c \in Cards, cards[c] = None, req[q].writes[c] # None PROVE cards'[c] = None
    BY <2>2 DEF CardsInv, NewIsNew
  <2>3. ASSUME NEW c \in Cards, req[q].writes[c] # None
        PROVE  /\ Row(req[q].writes[c]) /\ SaysTrue(req[q].writes[c], c)
               /\ cards'[c] # None => SameCard(req[q].writes[c], cards'[c])
               /\ cards'[c] = None => req[q].at \in {"leaving", "committing"}
    BY <2>1, <2>2, <2>3 DEF RequestOK, SameCard
  <2>4. req[q].at # "idle" /\ req[q].kind \in Resolving =>
            /\ req[q].card \in Cards
            /\ cards'[req[q].card] # None
            /\ cards'[req[q].card].ops = req[q].ops
    BY <2>1 DEF RequestOK, SameCard
  <2> QED
    BY <2>1, <2>3, <2>4 DEF RequestOK, SaysTrue, Done
<1>4. NewIsNew'
  BY <1>1, IdleHasNothing DEF CardsInv, NewIsNew
<1>5. ASSUME NEW a \in applied
      PROVE  a.card \in Cards /\ cards'[a.card] # None /\ a.gave = Outcome(cards'[a.card])
  BY DEF CardsInv, Outcome, SameCard
<1>6. \A c \in Cards : cards'[c] # None => Row(cards'[c]) /\ SaysTrue(cards[c], c)'
  OBVIOUS
<1> QED
  BY <1>1, <1>2, <1>3, <1>4, <1>5, <1>6 DEF CardsInv, Outcome

LEMMA Ending ==
  ASSUME NoneIsNoRow, CardsInv, NEW r \in Requests, MarkExpired(r) \/ Commit(r)
  PROVE  CardsInv'
<1>r. RequestOK(r)
  BY DEF CardsInv
<1>1. CASE MarkExpired(r)
  <2> DEFINE c == req[r].card
             row == Marked(c, "expired")
  <2>1. c \in Cards /\ cards[c] # None
    BY <1>r, <1>1 DEF MarkExpired, At, RequestOK
  <2>2. Row(row) /\ SameCard(row, cards[c]) /\ row.status = "expired"
    BY <2>1, MarkedIsSame
  <2>3. row # None
    BY <2>2 DEF Row, NoneIsNoRow
  <2>4. cards' = [cards EXCEPT ![c] = row] /\ Over(r) /\ UNCHANGED <<book, applied>>
    BY <1>1 DEF MarkExpired
  <2> HIDE DEF c, row
  <2>5. ASSUME NEW d \in Cards, cards[d] # None
        PROVE  /\ cards'[d] # None /\ Row(cards'[d]) /\ SameCard(cards'[d], cards[d])
               /\ SaysTrue(cards[d], d)'
    BY <2>2, <2>3, <2>4, <2>5 DEF CardsInv, SameCard, SaysTrue, Done
  <2>6. ASSUME NEW d \in Cards, cards[d] = None PROVE cards'[d] = None
    BY <2>1, <2>4, <2>6 DEF CardsInv
  <2>7. DOMAIN cards' = Cards
    BY <2>4 DEF CardsInv
  <2> QED
    BY <2>4, <2>5, <2>6, <2>7, TableMoves
<1>2. CASE Commit(r)
  <2>1. /\ \A c \in Cards : cards'[c] = IF req[r].writes[c] # None THEN req[r].writes[c] ELSE cards[c]
        /\ DOMAIN cards' = Cards /\ Over(r) /\ UNCHANGED <<book, applied>>
    BY <1>2 DEF Commit, Sees
  <2>2. ASSUME NEW d \in Cards, cards[d] # None
        PROVE  /\ cards'[d] # None /\ Row(cards'[d]) /\ SameCard(cards'[d], cards[d])
               /\ SaysTrue(cards[d], d)'
    BY <1>r, <2>1, <2>2 DEF CardsInv, RequestOK, SameCard, SaysTrue, Done
  <2>3. ASSUME NEW d \in Cards, cards[d] = None, cards'[d] # None
        PROVE  Row(cards'[d]) /\ SaysTrue(cards[d], d)' /\ req[r].writes[d] # None
    BY <1>r, <2>1, <2>3 DEF RequestOK, SaysTrue, Done
  <2> QED
    BY <2>1, <2>2, <2>3, TableMoves
<1> QED
  BY <1>1, <1>2

LEMMA RollingBack ==
  ASSUME CardsInv, NEW r \in Requests,
         Clarify(r) \/ RefuseApply(r) \/ BreakDeadlock(r) \/ Fail(r)
  PROVE  CardsInv'
<1>1. Over(r) /\ UNCHANGED <<book, cards, applied>>
  BY DEF Clarify, RefuseApply, BreakDeadlock, Fail, RollBack
<1> QED
  BY <1>1, BeingOver

LEMMA Crashing == ASSUME CardsInv, Crash PROVE CardsInv'
<1>1. /\ \A r \in Requests : req'[r] = Idle
      /\ DOMAIN req' = Requests /\ cards' = cards /\ applied' = applied
  BY DEF Crash
<1>2. DOMAIN book' = DOMAIN book
  BY DEF Crash
<1>3. ASSUME NEW r \in Requests PROVE RequestOK(r)'
  BY <1>1, IdleHasNothing DEF RequestOK, Resolving
<1>4. NewIsNew'
  BY <1>1, IdleHasNothing DEF NewIsNew
<1> QED
  BY <1>1, <1>2, <1>3, <1>4 DEF CardsInv, Outcome, SaysTrue, Done

LEMMA StepCards == ASSUME NoneIsNoRow, CardsInv, [Next]_vars PROVE CardsInv'
<1>1. CASE UNCHANGED vars
  BY <1>1 DEF vars, CardsInv, RequestOK, NewIsNew, Outcome, SaysTrue, Done
<1>2. ASSUME NEW r \in Requests, Proceed(r) PROVE CardsInv'
  BY <1>2, Ending, Working, Making, Marking, RollingBack, Applying DEF Proceed
<1>3. ASSUME NEW r \in Requests,
             \/ \E ops \in Edits : Arrive(r, "edit", ops)
             \/ \E kind \in Kinds \cap {"save", "discard", "activate"} : Arrive(r, kind, <<>>)
             \/ \E kind \in Kinds \cap {"accept", "discard card"}, c \in Cards : Resolve(r, kind, c)
      PROVE  CardsInv'
  BY <1>3, Arriving
<1>4. ASSUME NEW r \in Requests, Fail(r) PROVE CardsInv'
  BY <1>4, RollingBack
<1>5. CASE Crash
  BY <1>5, Crashing
<1> QED
  BY <1>1, <1>2, <1>3, <1>4, <1>5 DEF Next
-----------------------------------------------------------------------------
(* SPEC 2.5, "the card the user confirms is always the card that applies": *)
(* whatever the requests, the edits and the failures, an accept makes of   *)
(* the book what the dry run on its card showed (accept and refresh in     *)
(* book_edits.py).                                                         *)
THEOREM ConfirmedCardsApply ==
  ASSUME NoneIsNoRow
  PROVE  Spec => []ConfirmedIsApplied
<1>1. Init => CardsInv
  BY InitCards
<1>2. CardsInv /\ [Next]_vars => CardsInv'
  BY StepCards
<1>3. CardsInv => ConfirmedIsApplied
  BY DEF CardsInv, ConfirmedIsApplied
<1> QED
  BY <1>1, <1>2, <1>3, PTL DEF Spec

(* The table never claims an accept that did not reach the book: whatever  *)
(* fails and whenever the process dies, a card's row says accepted only    *)
(* after its operations went in (accept, book_edits.py).                   *)
THEOREM AcceptsAreApplied ==
  ASSUME NoneIsNoRow
  PROVE  Spec => []AcceptedMeansApplied
<1>1. Init => CardsInv
  BY InitCards
<1>2. CardsInv /\ [Next]_vars => CardsInv'
  BY StepCards
<1>3. CardsInv => AcceptedMeansApplied
  BY DEF CardsInv, AcceptedMeansApplied, SaysTrue, Done
<1> QED
  BY <1>1, <1>2, <1>3, PTL DEF Spec
=============================================================================
