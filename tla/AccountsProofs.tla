--------------------------- MODULE AccountsProofs ---------------------------
(***************************************************************************)
(* Sign-in, the one book, the deletion of an account and the nightly jobs, *)
(* for any number of requests and links, any retention, and a clock        *)
(* without bound: a link opens one session, a deletion leaves nothing, and *)
(* windows close rightly and in time.                                      *)
(*                                                                         *)
(* The inductive invariant has a part for each of these, over what the     *)
(* parts before it have established: who has which link (LinksLocked),     *)
(* whose the account, its sessions and its book are (Owned, OneByOne),     *)
(* what a deletion has left (Erased), how the stamps and the times lie     *)
(* (Clocked), which snapshots may hold an account (Covered, Closed), and   *)
(* what a night's jobs have done (Pruned, Due).                            *)
(***************************************************************************)
EXTENDS Accounts, Sums, TLAPS

-----------------------------------------------------------------------------
(* The places of the three kinds of request, and what the state is made of. *)
SigningIn == {"finding", "inserting", "opening", "opened"}
Founding == {"rowless", "rowed"}
Erasing == {"erasing", "forgetting", "dropping", "receipting"}
Places == {"off", "over"} \cup SigningIn \cup Founding \cup Erasing

LinkRow == [expires : Nat, consumed : BOOLEAN]
Receipt == [at : Nat, due : Nat, purged : BOOLEAN, book : Requests \cup {None}, blind : BOOLEAN]
Copy == [stamp : Nat, complete : BOOLEAN, users : SUBSET Requests, dirs : SUBSET Requests,
         during : SUBSET Requests]

Request == [at : Places, link : Links \cup {None}, user : Requests \cup {None}, new : BOOLEAN,
            book : Requests \cup {None}, burnt : SUBSET Links, since : Nat]

Types ==
    /\ now \in Nat
    /\ account \in Requests \cup {None}
    /\ links \in [Links -> LinkRow \cup {None, Gone}]
    /\ sessions \subseteq [user : Requests, link : Links, by : Requests]
    /\ books \in [Requests -> Requests \cup {None}]
    /\ deletions \in [Requests -> Receipt \cup {None}]
    /\ dirs \subseteq Requests
    /\ req \in [Requests -> Request]
    /\ job # None => job \in [stamp : Nat, users : SUBSET Requests, during : SUBSET Requests]
    /\ bucket \subseteq Copy
    /\ marker \in Nat \cup {None}
    /\ ran \subseteq {"backup", "prune", "sweep"}

-----------------------------------------------------------------------------
(* What an action does to its request, field by field.                     *)
Stage(place, link, user, new, book, burnt, since) ==
    [at |-> place, link |-> link, user |-> user, new |-> new, book |-> book, burnt |-> burnt,
     since |-> since]
Placed(r, place) ==
    Stage(place, req[r].link, req[r].user, req[r].new, req[r].book, req[r].burnt, req[r].since)
Moved(r, q) ==
    /\ q \in Request /\ req' \in [Requests -> Request] /\ req'[r] = q
    /\ \A p \in Requests \ {r} : req'[p] = req[p]

(* An update of a request by a request is one, and changes no other.       *)
LEMMA Moving ==
  ASSUME Types, NEW r \in Requests, NEW q \in Request, req' = [req EXCEPT ![r] = q]
  PROVE  Moved(r, q)
BY DEF Types, Moved

LEMMA Going ==
  ASSUME Types, NEW r \in Requests, NEW place \in Places, Go(r, place)
  PROVE  Moved(r, Placed(r, place))
<1>1. req \in [Requests -> Request] /\ req[r] \in Request
  BY DEF Types
<1>2. [req[r] EXCEPT !.at = place] = Placed(r, place) /\ Placed(r, place) \in Request
  BY <1>1 DEF Request, Placed, Stage
<1>3. req' = [req EXCEPT ![r] = Placed(r, place)]
  BY <1>1, <1>2 DEF Go
<1> QED
  BY <1>2, <1>3, Moving

LinkTaken(r, l) ==
    /\ req[r].at = "off" /\ Usable(l) /\ LinkIsFree(l)
    /\ Moved(r, Stage("finding", l, req[r].user, req[r].new,
                   req[r].book, req[r].burnt, req[r].since))
    /\ UNCHANGED <<now, account, links, sessions, books, deletions, dirs, job, bucket, marker, ran>>

LEMMA TakingLink ==
  ASSUME Types, NEW r \in Requests, NEW l \in Links, Consume(r, l)
  PROVE  LinkTaken(r, l)
<1> DEFINE moved == Stage("finding", l, req[r].user, req[r].new,
                   req[r].book, req[r].burnt, req[r].since)
<1>1. req \in [Requests -> Request] /\ req[r] \in Request
  BY DEF Types
<1>2. req' = [req EXCEPT ![r].at = "finding", ![r].link = l]
  BY DEF Consume
<1>3. req'[r] = moved
  BY <1>1, <1>2 DEF Request, Stage
<1>4. moved \in Request
  BY <1>1 DEF Request, Stage, Places, SigningIn, Founding, Erasing, Types
<1>5. Moved(r, moved)
  <2>1. req'[r] \in Request
    BY <1>3, <1>4
  <2>2. req' \in [Requests -> Request] /\ \A p \in Requests \ {r} : req'[p] = req[p]
    BY <1>1, <1>2, <2>1
  <2> QED
    BY <1>3, <1>4, <2>2 DEF Moved
<1> QED
  BY <1>5 DEF LinkTaken, Consume, Arrives, At, rows, night

UserFound(r) ==
    /\ req[r].at = "finding"
    /\ \/ account = None /\ Moved(r, Stage("inserting", req[r].link, r, TRUE,
                            req[r].book, req[r].burnt, req[r].since))
       \/ account # None /\ Moved(r, Stage("opening", req[r].link, account, FALSE,
                            req[r].book, req[r].burnt, req[r].since))
    /\ UNCHANGED <<now, account, links, sessions, books, deletions, dirs, job, bucket, marker, ran>>

LEMMA FindingUser ==
  ASSUME Types, NEW r \in Requests, FindUser(r)
  PROVE  UserFound(r)
<1>1. req \in [Requests -> Request] /\ req[r] \in Request
  BY DEF Types
<1>2. CASE account = None
  <2> DEFINE moved == Stage("inserting", req[r].link, r, TRUE,
                            req[r].book, req[r].burnt, req[r].since)
  <2>1. req'[r] = moved /\ moved \in Request
    BY <1>1, <1>2 DEF FindUser, Request, Stage, Places, SigningIn
  <2>2. req' \in [Requests -> Request] /\ \A p \in Requests \ {r} : req'[p] = req[p]
    BY <1>1, <1>2, <2>1 DEF FindUser
  <2> QED
    BY <1>2, <2>1, <2>2 DEF UserFound, FindUser, Moved, At, rows, night
<1>3. CASE account # None
  <2> DEFINE moved == Stage("opening", req[r].link, account, FALSE,
                            req[r].book, req[r].burnt, req[r].since)
  <2>1. req'[r] = moved /\ moved \in Request
    BY <1>1, <1>3 DEF FindUser, Request, Stage, Places, SigningIn, Types
  <2>2. req' \in [Requests -> Request] /\ \A p \in Requests \ {r} : req'[p] = req[p]
    BY <1>1, <1>3, <2>1 DEF FindUser
  <2> QED
    BY <1>3, <2>1, <2>2 DEF UserFound, FindUser, Moved, At, rows, night
<1> QED
  BY <1>2, <1>3

(* A request that only goes on to its next place, or is rolled back.       *)
GoesOn(r, place) ==
    /\ req[r].at \notin {"off", "over"}
    /\ Moved(r, Placed(r, place))
    /\ UNCHANGED <<now, account, links, sessions, books, deletions, dirs, job, bucket, marker, ran>>
    /\ \/ place = "over"
       \/ /\ place = "opening" /\ req[r].at = "inserting" /\ account = None
          /\ \A q \in InFlight \ {r} : ~(req[q].new /\ req[q].at \in {"opening", "opened"})
       \/ /\ \/ place = "opened" /\ req[r].at = "opening"
             \/ place = "rowed" /\ req[r].at = "rowless"
          /\ RowIsFree(req[r].user) /\ (req[r].new \/ account = req[r].user)
       \/ /\ place = "receipting" /\ req[r].at = "dropping"
          /\ \A q \in InFlight \ {r} :
                ~(req[q].at \in {"opened", "rowed"} /\ req[q].user = req[r].user)
Goer(r) == InsertUser(r) \/ OpenSession(r) \/ InsertBook(r) \/ DropUser(r) \/ Fail(r)

LEMMA GoingOn ==
  ASSUME Types, NEW r \in Requests, Goer(r)
  PROVE  \E place \in Places : GoesOn(r, place)
<1> USE DEF At, Places, SigningIn, Founding, Erasing, rows, night
<1>0. ASSUME NEW place \in Places, Go(r, place)
      PROVE  Moved(r, Placed(r, place))
  BY <1>0, Going
<1>1. CASE InsertUser(r)
  BY <1>0, <1>1 DEF InsertUser, RollBack, GoesOn
<1>2. CASE OpenSession(r)
  BY <1>0, <1>2 DEF OpenSession, Refers, RollBack, GoesOn
<1>3. CASE InsertBook(r)
  BY <1>0, <1>3 DEF InsertBook, Refers, RollBack, GoesOn
<1>4. CASE DropUser(r)
  BY <1>0, <1>4 DEF DropUser, GoesOn
<1>5. CASE Fail(r)
  BY <1>0, <1>5 DEF Fail, RollBack, GoesOn, InFlight
<1> QED
  BY <1>1, <1>2, <1>3, <1>4, <1>5 DEF Goer

SessionOpened(r) ==
    /\ req[r].at = "opened"
    /\ Moved(r, Placed(r, "over"))
    /\ account' = req[r].user
    /\ sessions' = sessions \cup {[user |-> req[r].user, link |-> req[r].link, by |-> r]}
    /\ links' = [links EXCEPT ![req[r].link].consumed = TRUE]
    /\ UNCHANGED <<now, books, deletions, dirs, job, bucket, marker, ran>>

LEMMA OpeningSession ==
  ASSUME Types, NEW r \in Requests, CommitSession(r)
  PROVE  SessionOpened(r)
<1>1. Moved(r, Placed(r, "over"))
  BY Going DEF CommitSession, Places, Erasing
<1> QED
  BY <1>1 DEF SessionOpened, CommitSession, At, rows, night

DirectoryMade(r, u) ==
    /\ req[r].at = "off" /\ SignedIn(u)
    /\ Moved(r, Stage("rowless", req[r].link, u, req[r].new,
                   req[r].book, req[r].burnt, req[r].since))
    /\ dirs' = dirs \cup {r}
    /\ UNCHANGED <<now, account, links, sessions, books, deletions, job, bucket, marker, ran>>

LEMMA MakingDirectory ==
  ASSUME Types, NEW r \in Requests, NEW u \in Requests, MakeDirectory(r, u)
  PROVE  DirectoryMade(r, u)
<1> DEFINE moved == Stage("rowless", req[r].link, u, req[r].new,
                   req[r].book, req[r].burnt, req[r].since)
<1>1. req \in [Requests -> Request] /\ req[r] \in Request
  BY DEF Types
<1>2. req' = [req EXCEPT ![r].at = "rowless", ![r].user = u]
  BY DEF MakeDirectory
<1>3. req'[r] = moved
  BY <1>1, <1>2 DEF Request, Stage
<1>4. moved \in Request
  BY <1>1 DEF Request, Stage, Places, SigningIn, Founding, Erasing, Types
<1>5. Moved(r, moved)
  <2>1. req'[r] \in Request
    BY <1>3, <1>4
  <2>2. req' \in [Requests -> Request] /\ \A p \in Requests \ {r} : req'[p] = req[p]
    BY <1>1, <1>2, <2>1
  <2> QED
    BY <1>3, <1>4, <2>2 DEF Moved
<1> QED
  BY <1>5 DEF DirectoryMade, MakeDirectory, Arrives, At, rows, night

BookAdded(r) ==
    /\ req[r].at = "rowed"
    /\ Moved(r, Placed(r, "over"))
    /\ books' = [books EXCEPT ![req[r].user] = r]
    /\ UNCHANGED <<now, account, links, sessions, deletions, dirs, job, bucket, marker, ran>>

LEMMA AddingBook ==
  ASSUME Types, NEW r \in Requests, CommitBook(r)
  PROVE  BookAdded(r)
<1>1. Moved(r, Placed(r, "over"))
  BY Going DEF CommitBook, Places, Erasing
<1> QED
  BY <1>1 DEF BookAdded, CommitBook, At, rows, night

Revoked(r, u) ==
    /\ req[r].at = "off" /\ SignedIn(u) /\ Deleting(u) = {}
    /\ Moved(r, Stage("erasing", req[r].link, u, req[r].new,
                   books[u], req[r].burnt, now))
    /\ UNCHANGED <<now, account, links, sessions, books, deletions, dirs, job, bucket, marker, ran>>

LEMMA Revoking ==
  ASSUME Types, NEW r \in Requests, NEW u \in Requests, RevokeSessions(r, u)
  PROVE  Revoked(r, u)
<1> DEFINE moved == Stage("erasing", req[r].link, u, req[r].new,
                   books[u], req[r].burnt, now)
<1>1. req \in [Requests -> Request] /\ req[r] \in Request
  BY DEF Types
<1>2. req' = [req EXCEPT ![r].at = "erasing", ![r].user = u, ![r].book = books[u],
                          ![r].since = now]
  BY DEF RevokeSessions
<1>3. req'[r] = moved
  BY <1>1, <1>2 DEF Request, Stage
<1>4. moved \in Request
  BY <1>1 DEF Request, Stage, Places, SigningIn, Founding, Erasing, Types
<1>5. Moved(r, moved)
  <2>1. req'[r] \in Request
    BY <1>3, <1>4
  <2>2. req' \in [Requests -> Request] /\ \A p \in Requests \ {r} : req'[p] = req[p]
    BY <1>1, <1>2, <2>1
  <2> QED
    BY <1>3, <1>4, <2>2 DEF Moved
<1> QED
  BY <1>5 DEF Revoked, RevokeSessions, Arrives, At, rows, night

Burnt(r) ==
    /\ req[r].at = "erasing" /\ \A q \in InFlight : req[q].link = None
    /\ Moved(r, Stage("forgetting", req[r].link, req[r].user, req[r].new,
                   req[r].book, {l \in Links : Kept(l)}, req[r].since))
    /\ UNCHANGED <<now, account, links, sessions, books, deletions, dirs, job, bucket, marker, ran>>

LEMMA Burning ==
  ASSUME Types, NEW r \in Requests, BurnLinks(r)
  PROVE  Burnt(r)
<1> DEFINE moved == Stage("forgetting", req[r].link, req[r].user, req[r].new,
                   req[r].book, {l \in Links : Kept(l)}, req[r].since)
<1>1. req \in [Requests -> Request] /\ req[r] \in Request
  BY DEF Types
<1>2. req' = [req EXCEPT ![r].at = "forgetting", ![r].burnt = {l \in Links : Kept(l)}]
  BY DEF BurnLinks
<1>3. req'[r] = moved
  BY <1>1, <1>2 DEF Request, Stage
<1>4. moved \in Request
  BY <1>1 DEF Request, Stage, Places, SigningIn, Founding, Erasing, Types
<1>5. Moved(r, moved)
  <2>1. req'[r] \in Request
    BY <1>3, <1>4
  <2>2. req' \in [Requests -> Request] /\ \A p \in Requests \ {r} : req'[p] = req[p]
    BY <1>1, <1>2, <2>1
  <2> QED
    BY <1>3, <1>4, <2>2 DEF Moved
<1> QED
  BY <1>5 DEF Burnt, BurnLinks, Arrives, At, rows, night

Forgotten(r) ==
    /\ req[r].at = "forgetting"
    /\ Moved(r, Placed(r, "dropping"))
    /\ dirs' = dirs \ {req[r].book}
    /\ UNCHANGED <<now, account, links, sessions, books, deletions, job, bucket, marker, ran>>

LEMMA Forgetting ==
  ASSUME Types, NEW r \in Requests, Forget(r)
  PROVE  Forgotten(r)
<1>1. Moved(r, Placed(r, "dropping"))
  BY Going DEF Forget, Places, Erasing
<1> QED
  BY <1>1 DEF Forgotten, Forget, At, rows, night

Deleted(r) ==
    /\ req[r].at = "receipting"
    /\ Moved(r, Placed(r, "over"))
    /\ account' = None
    /\ sessions' = {s \in sessions : s.user # req[r].user}
    /\ books' = [books EXCEPT ![req[r].user] = None]
    /\ links' = [l \in Links |-> IF l \in req[r].burnt THEN Gone ELSE links[l]]
    /\ deletions' = [deletions EXCEPT ![req[r].user] =
          [at |-> req[r].since, due |-> req[r].since + TicksADay * Retention, purged |-> FALSE,
           book |-> req[r].book, blind |-> FALSE]]
    /\ UNCHANGED <<now, dirs, job, bucket, marker, ran>>

LEMMA Deletion ==
  ASSUME Types, NEW r \in Requests, CommitDeletion(r)
  PROVE  Deleted(r)
<1>1. Moved(r, Placed(r, "over"))
  BY Going DEF CommitDeletion, Places, Erasing
<1> QED
  BY <1>1 DEF Deleted, CommitDeletion, At, rows, night

(* The sweep closes the windows that it may, and leaves the other receipts. *)
Swept ==
    /\ Hour = SweepHour /\ ran' = ran \cup {"sweep"}
    /\ UNCHANGED <<now, account, sessions, books, dirs, req, job, bucket, marker>>
    /\ \A u \in Requests :
        \/ /\ deletions'[u] = deletions[u]
           /\ deletions[u] # None /\ ~deletions[u].purged => ~Closes(u)
        \/ /\ deletions[u] # None /\ Closes(u) /\ deletions'[u].purged
           /\ deletions'[u].at = deletions[u].at /\ deletions'[u].due = deletions[u].due
           /\ deletions'[u].book = deletions[u].book
           /\ ~deletions'[u].blind => marker # None \/ bucket = {}

LEMMA Sweeping ==
  ASSUME Types, Sweep
  PROVE  Swept
<1>1. ASSUME NEW u \in Requests, deletions[u] # None, ~deletions[u].purged, Closes(u)
      PROVE  /\ deletions'[u].purged
             /\ deletions'[u].at = deletions[u].at /\ deletions'[u].due = deletions[u].due
             /\ deletions'[u].book = deletions[u].book
             /\ ~deletions'[u].blind => marker # None \/ bucket = {}
  <2>1. deletions[u] \in Receipt
    BY <1>1 DEF Types
  <2>2. deletions'[u] =
          [deletions[u] EXCEPT !.purged = TRUE, !.blind = marker = None /\ bucket # {}]
    BY <1>1 DEF Sweep
  <2> QED
    BY <2>1, <2>2 DEF Receipt
<1>2. ASSUME NEW u \in Requests, ~(deletions[u] # None /\ ~deletions[u].purged /\ Closes(u))
      PROVE  deletions'[u] = deletions[u]
  BY <1>2 DEF Sweep
<1> QED
  BY <1>1, <1>2 DEF Swept, Sweep

(* The day has four hours, and a stamp of the backup hour is never a whole *)
(* number of days before the sweep, or one tick more than that.            *)
LEMMA ClockHours ==
  ASSUME now \in Nat
  PROVE  /\ Hour \in 0 .. 3
         /\ now' = now + 1 => Hour' = IF Hour = SweepHour THEN 0 ELSE Hour + 1
         /\ \A s, k \in Nat : s % TicksADay = BackupHour /\ Hour = SweepHour =>
                s # now - TicksADay * k /\ s # now - TicksADay * k - 1
BY DEF Hour, TicksADay, SweepHour, BackupHour

(* What a run of the prune leaves in the bucket, and its marker.           *)
LEMMA Pruning ==
  ASSUME Types, Prune
  PROVE  /\ Hour = PruneHour /\ bucket' = {s \in bucket : ~Expired(s)}
         /\ \/ marker' = None /\ bucket' = {}
            \/ /\ marker' \in Nat /\ \A s \in bucket' : marker' <= s.stamp
               /\ \E s \in bucket' : s.stamp = marker'
         /\ ran' = ran \cup {"prune"}
         /\ UNCHANGED <<now, account, links, sessions, books, deletions, dirs, req, job>>
<1> DEFINE kept == {s \in bucket : ~Expired(s)}
           stamps == {s.stamp : s \in kept}
<1>1. bucket' = kept /\ marker' = OldestOf(kept)
  BY DEF Prune
<1>2. CASE kept = {}
  BY <1>1, <1>2 DEF Prune, OldestOf, rows
<1>3. CASE kept # {}
  <2>1. stamps \subseteq Nat /\ stamps # {}
    BY <1>3 DEF Types, Copy
  <2>2. Min(stamps) \in stamps /\ \A n \in stamps : Min(stamps) <= n
    <3> HIDE DEF stamps
    <3> QED BY <2>1, MinIsLeast
  <2>3. marker' = Min(stamps)
    BY <1>1, <1>3 DEF OldestOf
  <2>4. \A s \in kept : s.stamp \in stamps
    OBVIOUS
  <2>5. \E s \in kept : s.stamp = marker'
    BY <2>2, <2>3
  <2>6. marker' \in Nat /\ \A s \in kept : marker' <= s.stamp
    <3> HIDE DEF kept, stamps
    <3> QED BY <2>1, <2>2, <2>3, <2>4
  <2> QED
    <3> HIDE DEF kept, stamps
    <3> QED BY <1>1, <2>5, <2>6 DEF Prune, rows, kept
<1> QED
  BY <1>2, <1>3

-----------------------------------------------------------------------------
(* Every step, by what it does.                                            *)
LEMMA Steps ==
  ASSUME Types, [Next]_vars
  PROVE  \/ UNCHANGED vars
         \/ \E l \in Links : IssueLink(l)
         \/ \E r \in Requests :
              \/ \E l \in Links : LinkTaken(r, l)
              \/ \E place \in Places : GoesOn(r, place)
              \/ \E u \in Requests : DirectoryMade(r, u) \/ Revoked(r, u)
              \/ UserFound(r) \/ SessionOpened(r) \/ BookAdded(r)
              \/ Burnt(r) \/ Forgotten(r) \/ Deleted(r)
         \/ Dump \/ (\E complete \in BOOLEAN : Upload(complete)) \/ Prune \/ Sweep \/ Tick
<1>1. ASSUME NEW r \in Requests, NEW l \in Links, Consume(r, l) PROVE LinkTaken(r, l)
  BY <1>1, TakingLink
<1>2. ASSUME NEW r \in Requests, FindUser(r) PROVE UserFound(r)
  BY <1>2, FindingUser
<1>3. ASSUME NEW r \in Requests, Goer(r) PROVE \E place \in Places : GoesOn(r, place)
  BY <1>3, GoingOn
<1>4. ASSUME NEW r \in Requests, CommitSession(r) PROVE SessionOpened(r)
  BY <1>4, OpeningSession
<1>5. ASSUME NEW r \in Requests, NEW u \in Requests, MakeDirectory(r, u) PROVE DirectoryMade(r, u)
  BY <1>5, MakingDirectory
<1>6. ASSUME NEW r \in Requests, CommitBook(r) PROVE BookAdded(r)
  BY <1>6, AddingBook
<1>7. ASSUME NEW r \in Requests, NEW u \in Requests, RevokeSessions(r, u) PROVE Revoked(r, u)
  BY <1>7, Revoking
<1>8. ASSUME NEW r \in Requests, BurnLinks(r) PROVE Burnt(r)
  BY <1>8, Burning
<1>9. ASSUME NEW r \in Requests, Forget(r) PROVE Forgotten(r)
  BY <1>9, Forgetting
<1>10. ASSUME NEW r \in Requests, CommitDeletion(r) PROVE Deleted(r)
  BY <1>10, Deletion
<1> QED
  BY <1>1, <1>2, <1>3, <1>4, <1>5, <1>6, <1>7, <1>8, <1>9, <1>10 DEF Next, Goer

-----------------------------------------------------------------------------
(* What the fields of a request are in each place.                         *)
Staged(q, r) ==
    /\ q.at \in SigningIn => q.link \in Links
    /\ q.at \in Founding \cup Erasing => q.link = None /\ ~q.new /\ q.user \in Requests
    /\ q.at = "off" => q.link = None /\ ~q.new /\ q.burnt = {}
    /\ q.at \in {"inserting", "opening", "opened"} => q.user \in Requests
    /\ q.at = "inserting" => q.new
    /\ q.at \in SigningIn \ {"finding"} /\ q.new => q.user = r
Stages == \A r \in Requests : Staged(req[r], r)

(* A link in use is still good, and only one request has it; the link of a  *)
(* session is spent for good.                                              *)
Spent(l) == links[l] = Gone \/ (links[l] # None /\ links[l].consumed)
LinksLocked ==
    /\ \A r \in InFlight : req[r].link # None =>
          /\ Kept(req[r].link) /\ ~links[req[r].link].consumed
          /\ \A q \in InFlight : /\ req[r].link \notin req[q].burnt
                                 /\ req[q].link = req[r].link => q = r
    /\ \A s \in sessions : Spent(s.link)

(* The step of each part, action by action.                                *)
LEMMA TypesStep ==
  ASSUME Types, Stages, LinksLocked, [Next]_vars
  PROVE  Types'
<1> USE DEF Moved, Placed, Stage, Types
<1>1. ASSUME UNCHANGED vars PROVE Types'
  BY <1>1 DEF vars
<1>2. ASSUME NEW l \in Links, IssueLink(l) PROVE Types'
  BY <1>2, RetentionIsPositive DEF IssueLink, Types, LinkRow, rows, night
<1>3. ASSUME NEW r \in Requests, NEW l \in Links, LinkTaken(r, l) PROVE Types'
  BY <1>3 DEF LinkTaken
<1>4. ASSUME NEW r \in Requests, UserFound(r) PROVE Types'
  BY <1>4 DEF UserFound
<1>5. ASSUME NEW r \in Requests, NEW place \in Places, GoesOn(r, place) PROVE Types'
  BY <1>5 DEF GoesOn
<1>6. ASSUME NEW r \in Requests, SessionOpened(r) PROVE Types'
  <2>1. /\ req[r].user \in Requests /\ req[r].link \in Links
        /\ links[req[r].link] \in LinkRow
    BY <1>6, NoRowIsMissing
       DEF SessionOpened, Stages, Staged, SigningIn, LinksLocked, InFlight, Kept, Types
  <2>2. links' \in [Links -> LinkRow \cup {None, Gone}]
    <3>1. [links[req[r].link] EXCEPT !.consumed = TRUE] \in LinkRow
      BY <2>1 DEF LinkRow
    <3> QED
      BY <1>6, <2>1, <3>1 DEF SessionOpened, Types
  <2>3. sessions' \subseteq [user : Requests, link : Links, by : Requests]
    BY <1>6, <2>1 DEF SessionOpened, Types
  <2> QED
    BY <1>6, <2>1, <2>2, <2>3 DEF SessionOpened, Moved, Types
<1>7. ASSUME NEW r \in Requests, NEW u \in Requests, DirectoryMade(r, u) PROVE Types'
  BY <1>7 DEF DirectoryMade
<1>8. ASSUME NEW r \in Requests, BookAdded(r) PROVE Types'
  BY <1>8 DEF BookAdded
<1>9. ASSUME NEW r \in Requests, NEW u \in Requests, Revoked(r, u) PROVE Types'
  BY <1>9 DEF Revoked
<1>10. ASSUME NEW r \in Requests, Burnt(r) PROVE Types'
  BY <1>10 DEF Burnt
<1>11. ASSUME NEW r \in Requests, Forgotten(r) PROVE Types'
  BY <1>11 DEF Forgotten
<1>12. ASSUME NEW r \in Requests, Deleted(r) PROVE Types'
  <2> DEFINE receipt == [at |-> req[r].since, due |-> req[r].since + TicksADay * Retention,
                         purged |-> FALSE, book |-> req[r].book, blind |-> FALSE]
  <2>1. receipt \in Receipt
    BY RetentionIsPositive DEF Types, Receipt, Request, TicksADay
  <2>2. deletions' = [deletions EXCEPT ![req[r].user] = receipt]
    BY <1>12 DEF Deleted
  <2>3. deletions' \in [Requests -> Receipt \cup {None}]
    <3> HIDE DEF receipt
    <3> QED BY <2>1, <2>2 DEF Types
  <2> QED
    BY <1>12, <2>3 DEF Deleted, Moved, Types
<1>13. ASSUME Dump PROVE Types'
  BY <1>13 DEF Dump, Types, rows
<1>14. ASSUME NEW complete \in BOOLEAN, Upload(complete) PROVE Types'
  BY <1>14 DEF Upload, Types, Copy, rows
<1>15. ASSUME Prune PROVE Types'
  BY <1>15, Pruning DEF Types
<1>16. ASSUME Sweep PROVE Types'
  BY <1>16 DEF Sweep, Types, Receipt
<1>17. ASSUME Tick PROVE Types'
  BY <1>17 DEF Tick, Types, rows
<1> QED
  BY <1>1, <1>2, <1>3, <1>4, <1>5, <1>6, <1>7, <1>8, <1>9, <1>10, <1>11, <1>12, <1>13, <1>14,
     <1>15, <1>16, <1>17, Steps

LEMMA StagesStep ==
  ASSUME Types, Stages, [Next]_vars
  PROVE  Stages'
<1> USE DEF Moved, Placed, Stage, Stages, Staged, Types, SigningIn, Founding, Erasing
<1>1. ASSUME UNCHANGED req PROVE Stages'
  BY <1>1
<1>2. ASSUME NEW r \in Requests, NEW l \in Links, LinkTaken(r, l) PROVE Stages'
  BY <1>2 DEF LinkTaken
<1>3. ASSUME NEW r \in Requests, UserFound(r) PROVE Stages'
  <2>1. \A q \in Requests \ {r} : Staged(req[q], q) /\ req'[q] = req[q]
    BY <1>3 DEF UserFound, Moved, Stages
  <2>2. req[r].link \in Links
    BY <1>3 DEF UserFound, Stages, Staged, SigningIn
  <2>3. CASE account = None
    <3>1. /\ req'[r].at = "inserting" /\ req'[r].new /\ req'[r].user = r
          /\ req'[r].link = req[r].link
      BY <1>3, <2>3 DEF UserFound, Moved, Stage
    <3>2. Staged(req'[r], r)
      BY <2>2, <3>1 DEF Staged, SigningIn, Founding, Erasing
    <3> QED
      BY <2>1, <3>2 DEF Stages
  <2>4. CASE account # None
    <3>1. /\ req'[r].at = "opening" /\ ~req'[r].new /\ req'[r].user = account
          /\ req'[r].link = req[r].link /\ account \in Requests
      BY <1>3, <2>4 DEF UserFound, Moved, Stage, Types
    <3>2. Staged(req'[r], r)
      BY <2>2, <3>1 DEF Staged, SigningIn, Founding, Erasing
    <3> QED
      BY <2>1, <3>2 DEF Stages
  <2> QED
    BY <2>3, <2>4
<1>4. ASSUME NEW r \in Requests, NEW place \in Places, GoesOn(r, place) PROVE Stages'
  BY <1>4 DEF GoesOn
<1>5. ASSUME NEW r \in Requests, SessionOpened(r) PROVE Stages'
  BY <1>5 DEF SessionOpened
<1>6. ASSUME NEW r \in Requests, NEW u \in Requests, DirectoryMade(r, u) PROVE Stages'
  BY <1>6 DEF DirectoryMade
<1>7. ASSUME NEW r \in Requests, BookAdded(r) PROVE Stages'
  BY <1>7 DEF BookAdded
<1>8. ASSUME NEW r \in Requests, NEW u \in Requests, Revoked(r, u) PROVE Stages'
  BY <1>8 DEF Revoked
<1>9. ASSUME NEW r \in Requests, Burnt(r) PROVE Stages'
  BY <1>9 DEF Burnt
<1>10. ASSUME NEW r \in Requests, Forgotten(r) PROVE Stages'
  BY <1>10 DEF Forgotten
<1>11. ASSUME NEW r \in Requests, Deleted(r) PROVE Stages'
  BY <1>11 DEF Deleted
<1> QED
  BY <1>1, <1>2, <1>3, <1>4, <1>5, <1>6, <1>7, <1>8, <1>9, <1>10, <1>11, Steps
     DEF vars, IssueLink, Dump, Upload, Prune, Sweep, Tick, rows, night

LEMMA LinksStep ==
  ASSUME Types, Stages, LinksLocked, [Next]_vars
  PROVE  LinksLocked'
<1> USE DEF Moved, Placed, Stage, Types, LinksLocked, Spent, Kept, InFlight
<1>1. ASSUME UNCHANGED <<links, sessions, req>> PROVE LinksLocked'
  BY <1>1
<1>2. ASSUME NEW l \in Links, IssueLink(l) PROVE LinksLocked'
  <2>1. /\ links[l] = None /\ \A m \in Links \ {l} : links'[m] = links[m]
        /\ UNCHANGED <<req, sessions>>
    BY <1>2 DEF IssueLink, Types
  <2>2. \A m \in Links : Kept(m) \/ Spent(m) => links'[m] = links[m]
    BY <2>1, NoRowIsMissing DEF Kept, Spent
  <2>3. \A q \in InFlight : req[q].link # None => links'[req[q].link] = links[req[q].link]
    BY <2>2 DEF LinksLocked, InFlight, Types, Request
  <2>4. \A s \in sessions : Spent(s.link)'
    BY <2>2 DEF LinksLocked, Spent, Types
  <2> QED
    BY <2>1, <2>3, <2>4 DEF LinksLocked, InFlight, Kept
<1>3. ASSUME NEW r \in Requests, NEW l \in Links, LinkTaken(r, l) PROVE LinksLocked'
  BY <1>3 DEF LinkTaken, LinkIsFree, Usable, Stages, Staged
<1>4. ASSUME NEW r \in Requests, UserFound(r) PROVE LinksLocked'
  BY <1>4 DEF UserFound
<1>5. ASSUME NEW r \in Requests, NEW place \in Places, GoesOn(r, place) PROVE LinksLocked'
  BY <1>5 DEF GoesOn
<1>6. ASSUME NEW r \in Requests, SessionOpened(r) PROVE LinksLocked'
  <2>1. PICK mine \in Links : req[r].link = mine /\ links[mine] \in LinkRow
    BY <1>6, NoRowIsMissing
       DEF SessionOpened, Stages, Staged, SigningIn, LinksLocked, InFlight, Kept, Types
  <2>2. /\ \A m \in Links \ {mine} : links'[m] = links[m]
        /\ links'[mine] \in LinkRow /\ links'[mine].consumed
    BY <1>6, <2>1 DEF SessionOpened, Types, LinkRow
  <2>3. \A q \in InFlight' : q \in InFlight /\ q # r /\ req'[q] = req[q]
    BY <1>6 DEF SessionOpened, Moved, Placed, Stage, InFlight
  <2>4. \A q \in InFlight \ {r} : req[q].link # mine
    BY <1>6, <2>1, NoRowIsMissing DEF LinksLocked, InFlight, SessionOpened
  <2>5. \A s \in sessions' : Spent(s.link)'
    <3>1. Spent(mine)'
      BY <2>2, NoRowIsMissing DEF Spent, LinkRow
    <3>2. \A m \in Links : Spent(m) => Spent(m)'
      BY <2>2, <3>1 DEF Spent
    <3> QED
      BY <1>6, <2>1, <3>1, <3>2 DEF SessionOpened, LinksLocked, Types
  <2>6. \A q \in InFlight : req[q].link # None /\ q # r => links'[req[q].link] = links[req[q].link]
    BY <2>2, <2>4 DEF InFlight, Types, Request
  <2> QED
    BY <2>3, <2>5, <2>6 DEF LinksLocked, Kept
<1>7. ASSUME NEW r \in Requests, NEW u \in Requests, DirectoryMade(r, u) PROVE LinksLocked'
  BY <1>7 DEF DirectoryMade, Stages, Staged
<1>8. ASSUME NEW r \in Requests, BookAdded(r) PROVE LinksLocked'
  BY <1>8 DEF BookAdded
<1>9. ASSUME NEW r \in Requests, NEW u \in Requests, Revoked(r, u) PROVE LinksLocked'
  BY <1>9 DEF Revoked, Stages, Staged
<1>10. ASSUME NEW r \in Requests, Burnt(r) PROVE LinksLocked'
  BY <1>10 DEF Burnt
<1>11. ASSUME NEW r \in Requests, Forgotten(r) PROVE LinksLocked'
  BY <1>11 DEF Forgotten
<1>12. ASSUME NEW r \in Requests, Deleted(r) PROVE LinksLocked'
  <2>1. \A m \in Links : links'[m] = IF m \in req[r].burnt THEN Gone ELSE links[m]
    BY <1>12 DEF Deleted
  <2>2. r \in InFlight /\ \A q \in InFlight' : q \in InFlight /\ q # r /\ req'[q] = req[q]
    BY <1>12 DEF Deleted, Moved, Placed, Stage, InFlight
  <2>3. \A s \in sessions' : Spent(s.link)'
    <3>1. \A s \in sessions' : s \in sessions /\ s.link \in Links
      BY <1>12 DEF Deleted, Types
    <3> QED
      BY <2>1, <3>1 DEF LinksLocked, Spent
  <2>4. \A q \in InFlight : req[q].link # None => links'[req[q].link] = links[req[q].link]
    BY <2>1, <2>2 DEF LinksLocked, Types, Request, InFlight
  <2> QED
    BY <2>2, <2>3, <2>4 DEF LinksLocked, Kept
<1>13. ASSUME Sweep PROVE LinksLocked'
  <2>1. UNCHANGED <<req, sessions>>
    BY <1>13 DEF Sweep
  <2>2. \A m \in Links : links'[m] = Gone \/ links'[m] = links[m]
    BY <1>13 DEF Sweep
  <2>3. \A q \in InFlight : req[q].link # None => links'[req[q].link] = links[req[q].link]
    BY <1>13 DEF Sweep, LinkIsFree, Types, Request, InFlight
  <2>4. \A s \in sessions : Spent(s.link)'
    BY <2>2 DEF LinksLocked, Spent, Types
  <2> QED
    BY <2>1, <2>3, <2>4 DEF LinksLocked, Kept, InFlight
<1> QED
  BY <1>1, <1>2, <1>3, <1>4, <1>5, <1>6, <1>7, <1>8, <1>9, <1>10, <1>11, <1>12, <1>13, Steps
     DEF vars, Dump, Upload, Prune, Tick, rows, night

(* Sessions, books and deletions are of the account there is, and nobody   *)
(* writes for an account whose row is about to go.                         *)
Owned ==
    /\ account # None => At(account, "over")
    /\ \A s \in sessions : s.user = account
    /\ \A u \in Requests : books[u] # None => u = account /\ At(books[u], "over")
    /\ \A r \in Requests :
        /\ req[r].at \in {"opening", "opened"} /\ req[r].new => account = None
        /\ At(r, "opened") /\ ~req[r].new => req[r].user = account
        /\ At(r, "rowed") => req[r].user = account
        /\ req[r].at \in Erasing => req[r].user = account
OneByOne ==
    \A r, q \in Requests :
        /\ req[r].new /\ req[q].new /\ {req[r].at, req[q].at} \subseteq {"opening", "opened"}
              => r = q
        /\ {req[r].at, req[q].at} \subseteq Erasing => r = q
        /\ At(r, "receipting") => req[q].at \notin {"opened", "rowed"}

LEMMA OwnedStep ==
  ASSUME Types, Stages, Owned, OneByOne, [Next]_vars
  PROVE  Owned'
<1> USE DEF Moved, Placed, Stage, Types, Owned, Erasing, At
<1>1. ASSUME UNCHANGED <<account, sessions, books, req>> PROVE Owned'
  BY <1>1
<1>2. ASSUME NEW r \in Requests, NEW l \in Links, LinkTaken(r, l) PROVE Owned'
  BY <1>2 DEF LinkTaken
<1>3. ASSUME NEW r \in Requests, UserFound(r) PROVE Owned'
  <2>1. /\ \A q \in Requests \ {r} : req'[q] = req[q]
        /\ req'[r].at \in {"inserting", "opening"} /\ req[r].at = "finding"
        /\ account # None => ~req'[r].new
        /\ UNCHANGED <<account, sessions, books>>
    <3>1. CASE account = None
      BY <1>3, <3>1 DEF UserFound, Moved, Stage
    <3>2. CASE account # None
      BY <1>3, <3>2 DEF UserFound, Moved, Stage
    <3> QED
      BY <3>1, <3>2
  <2> QED
    BY <2>1 DEF Owned, At, Erasing, Types
<1>4. ASSUME NEW r \in Requests, NEW place \in Places, GoesOn(r, place) PROVE Owned'
  BY <1>4 DEF GoesOn, Stages, Staged, Founding
<1>5. ASSUME NEW r \in Requests, SessionOpened(r) PROVE Owned'
  <2>1. /\ \A q \in Requests \ {r} : req'[q] = req[q]
        /\ req'[r].at = "over" /\ req[r].at = "opened" /\ UNCHANGED books
        /\ account' = req[r].user /\ req[r].user \in Requests
        /\ \A s \in sessions' : s \in sessions \/ s.user = req[r].user
    BY <1>5 DEF SessionOpened, Moved, Placed, Stage, Stages, Staged
  <2>2. CASE req[r].new
    <3>1. account = None /\ req[r].user = r /\ sessions = {}
      BY <2>1, <2>2, NoRowIsMissing DEF Owned, Stages, Staged, SigningIn, Types
    <3>2. \A q \in Requests \ {r} :
            /\ ~(req[q].at \in {"opening", "opened"} /\ req[q].new)
            /\ ~(At(q, "opened") /\ ~req[q].new) /\ ~At(q, "rowed") /\ req[q].at \notin Erasing
      BY <2>1, <2>2, <3>1, NoRowIsMissing
         DEF OneByOne, Owned, Stages, Staged, SigningIn, Founding, At
    <3>3. \A u \in Requests : books[u] = None
      BY <3>1, NoRowIsMissing DEF Owned
    <3> QED
      BY <2>1, <3>1, <3>2, <3>3 DEF Owned, At, Erasing
  <2>3. CASE ~req[r].new
    <3>1. account' = account
      BY <2>1, <2>3 DEF Owned, At
    <3> QED
      BY <2>1, <3>1 DEF Owned, At, Erasing, Types
  <2> QED
    BY <2>2, <2>3
<1>6. ASSUME NEW r \in Requests, NEW u \in Requests, DirectoryMade(r, u) PROVE Owned'
  BY <1>6 DEF DirectoryMade
<1>7. ASSUME NEW r \in Requests, BookAdded(r) PROVE Owned'
  BY <1>7 DEF BookAdded
<1>8. ASSUME NEW r \in Requests, NEW u \in Requests, Revoked(r, u) PROVE Owned'
  BY <1>8 DEF Revoked, SignedIn
<1>9. ASSUME NEW r \in Requests, Burnt(r) PROVE Owned'
  BY <1>9 DEF Burnt
<1>10. ASSUME NEW r \in Requests, Forgotten(r) PROVE Owned'
  BY <1>10 DEF Forgotten
<1>11. ASSUME NEW r \in Requests, Deleted(r) PROVE Owned'
  <2>1. /\ \A q \in Requests \ {r} : req'[q] = req[q]
        /\ req'[r].at = "over" /\ req[r].at = "receipting" /\ req[r].user = account
        /\ account' = None
    BY <1>11 DEF Deleted, Moved, Placed, Stage, Owned, Erasing
  <2>2. sessions' = {}
    BY <1>11, <2>1 DEF Deleted, Owned
  <2>3. \A u \in Requests : books'[u] = None
    BY <1>11, <2>1 DEF Deleted, Owned, Types
  <2>4. \A q \in Requests \ {r} : ~At(q, "opened") /\ ~At(q, "rowed") /\ req[q].at \notin Erasing
    BY <2>1 DEF OneByOne, At, Erasing
  <2> QED
    BY <2>1, <2>2, <2>3, <2>4 DEF Owned, At, Erasing
<1> QED
  BY <1>1, <1>2, <1>3, <1>4, <1>5, <1>6, <1>7, <1>8, <1>9, <1>10, <1>11, Steps
     DEF vars, IssueLink, Dump, Upload, Prune, Sweep, Tick, rows, night

LEMMA OneByOneStep ==
  ASSUME Types, Stages, Owned, OneByOne, [Next]_vars
  PROVE  OneByOne'
<1> USE DEF Moved, Placed, Stage, OneByOne, Erasing, At
<1>1. ASSUME UNCHANGED req PROVE OneByOne'
  BY <1>1
<1>2. ASSUME NEW r \in Requests, NEW l \in Links, LinkTaken(r, l) PROVE OneByOne'
  BY <1>2 DEF LinkTaken
<1>3. ASSUME NEW r \in Requests, UserFound(r) PROVE OneByOne'
  BY <1>3 DEF UserFound, Owned
<1>4. ASSUME NEW r \in Requests, NEW place \in Places, GoesOn(r, place) PROVE OneByOne'
  <2>1. /\ \A q \in Requests \ {r} : req'[q] = req[q]
        /\ req'[r].at = place /\ req'[r].new = req[r].new
        /\ place \in {"over", "opening", "opened", "rowed", "receipting"}
    BY <1>4 DEF GoesOn, Moved, Placed, Stage
  <2>2. ASSUME NEW q \in Requests \ {r}, req[q].new, req'[r].new,
               {req[q].at, place} \subseteq {"opening", "opened"}
        PROVE  FALSE
    BY <1>4, <2>1, <2>2 DEF GoesOn, OneByOne, InFlight
  <2>3. ASSUME NEW q \in Requests \ {r}, {req[q].at, place} \subseteq Erasing
        PROVE  FALSE
    BY <1>4, <2>1, <2>3 DEF GoesOn, OneByOne, Erasing
  <2>4. ASSUME NEW q \in Requests, req[q].at = "receipting" PROVE place \notin {"opened", "rowed"}
    BY <1>4, <2>1, <2>4, NoRowIsMissing
       DEF GoesOn, RowIsFree, Deleting, InFlight, At, Owned, Erasing, Stages, Staged, Founding
  <2>5. ASSUME NEW q \in Requests, req[q].at \in {"opened", "rowed"}, q # r
        PROVE  place # "receipting"
    BY <1>4, <2>1, <2>5, NoRowIsMissing
       DEF GoesOn, InFlight, At, Owned, Erasing, Stages, Staged, Founding
  <2> QED
    BY <2>1, <2>2, <2>3, <2>4, <2>5 DEF OneByOne, At
<1>5. ASSUME NEW r \in Requests, SessionOpened(r) PROVE OneByOne'
  BY <1>5 DEF SessionOpened
<1>6. ASSUME NEW r \in Requests, NEW u \in Requests, DirectoryMade(r, u) PROVE OneByOne'
  BY <1>6 DEF DirectoryMade
<1>7. ASSUME NEW r \in Requests, BookAdded(r) PROVE OneByOne'
  BY <1>7 DEF BookAdded
<1>8. ASSUME NEW r \in Requests, NEW u \in Requests, Revoked(r, u) PROVE OneByOne'
  BY <1>8 DEF Revoked, SignedIn, Owned, Deleting, InFlight
<1>9. ASSUME NEW r \in Requests, Burnt(r) PROVE OneByOne'
  BY <1>9 DEF Burnt
<1>10. ASSUME NEW r \in Requests, Forgotten(r) PROVE OneByOne'
  BY <1>10 DEF Forgotten
<1>11. ASSUME NEW r \in Requests, Deleted(r) PROVE OneByOne'
  BY <1>11 DEF Deleted
<1> QED
  BY <1>1, <1>2, <1>3, <1>4, <1>5, <1>6, <1>7, <1>8, <1>9, <1>10, <1>11, Steps
     DEF vars, IssueLink, Dump, Upload, Prune, Sweep, Tick, rows, night

(* A receipt is of an account that is gone: its directory was made by a    *)
(* request that is over, and is not made again.                            *)
Past(b) == b = None \/ At(b, "over")
Erased ==
    /\ \A u \in Requests : deletions[u] # None =>
          /\ At(u, "over") /\ account # u
          /\ Past(deletions[u].book) /\ deletions[u].book \notin dirs
    /\ \A r \in Requests : req[r].at \in Erasing => Past(req[r].book)
    /\ \A r \in Requests : req[r].at \in {"dropping", "receipting"} => req[r].book \notin dirs

(* A step of a request that is not over leaves what is past in the past.   *)
LEMMA PastStays ==
  ASSUME Types, Erased, NEW r \in Requests, req[r].at # "over",
         \A q \in Requests \ {r} : req'[q] = req[q]
  PROVE  /\ \A b \in Requests \cup {None} : Past(b) => b # r /\ Past(b)'
         /\ \A u \in Requests : deletions[u] # None =>
                /\ At(u, "over")' /\ u # r /\ deletions[u].book # r
                /\ deletions[u].book = None \/ req'[deletions[u].book].at = "over"
                /\ deletions[u].book \in Requests \cup {None}
         /\ \A q \in Requests : req[q].at \in Erasing =>
                /\ req[q].book \in Requests \cup {None}
                /\ req[q].book # r /\ (req[q].book = None \/ req'[req[q].book].at = "over")
<1>1. \A b \in Requests \cup {None} : Past(b) => b # r /\ Past(b)'
  BY NoRowIsMissing DEF Past, At
<1>2. /\ \A u \in Requests : deletions[u] # None => deletions[u].book \in Requests \cup {None}
      /\ \A q \in Requests : req[q].book \in Requests \cup {None}
  BY DEF Types, Receipt, Request
<1>3. \A u \in Requests : deletions[u] # None => At(u, "over")' /\ u # r
  BY DEF Erased, At
<1>4. \A u \in Requests : deletions[u] # None =>
          /\ deletions[u].book # r
          /\ deletions[u].book = None \/ req'[deletions[u].book].at = "over"
  BY <1>2, NoRowIsMissing DEF Erased, Past, At
<1>5. \A q \in Requests : req[q].at \in Erasing =>
          req[q].book # r /\ (req[q].book = None \/ req'[req[q].book].at = "over")
  BY <1>2, NoRowIsMissing DEF Erased, Past, At
<1> QED
  BY <1>1, <1>2, <1>3, <1>4, <1>5

LEMMA ErasedStep ==
  ASSUME Types, Stages, Owned, OneByOne, Erased, [Next]_vars
  PROVE  Erased'
<1> USE DEF Moved, Placed, Stage, Erased, Past, At, Erasing
<1>1. ASSUME UNCHANGED <<account, deletions, dirs, req>> PROVE Erased'
  BY <1>1
<1>2. ASSUME NEW r \in Requests, NEW l \in Links, LinkTaken(r, l) PROVE Erased'
  BY <1>2, PastStays DEF LinkTaken
<1>3. ASSUME NEW r \in Requests, UserFound(r) PROVE Erased'
  BY <1>3, PastStays DEF UserFound
<1>4. ASSUME NEW r \in Requests, NEW place \in Places, GoesOn(r, place) PROVE Erased'
  <2>1. /\ \A q \in Requests \ {r} : req'[q] = req[q]
        /\ req'[r].at = place /\ req'[r].book = req[r].book /\ req[r].at # "over"
        /\ place \in Erasing => place = "receipting" /\ req[r].at = "dropping"
        /\ UNCHANGED <<account, deletions, dirs>>
    BY <1>4 DEF GoesOn, Moved, Placed, Stage, Erasing
  <2> QED
    BY <2>1, PastStays DEF Erased, Past, At, Erasing
<1>5. ASSUME NEW r \in Requests, SessionOpened(r) PROVE Erased'
  <2>1. /\ \A q \in Requests \ {r} : req'[q] = req[q]
        /\ req'[r].at = "over" /\ req[r].at = "opened"
        /\ account' = req[r].user /\ UNCHANGED <<deletions, dirs>>
    BY <1>5 DEF SessionOpened, Moved, Placed, Stage
  <2>2. account' = r \/ account' = account
    BY <2>1 DEF Owned, Stages, Staged, SigningIn, At
  <2> QED
    BY <2>1, <2>2, PastStays DEF Erased, Past, At, Erasing
<1>6. ASSUME NEW r \in Requests, NEW u \in Requests, DirectoryMade(r, u) PROVE Erased'
  <2>1. /\ \A q \in Requests \ {r} : req'[q] = req[q]
        /\ req'[r].at = "rowless" /\ req[r].at = "off"
        /\ UNCHANGED <<account, deletions>> /\ dirs' = dirs \cup {r}
    BY <1>6 DEF DirectoryMade, Moved, Stage
  <2> QED
    BY <2>1, PastStays DEF Erased, Past, At, Erasing
<1>7. ASSUME NEW r \in Requests, BookAdded(r) PROVE Erased'
  <2>1. /\ \A q \in Requests \ {r} : req'[q] = req[q]
        /\ req'[r].at = "over" /\ req[r].at = "rowed" /\ UNCHANGED <<account, deletions, dirs>>
    BY <1>7 DEF BookAdded, Moved, Placed, Stage
  <2> QED
    BY <2>1, PastStays DEF Erased, Past, At, Erasing
<1>8. ASSUME NEW r \in Requests, NEW u \in Requests, Revoked(r, u) PROVE Erased'
  <2>1. /\ \A q \in Requests \ {r} : req'[q] = req[q]
        /\ req'[r].at = "erasing" /\ req[r].at = "off" /\ req'[r].book = books[u]
        /\ UNCHANGED <<account, deletions, dirs>>
    BY <1>8 DEF Revoked, Moved, Stage
  <2>2. books[u] \in Requests \cup {None} /\ Past(books[u])
    BY DEF Types, Owned, Past
  <2> QED
    BY <2>1, <2>2, PastStays DEF Erased, Past, At, Erasing
<1>9. ASSUME NEW r \in Requests, Burnt(r) PROVE Erased'
  BY <1>9, PastStays DEF Burnt
<1>10. ASSUME NEW r \in Requests, Forgotten(r) PROVE Erased'
  BY <1>10, PastStays DEF Forgotten
<1>11. ASSUME NEW r \in Requests, Deleted(r) PROVE Erased'
  <2>1. /\ \A q \in Requests \ {r} : req'[q] = req[q]
        /\ req'[r].at = "over" /\ req[r].at = "receipting" /\ UNCHANGED dirs
        /\ account' = None /\ req[r].user = account /\ account \in Requests
    BY <1>11 DEF Deleted, Moved, Placed, Stage, Owned, Stages, Staged, Erasing
  <2>2. /\ \A u \in Requests \ {account} : deletions'[u] = deletions[u]
        /\ deletions'[account].book = req[r].book
    BY <1>11, <2>1 DEF Deleted, Types
  <2>3. Past(req[r].book) /\ req[r].book \notin dirs /\ At(account, "over") /\ account # r
    BY <2>1, NoRowIsMissing DEF Erased, Owned, Erasing, At
  <2>4. \A b \in Requests \cup {None} : Past(b) => Past(b)'
    BY <2>1 DEF Past, At
  <2>5. \A u \in Requests : deletions'[u] # None =>
            At(u, "over")' /\ Past(deletions'[u].book) /\ deletions'[u].book \notin dirs
    BY <2>1, <2>2, <2>3 DEF Erased, At
  <2>6. \A q \in Requests : req'[q].at \in Erasing =>
            /\ Past(req'[q].book)
            /\ req'[q].at \in {"dropping", "receipting"} => req'[q].book \notin dirs
    BY <2>1 DEF Erased, Erasing
  <2>7. /\ \A q \in Requests : req'[q].book \in Requests \cup {None}
        /\ \A u \in Requests : deletions'[u] # None => deletions'[u].book \in Requests \cup {None}
    BY <1>11, <2>1, <2>2, <2>3 DEF Deleted, Moved, Types, Request, Receipt
  <2> QED
    BY <2>1, <2>4, <2>5, <2>6, <2>7, NoRowIsMissing DEF Erased, Erasing
<1>12. ASSUME Sweep PROVE Erased'
  <2>1. Swept
    BY <1>12, Sweeping
  <2> QED
    BY <2>1 DEF Swept, Erased, Past, At
<1> QED
  BY <1>1, <1>2, <1>3, <1>4, <1>5, <1>6, <1>7, <1>8, <1>9, <1>10, <1>11, <1>12, Steps
     DEF vars, IssueLink, Dump, Upload, Prune, Tick, rows, night

(* Stamps and deletions are not of the future, a snapshot is of the backup *)
(* hour, and the marker is at most the oldest stamp.                       *)
Clocked ==
    /\ job # None => job.stamp = now /\ Hour = BackupHour
    /\ \A s \in bucket : s.stamp <= now /\ s.stamp % TicksADay = BackupHour
    /\ \A r \in Requests : req[r].at \in Erasing => req[r].since <= now /\ now <= req[r].since + 1
    /\ \A u \in Requests : deletions[u] # None =>
          /\ deletions[u].at <= now /\ deletions[u].due = deletions[u].at + TicksADay * Retention
          /\ deletions[u].purged /\ deletions[u].at = now => Hour = SweepHour
    /\ marker # None => marker <= now /\ \A s \in bucket : marker <= s.stamp

LEMMA ClockedStep ==
  ASSUME Types, Stages, Clocked, [Next]_vars
  PROVE  Clocked'
<1> USE DEF Moved, Placed, Stage, Clocked, Hour, Erasing
<1>1. ASSUME UNCHANGED <<now, deletions, req, job, bucket, marker>> PROVE Clocked'
  BY <1>1
<1>2. ASSUME NEW r \in Requests, NEW l \in Links, LinkTaken(r, l) PROVE Clocked'
  BY <1>2 DEF LinkTaken
<1>3. ASSUME NEW r \in Requests, UserFound(r) PROVE Clocked'
  BY <1>3 DEF UserFound
<1>4. ASSUME NEW r \in Requests, NEW place \in Places, GoesOn(r, place) PROVE Clocked'
  BY <1>4 DEF GoesOn
<1>5. ASSUME NEW r \in Requests, SessionOpened(r) PROVE Clocked'
  BY <1>5 DEF SessionOpened
<1>6. ASSUME NEW r \in Requests, NEW u \in Requests, DirectoryMade(r, u) PROVE Clocked'
  BY <1>6 DEF DirectoryMade
<1>7. ASSUME NEW r \in Requests, BookAdded(r) PROVE Clocked'
  BY <1>7 DEF BookAdded
<1>8. ASSUME NEW r \in Requests, NEW u \in Requests, Revoked(r, u) PROVE Clocked'
  BY <1>8 DEF Revoked, Types
<1>9. ASSUME NEW r \in Requests, Burnt(r) PROVE Clocked'
  BY <1>9 DEF Burnt
<1>10. ASSUME NEW r \in Requests, Forgotten(r) PROVE Clocked'
  BY <1>10 DEF Forgotten
<1>11. ASSUME NEW r \in Requests, Deleted(r) PROVE Clocked'
  BY <1>11 DEF Deleted, Types, Request
<1>12. ASSUME Dump PROVE Clocked'
  BY <1>12 DEF Dump, rows
<1>13. ASSUME NEW complete \in BOOLEAN, Upload(complete) PROVE Clocked'
  BY <1>13 DEF Upload, rows, Types, Copy
<1>14. ASSUME Prune PROVE Clocked'
  <2>1. /\ bucket' \subseteq bucket /\ UNCHANGED <<now, deletions, req, job>>
        /\ marker' = None \/ \A s \in bucket' : marker' <= s.stamp
        /\ marker' = None \/ \E s \in bucket' : s.stamp = marker'
    BY <1>14, Pruning
  <2> QED
    BY <2>1 DEF Clocked, Hour, Types, Copy
<1>15. ASSUME Sweep PROVE Clocked'
  <2>1. Swept
    BY <1>15, Sweeping
  <2> QED
    BY <2>1 DEF Swept, Clocked, Hour
<1>16. ASSUME Tick PROVE Clocked'
  <2>1. /\ job' = None /\ now' = now + 1 /\ UNCHANGED <<bucket, deletions, marker, req>>
        /\ \A r \in Requests : req[r].at \in Erasing => req[r].since = now
    BY <1>16 DEF Tick, rows, InFlight, Erasing
  <2>2. \A r \in Requests : req[r].since \in Nat
    BY DEF Types, Request
  <2>3. \A u \in Requests : deletions[u] # None => deletions[u].at \in Nat
    BY DEF Types, Receipt
  <2>4. \A s \in bucket : s.stamp \in Nat
    BY DEF Types, Copy
  <2> QED
    BY <2>1, <2>2, <2>3, <2>4 DEF Clocked, Types
<1> QED
  BY <1>1, <1>2, <1>3, <1>4, <1>5, <1>6, <1>7, <1>8, <1>9, <1>10, <1>11, <1>12, <1>13, <1>14,
     <1>15, <1>16, Steps
     DEF vars, IssueLink, rows, night

(* A snapshot of after the beginning of a deletion holds the account only  *)
(* if it was taken while the deletion was under way; the same of the       *)
(* deletions and of the backup that have not ended.                        *)
Covered ==
    /\ \A s \in bucket, u \in Requests :
          deletions[u] # None /\ s.stamp > deletions[u].at /\ HoldsAccount(s, u) => u \in s.during
    /\ \A s \in bucket, r \in Requests :
          req[r].at \in Erasing /\ s.stamp > req[r].since
            /\ (req[r].user \in s.users \/ req[r].book \in s.dirs) => req[r].user \in s.during
    /\ job # None =>
        /\ \A u \in Requests :
              deletions[u] # None /\ now > deletions[u].at /\ u \in job.users => u \in job.during
        /\ \A r \in Requests :
              req[r].at \in Erasing /\ now > req[r].since => req[r].user \in job.during

(* A step of a request that erases nothing, or only goes on erasing.       *)
Keeps(r) ==
    /\ \A q \in Requests \ {r} : req'[q] = req[q]
    /\ UNCHANGED <<now, deletions, bucket, job>>
    /\ req'[r].at \in Erasing =>
          \/ req'[r].since = now
          \/ /\ req[r].at \in Erasing /\ req'[r].since = req[r].since
             /\ req'[r].user = req[r].user /\ req'[r].book = req[r].book

LEMMA CoveredStays ==
  ASSUME Types, Clocked, Covered, NEW r \in Requests, Keeps(r)
  PROVE  Covered'
<1>1. \A s \in bucket : s.stamp \in Nat /\ s.stamp <= now
  BY DEF Types, Copy, Clocked
<1>2. ASSUME NEW s \in bucket, NEW q \in Requests, req'[q].at \in Erasing,
             s.stamp > req'[q].since, req'[q].user \in s.users \/ req'[q].book \in s.dirs
      PROVE  req'[q].user \in s.during
  <2>1. q # r \/ req'[r].since # now
    BY <1>1, <1>2 DEF Types
  <2> QED
    BY <1>2, <2>1 DEF Keeps, Covered
<1>3. ASSUME job # None, NEW q \in Requests, req'[q].at \in Erasing, now > req'[q].since
      PROVE  req'[q].user \in job.during
  <2>1. q # r \/ req'[r].since # now
    BY <1>3 DEF Types
  <2> QED
    BY <1>3, <2>1 DEF Keeps, Covered
<1> QED
  BY <1>2, <1>3 DEF Keeps, Covered, HoldsAccount

LEMMA Keeping ==
  ASSUME NEW r \in Requests
  PROVE  /\ \A l \in Links : LinkTaken(r, l) => Keeps(r)
         /\ \A place \in Places : GoesOn(r, place) => Keeps(r)
         /\ \A u \in Requests : DirectoryMade(r, u) \/ Revoked(r, u) => Keeps(r)
         /\ UserFound(r) \/ SessionOpened(r) \/ BookAdded(r) \/ Burnt(r) \/ Forgotten(r) => Keeps(r)
<1> USE DEF Moved, Placed, Stage, Keeps, Erasing
<1>1. ASSUME NEW l \in Links, LinkTaken(r, l) PROVE Keeps(r)
  BY <1>1 DEF LinkTaken
<1>2. ASSUME NEW place \in Places, GoesOn(r, place) PROVE Keeps(r)
  BY <1>2 DEF GoesOn
<1>3. ASSUME NEW u \in Requests, DirectoryMade(r, u) PROVE Keeps(r)
  BY <1>3 DEF DirectoryMade
<1>4. ASSUME NEW u \in Requests, Revoked(r, u) PROVE Keeps(r)
  BY <1>4 DEF Revoked
<1>5. ASSUME UserFound(r) PROVE Keeps(r)
  BY <1>5 DEF UserFound
<1>6. ASSUME SessionOpened(r) \/ BookAdded(r) \/ Burnt(r) \/ Forgotten(r) PROVE Keeps(r)
  BY <1>6 DEF SessionOpened, BookAdded, Burnt, Forgotten
<1> QED
  BY <1>1, <1>2, <1>3, <1>4, <1>5, <1>6

LEMMA CoveredStep ==
  ASSUME Types, Stages, Owned, Erased, Clocked, Covered, [Next]_vars
  PROVE  Covered'
<1> USE DEF Moved, Placed, Stage, Covered, HoldsAccount
<1>1. ASSUME UNCHANGED <<now, deletions, req, job, bucket>> PROVE Covered'
  BY <1>1
<1>2. ASSUME NEW r \in Requests, Deleted(r) PROVE Covered'
  <2>1. /\ \A q \in Requests \ {r} : req'[q] = req[q]
        /\ req'[r].at = "over" /\ req[r].at = "receipting" /\ req[r].user \in Requests
        /\ UNCHANGED <<now, bucket, job>>
    BY <1>2 DEF Deleted, Moved, Placed, Stage, Stages, Staged, Erasing
  <2>2. /\ \A u \in Requests \ {req[r].user} : deletions'[u] = deletions[u]
        /\ deletions'[req[r].user].book = req[r].book
        /\ deletions'[req[r].user].at = req[r].since
    BY <1>2, <2>1 DEF Deleted, Types
  <2>3. \A s \in bucket, u \in Requests :
          deletions'[u] # None /\ s.stamp > deletions'[u].at
            /\ (u \in s.users \/ deletions'[u].book \in s.dirs) => u \in s.during
    BY <2>1, <2>2 DEF Covered, HoldsAccount, Erasing
  <2>4. job # None => \A u \in Requests :
          deletions'[u] # None /\ now > deletions'[u].at /\ u \in job.users => u \in job.during
    BY <2>1, <2>2 DEF Covered, Erasing
  <2> QED
    BY <2>1, <2>3, <2>4 DEF Covered, HoldsAccount, Erasing
<1>3. ASSUME Dump PROVE Covered'
  <2>1. /\ UNCHANGED <<now, deletions, req, bucket>>
        /\ job'.users = {account} \ {None}
        /\ job'.during = {u \in Requests : Deleting(u) # {}}
    BY <1>3 DEF Dump, rows
  <2>2. \A r \in Requests : req[r].at \in Erasing => req[r].user \in job'.during
    BY <2>1 DEF Deleting, InFlight, Erasing, Stages, Staged
  <2>3. \A u \in Requests : deletions[u] # None => u \notin job'.users
    BY <2>1 DEF Erased
  <2> QED
    BY <2>1, <2>2, <2>3 DEF Covered, HoldsAccount
<1>4. ASSUME NEW complete \in BOOLEAN, Upload(complete) PROVE Covered'
  <2>1. Clocked /\ job # None /\ UNCHANGED <<now, deletions, req>> /\ job' = None
    BY <1>4 DEF Upload, rows
  <2> DEFINE copy == [stamp |-> job.stamp, complete |-> complete, users |-> job.users,
                      dirs |-> dirs, during |-> job.during]
  <2>2. bucket' = bucket \cup {copy}
    BY <1>4 DEF Upload
  <2>3. /\ copy.stamp = now /\ copy.users = job.users /\ copy.dirs = dirs
        /\ copy.during = job.during
    BY <2>1 DEF Clocked
  <2> HIDE DEF copy
  <2>4. \A u \in Requests :
          deletions[u] # None /\ copy.stamp > deletions[u].at /\ HoldsAccount(copy, u)
            => u \in copy.during
    BY <2>1, <2>3 DEF Covered, Erased, HoldsAccount
  <2>5. \A r \in Requests : req[r].at \in Erasing /\ copy.stamp > req[r].since
            => req[r].user \in copy.during
    BY <2>1, <2>3 DEF Covered
  <2> QED
    BY <2>1, <2>2, <2>4, <2>5 DEF Covered, HoldsAccount
<1>5. ASSUME Prune PROVE Covered'
  <2>1. bucket' \subseteq bucket /\ UNCHANGED <<now, deletions, req, job>>
    BY <1>5, Pruning
  <2> QED
    BY <2>1 DEF Covered, HoldsAccount
<1>6. ASSUME Sweep PROVE Covered'
  <2>1. Swept
    BY <1>6, Sweeping
  <2> QED
    BY <2>1 DEF Swept, Covered, HoldsAccount
<1>7. ASSUME Tick PROVE Covered'
  <2>1. job' = None /\ UNCHANGED <<deletions, req, bucket>>
    BY <1>7 DEF Tick, rows
  <2> QED
    BY <2>1 DEF Covered, HoldsAccount
<1>8. ASSUME NEW r \in Requests, Keeps(r) PROVE Covered'
  BY <1>8, CoveredStays
<1> QED
  BY <1>1, <1>2, <1>3, <1>4, <1>5, <1>6, <1>7, <1>8, Steps, Keeping
     DEF vars, IssueLink, rows, night

(* What is left of the steps for the nightly jobs and the receipts.        *)
LEMMA NightSteps ==
  ASSUME Types, [Next]_vars
  PROVE  \/ UNCHANGED <<now, deletions, job, bucket, marker, ran>>
         \/ \E r \in Requests : Deleted(r)
         \/ Dump \/ (\E complete \in BOOLEAN : Upload(complete)) \/ Prune \/ Sweep \/ Tick
<1>1. ASSUME NEW l \in Links, IssueLink(l)
      PROVE  UNCHANGED <<now, deletions, job, bucket, marker, ran>>
  BY <1>1 DEF IssueLink, night
<1>2. ASSUME NEW r \in Requests,
             \/ \E l \in Links : LinkTaken(r, l)
             \/ \E place \in Places : GoesOn(r, place)
             \/ \E u \in Requests : DirectoryMade(r, u) \/ Revoked(r, u)
             \/ UserFound(r) \/ SessionOpened(r) \/ BookAdded(r) \/ Burnt(r) \/ Forgotten(r)
      PROVE  UNCHANGED <<now, deletions, job, bucket, marker, ran>>
  BY <1>2 DEF LinkTaken, UserFound, GoesOn, SessionOpened, DirectoryMade, BookAdded, Revoked,
              Burnt, Forgotten
<1>3. ASSUME UNCHANGED vars PROVE UNCHANGED <<now, deletions, job, bucket, marker, ran>>
  BY <1>3 DEF vars
<1> QED
  BY <1>1, <1>2, <1>3, Steps

(* A window that was closed by a marker is older than every snapshot.      *)
Closed ==
    \A u \in Requests : deletions[u] # None /\ deletions[u].purged /\ ~deletions[u].blind =>
        /\ \A s \in bucket : s.stamp > deletions[u].at
        /\ job # None => now > deletions[u].at

LEMMA ClosedStep ==
  ASSUME Types, Clocked, Closed, [Next]_vars
  PROVE  Closed'
<1> USE DEF Moved, Placed, Stage, Closed
<1>1. ASSUME UNCHANGED <<now, deletions, job, bucket>> PROVE Closed'
  BY <1>1
<1>2. ASSUME NEW r \in Requests, Deleted(r) PROVE Closed'
  <2>1. /\ \A u \in Requests : deletions'[u] = deletions[u] \/ ~deletions'[u].purged
        /\ UNCHANGED <<now, bucket, job>>
    BY <1>2 DEF Deleted, Types
  <2> QED
    BY <2>1 DEF Closed
<1>3. ASSUME Dump PROVE Closed'
  <2>1. Hour = BackupHour /\ UNCHANGED <<now, deletions, bucket>>
    BY <1>3 DEF Dump, rows
  <2>2. ASSUME NEW u \in Requests, deletions[u] # None, deletions[u].purged
        PROVE  now > deletions[u].at
    <3>1. deletions[u].at <= now /\ deletions[u].at # now
      BY <2>1, <2>2 DEF Clocked, BackupHour, SweepHour
    <3> QED
      BY <2>2, <3>1 DEF Types, Receipt
  <2> QED
    BY <2>1, <2>2 DEF Closed
<1>4. ASSUME NEW complete \in BOOLEAN, Upload(complete) PROVE Closed'
  <2>1. job # None /\ UNCHANGED <<now, deletions>> /\ job' = None
    BY <1>4 DEF Upload, rows
  <2>2. \A s \in bucket' : s \in bucket \/ s.stamp = now
    BY <1>4 DEF Upload, Clocked
  <2> QED
    BY <2>1, <2>2 DEF Closed
<1>5. ASSUME Prune PROVE Closed'
  <2>1. bucket' \subseteq bucket /\ UNCHANGED <<now, deletions, req, job>>
    BY <1>5, Pruning
  <2> QED
    BY <2>1 DEF Closed
<1>6. ASSUME Sweep PROVE Closed'
  <2>0. Swept
    BY <1>6, Sweeping
  <2>1. Swept /\ job = None
    BY <2>0 DEF Swept, Clocked, BackupHour, SweepHour
  <2>2. \A u \in Requests : deletions[u] # None => deletions[u].at \in Nat
    BY DEF Types, Receipt
  <2>3. ASSUME NEW u \in Requests, deletions'[u] # None, deletions'[u].purged,
               ~deletions'[u].blind, deletions'[u] # deletions[u], NEW s \in bucket
        PROVE  s.stamp > deletions'[u].at
    <3>1. deletions[u] # None /\ Closes(u) /\ deletions'[u].at = deletions[u].at /\ marker # None
      BY <2>1, <2>3 DEF Swept
    <3>2. deletions[u].at < marker /\ marker <= s.stamp /\ s.stamp \in Nat /\ marker \in Nat
      BY <3>1 DEF Closes, Clocked, Types, Copy
    <3> QED
      BY <2>2, <3>1, <3>2
  <2> QED
    BY <2>1, <2>3 DEF Swept, Closed
<1>7. ASSUME Tick PROVE Closed'
  <2>1. job' = None /\ UNCHANGED <<deletions, bucket>>
    BY <1>7 DEF Tick, rows
  <2> QED
    BY <2>1 DEF Closed
<1> QED
  BY <1>1, <1>2, <1>3, <1>4, <1>5, <1>6, <1>7, NightSteps

(* After the prune the marker is a stamp of the bucket, and what is        *)
(* complete is within retention.                                           *)
Pruned ==
    /\ "sweep" \in ran => Hour = SweepHour
    /\ "prune" \in ran =>
        /\ Hour \in {PruneHour, SweepHour}
        /\ marker = None => bucket = {}
        /\ marker # None => \E s \in bucket : s.stamp = marker
        /\ \A s \in bucket : s.complete =>
              s.stamp >= now - (Hour - PruneHour) - TicksADay * Retention

LEMMA PrunedStep ==
  ASSUME Types, Clocked, Pruned, [Next]_vars
  PROVE  Pruned'
<1> USE DEF Moved, Placed, Stage, Pruned
<1>1. ASSUME UNCHANGED <<now, bucket, marker, ran>> PROVE Pruned'
  BY <1>1 DEF Hour
<1>2. ASSUME Dump PROVE Pruned'
  BY <1>2 DEF Dump, rows, Hour
<1>3. ASSUME NEW complete \in BOOLEAN, Upload(complete) PROVE Pruned'
  <2>1. Hour = BackupHour /\ UNCHANGED <<now, ran>>
    BY <1>3 DEF Upload, Clocked
  <2> QED
    BY <2>1 DEF Pruned, Hour, BackupHour, PruneHour, SweepHour
<1>4. ASSUME Prune PROVE Pruned'
  <2>1. /\ Hour = PruneHour /\ Hour' = Hour /\ bucket' = {s \in bucket : ~Expired(s)}
        /\ marker' = None => bucket' = {}
        /\ marker' # None => \E s \in bucket' : s.stamp = marker'
        /\ ran' = ran \cup {"prune"} /\ now' = now
    BY <1>4, Pruning, NoRowIsMissing DEF Hour
  <2>2. \A s \in bucket' : s.complete => s.stamp >= now - TicksADay * Retention
    BY <2>1, RetentionIsPositive DEF Expired, Types, Copy, TicksADay
  <2> QED
    BY <2>1, <2>2, RetentionIsPositive DEF Pruned, PruneHour, SweepHour, Types, Copy, TicksADay
<1>5. ASSUME Sweep PROVE Pruned'
  <2>1. Swept
    BY <1>5, Sweeping
  <2> QED
    BY <2>1 DEF Swept, Pruned, Hour
<1>6. ASSUME Tick PROVE Pruned'
  <2>1. /\ now' = now + 1 /\ UNCHANGED <<bucket, marker>>
        /\ ran' = IF Hour = SweepHour THEN {} ELSE ran
    BY <1>6 DEF Tick
  <2>2. Hour \in 0 .. 3 /\ Hour' = IF Hour = SweepHour THEN 0 ELSE Hour + 1
    BY <2>1, ClockHours DEF Types
  <2>3. CASE Hour = SweepHour
    BY <2>1, <2>3 DEF Pruned
  <2>4. CASE Hour # SweepHour
    <3>1. "sweep" \notin ran' /\ ran' = ran
      BY <2>1, <2>4 DEF Pruned
    <3>2. ASSUME "prune" \in ran
          PROVE  Hour = PruneHour /\ Hour' = SweepHour /\ now' - (Hour' - PruneHour) = now
      BY <2>1, <2>2, <2>4, <3>2 DEF Pruned, PruneHour, SweepHour, Types
    <3> QED
      BY <2>1, <3>1, <3>2, RetentionIsPositive
         DEF Pruned, Types, Copy, TicksADay, PruneHour, SweepHour
  <2> QED
    BY <2>3, <2>4
<1> QED
  BY <1>1, <1>2, <1>3, <1>4, <1>5, <1>6, NightSteps DEF Deleted

(* After the sweep what is open and due is held by a snapshot that was     *)
(* never completed.                                                        *)
Due ==
    {"prune", "sweep"} \subseteq ran =>
        \A u \in Requests :
            deletions[u] # None /\ ~deletions[u].purged /\ deletions[u].due <= now =>
                \E s \in bucket : ~s.complete /\ s.stamp <= deletions[u].at

LEMMA DueStep ==
  ASSUME Types, Clocked, Pruned, Due, [Next]_vars
  PROVE  Due'
<1> USE DEF Moved, Placed, Stage, Due
<1>1. ASSUME UNCHANGED <<now, deletions, bucket, ran>> PROVE Due'
  BY <1>1
<1>2. ASSUME NEW r \in Requests, Deleted(r) PROVE Due'
  <2>1. UNCHANGED <<now, bucket, ran>> /\ req[r].at \in Erasing
    BY <1>2 DEF Deleted, Erasing
  <2>2. now <= req[r].since + 1 /\ req[r].since \in Nat
    BY <2>1 DEF Clocked, Types, Request
  <2>3. \A u \in Requests : deletions'[u] # deletions[u] => ~(deletions'[u].due <= now)
    <3>1. \A u \in Requests : deletions'[u] # deletions[u] =>
            deletions'[u].due = req[r].since + TicksADay * Retention
      BY <1>2 DEF Deleted, Types
    <3> QED
      BY <3>1, <2>2, RetentionIsPositive DEF TicksADay, Types
  <2> QED
    BY <2>1, <2>3 DEF Due
<1>3. ASSUME Dump PROVE Due'
  BY <1>3 DEF Dump, rows
<1>4. ASSUME NEW complete \in BOOLEAN, Upload(complete) PROVE Due'
  <2>1. Hour = BackupHour /\ UNCHANGED ran
    BY <1>4 DEF Upload, Clocked
  <2> QED
    BY <2>1 DEF Due, Pruned, BackupHour, SweepHour
<1>5. ASSUME Prune PROVE Due'
  <2>1. Hour = PruneHour /\ ran' = ran \cup {"prune"}
    BY <1>5, Pruning
  <2> QED
    BY <2>1 DEF Due, Pruned, PruneHour, SweepHour
<1>6. ASSUME Sweep PROVE Due'
  <2>1. Swept
    BY <1>6, Sweeping
  <2>2. ASSUME "prune" \in ran, NEW u \in Requests, deletions'[u] # None, ~deletions'[u].purged,
               deletions'[u].due <= now
        PROVE  \E s \in bucket : ~s.complete /\ s.stamp <= deletions'[u].at
    <3>1. deletions'[u] = deletions[u] /\ ~Closes(u)
      BY <2>1, <2>2 DEF Swept
    <3>2. marker \in Nat /\ marker <= deletions[u].at
      BY <3>1, <2>2 DEF Closes, Types, Receipt
    <3>3. PICK s \in bucket : s.stamp = marker
      BY <2>2, <3>2, NoRowIsMissing DEF Pruned
    <3>4. s.stamp \in Nat /\ s.stamp <= deletions[u].at /\ s.stamp % TicksADay = BackupHour
      BY <3>2, <3>3 DEF Clocked
    <3>5. deletions[u].at + TicksADay * Retention <= now /\ deletions[u].at \in Nat
      BY <2>2, <3>1 DEF Clocked, Types, Receipt
    <3>6. ASSUME s.complete PROVE FALSE
      <4>1. s.stamp >= now - 1 - TicksADay * Retention
        BY <2>1, <2>2, <3>3, <3>6 DEF Pruned, Swept, SweepHour, PruneHour
      <4>2. now \in Nat /\ TicksADay * Retention \in Nat
        BY RetentionIsPositive DEF Types, TicksADay
      <4>3. s.stamp \in Nat /\ s.stamp <= now - TicksADay * Retention
        BY <3>4, <3>5, <4>2
      <4>4. \/ s.stamp = now - TicksADay * Retention
            \/ s.stamp = now - TicksADay * Retention - 1
        BY <4>1, <4>2, <4>3
      <4> QED
        BY <2>1, <3>4, <4>4, ClockHours, RetentionIsPositive DEF Swept, Types
    <3> QED
      BY <3>1, <3>4, <3>6
  <2> QED
    BY <2>1, <2>2 DEF Swept, Due
<1>7. ASSUME Tick PROVE Due'
  <2>1. ran' = IF Hour = SweepHour THEN {} ELSE ran
    BY <1>7 DEF Tick
  <2> QED
    BY <2>1 DEF Due, Pruned
<1> QED
  BY <1>1, <1>2, <1>3, <1>4, <1>5, <1>6, <1>7, NightSteps

-----------------------------------------------------------------------------
(* A session of a link is there because its link is spent, and a request   *)
(* that opens one holds a link that is not.                                *)
LEMMA SessionsStep ==
  ASSUME Types, Stages, LinksLocked, LinkOpensOneSession, [Next]_vars
  PROVE  LinkOpensOneSession'
<1>1. ASSUME UNCHANGED sessions PROVE LinkOpensOneSession'
  BY <1>1 DEF LinkOpensOneSession
<1>2. ASSUME NEW r \in Requests, SessionOpened(r) PROVE LinkOpensOneSession'
  <2>1. req[r].link \in Links /\ r \in InFlight
    BY <1>2 DEF SessionOpened, Stages, Staged, SigningIn, InFlight
  <2>2. ~Spent(req[r].link)
    BY <2>1, NoRowIsMissing DEF LinksLocked, Kept, Spent
  <2>3. \A s \in sessions : s.link # req[r].link
    BY <2>2 DEF LinksLocked
  <2> QED
    BY <1>2, <2>3 DEF SessionOpened, LinkOpensOneSession
<1>3. ASSUME NEW r \in Requests, Deleted(r) PROVE LinkOpensOneSession'
  BY <1>3 DEF Deleted, LinkOpensOneSession
<1>4. ASSUME NEW r \in Requests,
             \/ \E l \in Links : LinkTaken(r, l)
             \/ \E place \in Places : GoesOn(r, place)
             \/ \E u \in Requests : DirectoryMade(r, u) \/ Revoked(r, u)
             \/ UserFound(r) \/ BookAdded(r) \/ Burnt(r) \/ Forgotten(r)
      PROVE  UNCHANGED sessions
  BY <1>4 DEF LinkTaken, UserFound, GoesOn, DirectoryMade, BookAdded, Revoked, Burnt, Forgotten
<1>5. ASSUME \/ UNCHANGED vars \/ \E l \in Links : IssueLink(l)
             \/ Dump \/ (\E complete \in BOOLEAN : Upload(complete)) \/ Prune \/ Sweep \/ Tick
      PROVE  UNCHANGED sessions
  BY <1>5 DEF vars, IssueLink, Dump, Upload, Prune, Sweep, Tick, rows
<1> QED
  BY <1>1, <1>2, <1>3, <1>4, <1>5, Steps

(* The parts together.                                                     *)
AccountsInv ==
    /\ Types /\ Stages /\ LinksLocked /\ LinkOpensOneSession
    /\ Owned /\ OneByOne /\ Erased
    /\ Clocked /\ Covered /\ Closed /\ Pruned /\ Due

LEMMA InitAccounts == Init => AccountsInv
<1> SUFFICES ASSUME Init PROVE AccountsInv
  OBVIOUS
<1>1. /\ now = 0 /\ account = None /\ sessions = {} /\ dirs = {} /\ job = None /\ bucket = {}
      /\ marker = None /\ ran = {}
      /\ \A u \in Requests : deletions[u] = None /\ books[u] = None
      /\ \A r \in Requests : /\ req[r].at = "off" /\ req[r].link = None /\ ~req[r].new
                             /\ req[r].burnt = {}
  BY DEF Init
<1>2. Types
  BY DEF Init, Types, Request, Places
<1>3. Stages /\ LinksLocked /\ LinkOpensOneSession
  BY <1>1 DEF Stages, Staged, SigningIn, Founding, Erasing, LinksLocked, InFlight,
              LinkOpensOneSession
<1>4. Owned /\ OneByOne /\ Erased
  BY <1>1 DEF Owned, OneByOne, Erased, Erasing, At
<1>5. Clocked /\ Covered /\ Closed /\ Pruned /\ Due
  BY <1>1 DEF Clocked, Covered, Closed, Pruned, Due, Erasing
<1> QED
  BY <1>2, <1>3, <1>4, <1>5 DEF AccountsInv

(* Whatever requests and jobs do, in any order, the parts hold: the rows    *)
(* and directories of routers/auth.py, me.py and books.py, and the         *)
(* snapshots and receipts of ops/backup and retention.py.                  *)
THEOREM AccountsInvariant == Spec => []AccountsInv
<1>1. AccountsInv /\ [Next]_vars => AccountsInv'
  BY TypesStep, StagesStep, LinksStep, SessionsStep, OwnedStep, OneByOneStep, ErasedStep,
     ClockedStep, CoveredStep, ClosedStep, PrunedStep, DueStep DEF AccountsInv
<1> QED
  BY <1>1, InitAccounts, PTL DEF Spec

-----------------------------------------------------------------------------
(* A magic link opens one session at most, in whatever order its           *)
(* verifications, deletions and sweeps interleave (POST /auth/verify).     *)
THEOREM LinksAreSingleUse == Spec => []LinkOpensOneSession
<1>1. AccountsInv => LinkOpensOneSession
  BY DEF AccountsInv
<1> QED
  BY <1>1, AccountsInvariant, PTL

(* With the receipt of a deletion committed neither the account, nor a     *)
(* session, nor the book's row or directory is left (DELETE /me).          *)
THEOREM DeletionsErase == Spec => []ErasedIsGone
<1>1. AccountsInv => ErasedIsGone
  BY NoRowIsMissing DEF AccountsInv, ErasedIsGone, Erased, Owned, SignedIn
<1> QED
  BY <1>1, AccountsInvariant, PTL

(* A window that a sweep with a marker closed is closed rightly: no        *)
(* snapshot that is left holds the account (retention.run_sweep).          *)
THEOREM ClosedWindowsHold == Spec => []ClosedWindowsAreTrue
<1>1. AccountsInv => ClosedWindowsAreTrue
  BY DEF AccountsInv, ClosedWindowsAreTrue, Closed, Covered
<1> QED
  BY <1>1, AccountsInvariant, PTL

(* After a night with a prune and a sweep no window is open past its due   *)
(* time, but for a snapshot that was never completed.                      *)
THEOREM WindowsCloseOnTime == Spec => []NothingIsOverdue
<1>1. AccountsInv => NothingIsOverdue
  BY DEF AccountsInv, NothingIsOverdue, Due
<1> QED
  BY <1>1, AccountsInvariant, PTL
=============================================================================
