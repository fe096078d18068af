------------------------------ MODULE Accounts ------------------------------
(***************************************************************************)
(* An address, its account, and what is left of it: sign-in by magic link  *)
(* (auth.py, routers/auth.py), the account's one book (routers/books.py,   *)
(* books.py), DELETE /me (routers/me.py), and the nightly jobs: the backup *)
(* and its prune (ops/backup) and the retention sweep (retention.py).      *)
(*                                                                         *)
(* Requests run concurrently, each in one transaction (READ COMMITTED):    *)
(* what others see changes with Commit, and a row lock or a foreign key    *)
(* makes a request wait, which is a guard here.  Directories and the       *)
(* bucket know no transactions.  An account is named after the request     *)
(* that created it, and a book after the request that made its directory.  *)
(***************************************************************************)
EXTENDS Integers, FiniteSets, FiniteSetsExt

CONSTANTS
    Requests,   \* requests, each of any kind
    Links,      \* magic links that may be sent
    LinkTtl,    \* link_token_ttl_minutes
    LinkDays,   \* login_token_retention_days
    Retention,  \* BACKUP_RETENTION_DAYS, in days
    None,
    Gone,       \* a link whose row has been deleted
    DaysOfUse,  \* bound: days on which requests arrive
    MaxDay      \* bound: days that pass

ASSUME RetentionIsPositive == Retention \in Nat \ {0} /\ LinkTtl \in Nat \ {0} /\ LinkDays \in Nat
ASSUME NoRowIsMissing ==
    /\ None # Gone
    /\ None \notin Requests \cup Links \cup Nat
    /\ None \notin [expires : Nat, consumed : BOOLEAN]
    /\ Gone \notin [expires : Nat, consumed : BOOLEAN]

VARIABLES
    now,       \* the clock, four ticks a day
    account,   \* users: the address's account, as committed
    links,     \* login_tokens: [expires, consumed], as committed
    sessions,  \* sessions: whose, and by which link, as committed
    books,     \* books: the directory of each account's book, as committed
    deletions, \* deletions: the receipts, as committed
    dirs,      \* the directories on the volume
    req,       \* the requests: where each is, and its locals
    job,       \* the backup in progress
    bucket,    \* the snapshots in the bucket
    marker,    \* backup_marker_file
    ran        \* which of tonight's jobs have run

vars == <<now, account, links, sessions, books, deletions, dirs, req, job, bucket, marker, ran>>
rows == <<account, links, sessions, books, deletions>>
night == <<job, bucket, marker, ran>>

-----------------------------------------------------------------------------
(* cron: the day, then backup, prune (03:15) and sweep (04:15).            *)
TicksADay == 4
Hour == now % TicksADay
BackupHour == 1
PruneHour == 2
SweepHour == 3

At(r, place) == req[r].at = place
Arrives(r) == At(r, "off") /\ now < TicksADay * DaysOfUse
InFlight == {r \in Requests : req[r].at \notin {"off", "over"}}
Deleting(u) == {r \in InFlight : req[r].at \in {"erasing", "forgetting", "dropping", "receipting"}
                                 /\ req[r].user = u}

Init ==
    /\ now = 0
    /\ account = None /\ sessions = {}
    /\ links = [l \in Links |-> None]
    /\ books = [u \in Requests |-> None]
    /\ deletions = [u \in Requests |-> None]
    /\ dirs = {}
    /\ req = [r \in Requests |-> [at |-> "off", link |-> None, user |-> None, new |-> FALSE,
                                  book |-> None, burnt |-> {}, since |-> 0]]
    /\ job = None /\ bucket = {} /\ marker = None /\ ran = {}

Go(r, place) == req' = [req EXCEPT ![r].at = place]
RollBack(r) == Go(r, "over") /\ UNCHANGED rows

-----------------------------------------------------------------------------
(* POST /auth/link; one transaction and one insert.                        *)
IssueLink(l) ==
    /\ links[l] = None /\ now < TicksADay * DaysOfUse
    /\ links' = [links EXCEPT ![l] = [expires |-> now + LinkTtl, consumed |-> FALSE]]
    /\ UNCHANGED <<now, account, sessions, books, deletions, dirs, req, night>>

Kept(l) == links[l] \notin {None, Gone}

(* POST /auth/verify.  The update of the token waits for whoever has the   *)
(* row, and looks at it again.                                             *)
Usable(l) == Kept(l) /\ ~links[l].consumed /\ now < links[l].expires
LinkIsFree(l) == \A r \in InFlight : req[r].link # l /\ l \notin req[r].burnt

(* Mutant: the token is read first, and marked as used with the rest.      *)
ConsumeByReading(r, l) ==
    /\ Arrives(r) /\ Usable(l)
    /\ req' = [req EXCEPT ![r].at = "finding", ![r].link = l]
    /\ UNCHANGED <<now, rows, dirs, night>>

Consume(r, l) ==
    /\ Arrives(r) /\ Usable(l) /\ LinkIsFree(l)
    /\ req' = [req EXCEPT ![r].at = "finding", ![r].link = l]
    /\ UNCHANGED <<now, rows, dirs, night>>

FindUser(r) ==
    /\ At(r, "finding")
    /\ req' = [req EXCEPT ![r].user = IF account # None THEN account ELSE r,
                          ![r].new = account = None,
                          ![r].at = IF account # None THEN "opening" ELSE "inserting"]
    /\ UNCHANGED <<now, rows, dirs, night>>

(* users_email_key: a second insert of the address waits for the first.    *)
InsertUser(r) ==
    /\ At(r, "inserting")
    /\ \A q \in InFlight \ {r} : ~(req[q].new /\ req[q].at \in {"opening", "opened"})
    /\ IF account = None THEN Go(r, "opening") /\ UNCHANGED rows ELSE RollBack(r)
    /\ UNCHANGED <<now, dirs, night>>

(* A reference to the account waits for its deletion, and fails after it.  *)
RowIsFree(u) == \A q \in Deleting(u) : ~At(q, "receipting")
Refers(r, place) ==
    /\ RowIsFree(req[r].user)
    /\ IF req[r].new \/ account = req[r].user THEN Go(r, place) /\ UNCHANGED rows ELSE RollBack(r)
    /\ UNCHANGED <<now, dirs, night>>

OpenSession(r) == At(r, "opening") /\ Refers(r, "opened")

CommitSession(r) ==
    /\ At(r, "opened")
    /\ account' = req[r].user
    /\ sessions' = sessions \cup {[user |-> req[r].user, link |-> req[r].link, by |-> r]}
    /\ links' = [links EXCEPT ![req[r].link].consumed = TRUE]
    /\ Go(r, "over")
    /\ UNCHANGED <<now, books, deletions, dirs, night>>

-----------------------------------------------------------------------------
(* POST /books: the directory first, then the row.                         *)
SignedIn(u) == \E s \in sessions : s.user = u

MakeDirectory(r, u) ==
    /\ Arrives(r) /\ SignedIn(u) /\ books[u] = None
    /\ dirs' = dirs \cup {r}
    /\ req' = [req EXCEPT ![r].at = "rowless", ![r].user = u]
    /\ UNCHANGED <<now, rows, night>>

InsertBook(r) ==
    /\ At(r, "rowless")
    /\ \A q \in InFlight \ {r} : ~(At(q, "rowed") /\ req[q].user = req[r].user)
    /\ IF books[req[r].user] # None
       THEN RollBack(r) /\ UNCHANGED <<now, dirs, night>>
       ELSE Refers(r, "rowed")

CommitBook(r) ==
    /\ At(r, "rowed")
    /\ books' = [books EXCEPT ![req[r].user] = r]
    /\ Go(r, "over")
    /\ UNCHANGED <<now, account, links, sessions, deletions, dirs, night>>

-----------------------------------------------------------------------------
(* DELETE /me: the clock and the book are read, the sessions revoked, the  *)
(* links burnt, the directory erased, the account's row deleted and with   *)
(* it whatever refers to it, and the receipt written.                      *)
RevokeSessions(r, u) ==
    /\ Arrives(r) /\ SignedIn(u) /\ Deleting(u) = {}
    /\ req' = [req EXCEPT ![r].at = "erasing", ![r].user = u, ![r].book = books[u],
                          ![r].since = now]
    /\ UNCHANGED <<now, rows, dirs, night>>

BurnLinks(r) ==
    /\ At(r, "erasing")
    /\ \A q \in InFlight : req[q].link = None
    /\ req' = [req EXCEPT ![r].at = "forgetting", ![r].burnt = {l \in Links : Kept(l)}]
    /\ UNCHANGED <<now, rows, dirs, night>>

Forget(r) ==
    /\ At(r, "forgetting")
    /\ dirs' = dirs \ {req[r].book}
    /\ Go(r, "dropping")
    /\ UNCHANGED <<now, rows, night>>

DropUser(r) ==
    /\ At(r, "dropping")
    /\ \A q \in InFlight \ {r} : ~(req[q].at \in {"opened", "rowed"} /\ req[q].user = req[r].user)
    /\ Go(r, "receipting")
    /\ UNCHANGED <<now, rows, dirs, night>>

(* Mutant: nothing cascades from the account's row.                        *)
CommitDeletionAlone(r) ==
    LET u == req[r].user IN
    /\ At(r, "receipting")
    /\ account' = None
    /\ links' = [l \in Links |-> IF l \in req[r].burnt THEN Gone ELSE links[l]]
    /\ deletions' = [deletions EXCEPT ![u] =
          [at |-> req[r].since, due |-> req[r].since + TicksADay * Retention, purged |-> FALSE,
           book |-> req[r].book, blind |-> FALSE]]
    /\ Go(r, "over")
    /\ UNCHANGED <<now, sessions, books, dirs, night>>

CommitDeletion(r) ==
    LET u == req[r].user IN
    /\ At(r, "receipting")
    /\ account' = None
    /\ sessions' = {s \in sessions : s.user # u}
    /\ books' = [books EXCEPT ![u] = None]
    /\ links' = [l \in Links |-> IF l \in req[r].burnt THEN Gone ELSE links[l]]
    /\ deletions' = [deletions EXCEPT ![u] =
          [at |-> req[r].since, due |-> req[r].since + TicksADay * Retention, purged |-> FALSE,
           book |-> req[r].book, blind |-> FALSE]]
    /\ Go(r, "over")
    /\ UNCHANGED <<now, dirs, night>>

(* A process or a connection dies: the transaction is undone, files stay.  *)
Fail(r) == r \in InFlight /\ RollBack(r) /\ UNCHANGED <<now, dirs, night>>

-----------------------------------------------------------------------------
(* backup.sh: stamp and dump, then the directories; the upload ends with   *)
(* COMPLETE, unless the script dies.                                       *)
Dump ==
    /\ Hour = BackupHour /\ job = None /\ "backup" \notin ran
    /\ job' = [stamp |-> now, users |-> {account} \ {None},
               during |-> {u \in Requests : Deleting(u) # {}}]
    /\ ran' = ran \cup {"backup"}
    /\ UNCHANGED <<now, rows, dirs, req, bucket, marker>>

Upload(complete) ==
    /\ job # None
    /\ bucket' = bucket \cup {[stamp |-> job.stamp, complete |-> complete, users |-> job.users,
                               dirs |-> dirs, during |-> job.during]}
    /\ job' = None
    /\ UNCHANGED <<now, rows, dirs, req, marker, ran>>

(* prune.sh: complete snapshots past retention go; the oldest that stays   *)
(* is the marker, and with none left there is no marker.                   *)
Expired(s) == s.stamp < now - TicksADay * Retention /\ s.complete

(* Mutant: the marker is the newest.                                       *)
NewestOf(kept) == IF kept = {} THEN None ELSE Max({s.stamp : s \in kept})
OldestOf(kept) == IF kept = {} THEN None ELSE Min({s.stamp : s \in kept})

Prune ==
    /\ Hour = PruneHour /\ "prune" \notin ran
    /\ LET kept == {s \in bucket : ~Expired(s)} IN
       bucket' = kept /\ marker' = OldestOf(kept)
    /\ ran' = ran \cup {"prune"}
    /\ UNCHANGED <<now, rows, dirs, req, job>>

(* retention.run_sweep: links long dead go, and the windows no retained    *)
(* backup can hold close.                                                  *)
(* Mutant: a window is held open by a backup of its own moment or later.   *)
ClosesLate(u) == marker = None \/ deletions[u].at + TicksADay < marker
Closes(u) == marker = None \/ deletions[u].at < marker

Sweep ==
    /\ Hour = SweepHour /\ "sweep" \notin ran
    /\ links' = [l \in Links |->
          IF Kept(l) /\ links[l].expires < now - TicksADay * LinkDays /\ LinkIsFree(l) THEN Gone ELSE links[l]]
    /\ deletions' = [u \in Requests |->
          IF deletions[u] # None /\ ~deletions[u].purged /\ Closes(u)
          THEN [deletions[u] EXCEPT !.purged = TRUE, !.blind = marker = None /\ bucket # {}]
          ELSE deletions[u]]
    /\ ran' = ran \cup {"sweep"}
    /\ UNCHANGED <<now, account, sessions, books, dirs, req, job, bucket, marker>>

(* Any of the jobs may have been missed.  Bound: only a deletion outlasts a *)
(* tick, and no more than one.                                             *)
Tick ==
    /\ now < TicksADay * MaxDay /\ job = None
    /\ \A r \in InFlight : r \in Deleting(req[r].user) /\ req[r].since = now
    /\ now' = now + 1
    /\ ran' = IF Hour = SweepHour THEN {} ELSE ran
    /\ UNCHANGED <<rows, dirs, req, job, bucket, marker>>

Next ==
    \/ \E l \in Links : IssueLink(l)
    \/ \E r \in Requests :
        \/ \E l \in Links : Consume(r, l)
        \/ FindUser(r) \/ InsertUser(r) \/ OpenSession(r) \/ CommitSession(r)
        \/ \E u \in Requests : MakeDirectory(r, u) \/ RevokeSessions(r, u)
        \/ InsertBook(r) \/ CommitBook(r)
        \/ BurnLinks(r) \/ Forget(r) \/ DropUser(r) \/ CommitDeletion(r)
        \/ Fail(r)
    \/ Dump \/ (\E complete \in BOOLEAN : Upload(complete)) \/ Prune \/ Sweep \/ Tick

Spec == Init /\ [][Next]_vars
-----------------------------------------------------------------------------
(* SPEC 3: a link is single-use.  However its verifications interleave, a  *)
(* link opens one session at most, and only one account has the address.   *)
LinkOpensOneSession ==
    \A s, t \in sessions : s.link = t.link => s = t

(* me.py: "Every session ... The book directory ... Every Postgres row".   *)
(* With the receipt committed nothing of the account is left that its      *)
(* deletion knew of, whatever signed in or was created meanwhile.          *)
ErasedIsGone ==
    \A u \in Requests : deletions[u] # None =>
        /\ account # u /\ ~SignedIn(u) /\ books[u] = None
        /\ deletions[u].book \notin dirs

(* retention.py: "a statement about what is in the bucket, not about how   *)
(* much time has passed".  When the sweep that closed a window had a       *)
(* marker, no snapshot that is left holds the account, but for one taken   *)
(* while the deletion was under way.                                       *)
HoldsAccount(s, u) == u \in s.users \/ deletions[u].book \in s.dirs
ClosedWindowsAreTrue ==
    \A u \in Requests : deletions[u] # None /\ deletions[u].purged /\ ~deletions[u].blind =>
        \A s \in bucket : HoldsAccount(s, u) => u \in s.during

(* SPEC 9: thirty days.  On a night when all three jobs have run, no       *)
(* window is open past its due time, unless a half-written snapshot is     *)
(* what holds it.                                                          *)
NothingIsOverdue ==
    Hour = SweepHour /\ {"prune", "sweep"} \subseteq ran =>
        \A u \in Requests : deletions[u] # None /\ ~deletions[u].purged /\ deletions[u].due <= now =>
            \E s \in bucket : ~s.complete /\ s.stamp <= deletions[u].at

(* Refuted: a sweep without a marker, a backup during the deletion, a      *)
(* directory made while the deletion ran or whose row never came, and a    *)
(* directory erased by a deletion that was then rolled back: see README.   *)
ClosedMeansGone ==
    \A u \in Requests : deletions[u] # None /\ deletions[u].purged =>
        \A s \in bucket : ~HoldsAccount(s, u)
DirectoriesHaveRows ==
    InFlight = {} => dirs \subseteq {books[u] : u \in Requests}
BooksHaveDirectories ==
    InFlight = {} => \A u \in Requests : books[u] # None => books[u] \in dirs
=============================================================================
