----------------------------- MODULE WriterLock -----------------------------
(***************************************************************************)
(* The single-writer lock of a book, cashkit/stores/lock.py: an exclusive  *)
(* lockfile, created with O_EXCL, that only commit() takes.  acquire() is  *)
(* a run of system calls and another process may act between any two of    *)
(* them: the create and the write of the body are two calls, and so are    *)
(* the read of the holder, the probe of its pid and the unlink.            *)
(*                                                                         *)
(* A writer is a process: its name stands for its pid, and a process that  *)
(* died does not come back under the same pid.                             *)
(***************************************************************************)
CONSTANTS
    Writers,     \* the processes that write the book
    NoOne,       \* no lockfile
    Unreadable   \* the holder a lockfile without a body is read as

ASSUME HoldersAreDistinct == NoOne \notin Writers /\ Unreadable \notin Writers

VARIABLES
    lockfile,   \* whose file stands at .cashkit/lock, and has it its body yet
    pc,         \* where each writer is in acquire() and release()
    holder,     \* the holder each writer read from the file and judges
    noted,      \* acquire() has put CK-W010 in this writer's notes
    reclaimed   \* history: some writer has gone past the test of the holder

lockVars == <<lockfile, pc, holder, noted, reclaimed>>

NoFile == [by |-> NoOne, written |-> FALSE]
Free == lockfile = NoFile
LiveWriters == {w \in Writers : pc[w] # "dead"}

LockInit ==
    /\ lockfile = NoFile
    /\ pc = [w \in Writers |-> "idle"]
    /\ holder = [w \in Writers |-> NoOne]
    /\ noted = [w \in Writers |-> FALSE]
    /\ reclaimed = FALSE

Goto(w, there) == pc' = [pc EXCEPT ![w] = there]
(* The holder is a local of acquire(), not looked at once it is judged.    *)
Forget(w) == holder' = [holder EXCEPT ![w] = NoOne]

(* Mutant: without O_EXCL.                                                 *)
CreateOver(w, success, failure) ==
    lockfile' = [by |-> w, written |-> FALSE] /\ Goto(w, success)

(* os.open with O_CREAT | O_EXCL: the file appears, without a body.        *)
TryCreate(w, success, failure) ==
    \/ /\ Free
       /\ lockfile' = [by |-> w, written |-> FALSE]
       /\ Goto(w, success)
    \/ /\ ~Free
       /\ Goto(w, failure)
       /\ UNCHANGED lockfile

Acquire(w) ==
    /\ pc[w] = "idle"
    /\ TryCreate(w, "writing", "blocked")
    /\ noted' = [noted EXCEPT ![w] = FALSE]
    /\ UNCHANGED <<holder, reclaimed>>

(* The body goes to the file this writer created, if it is still there.    *)
WriteBody(w) ==
    /\ pc[w] = "writing"
    /\ lockfile' = IF lockfile.by = w THEN [lockfile EXCEPT !.written = TRUE] ELSE lockfile
    /\ Goto(w, "holding")
    /\ UNCHANGED <<holder, noted, reclaimed>>

(* The write fails (a full disk) and raises: the empty file stays.         *)
FailBody(w) ==
    /\ pc[w] = "writing"
    /\ Goto(w, "idle")
    /\ UNCHANGED <<lockfile, holder, noted, reclaimed>>

ReadHolder(w) ==
    /\ pc[w] = "blocked"
    /\ holder' = [holder EXCEPT ![w] = IF Free THEN NoOne
                                       ELSE IF lockfile.written THEN lockfile.by ELSE Unreadable]
    /\ Goto(w, "judging")
    /\ UNCHANGED <<lockfile, noted, reclaimed>>

(* Mutant: a refused writer tries for ever.                                *)
RefuseSpinning(w) ==
    /\ pc[w] = "judging"
    /\ holder[w] \in LiveWriters
    /\ Goto(w, "blocked")
    /\ UNCHANGED <<lockfile, holder, noted, reclaimed>>

(* A live holder is refused (CK-E013).                                     *)
Refuse(w) ==
    /\ pc[w] = "judging"
    /\ holder[w] \in LiveWriters
    /\ Goto(w, "idle")
    /\ Forget(w)
    /\ UNCHANGED <<lockfile, noted, reclaimed>>

(* A dead one, an unreadable one and one that vanished are reclaimed.      *)
Condemn(w) ==
    /\ pc[w] = "judging"
    /\ holder[w] \notin LiveWriters
    /\ noted' = [noted EXCEPT ![w] = TRUE]
    /\ reclaimed' = TRUE
    /\ Goto(w, "unlinking")
    /\ Forget(w)
    /\ UNCHANGED lockfile

(* Mutant: the unlink of a stale lock is forgotten.                        *)
UnlinkNothing(w) ==
    /\ pc[w] = "unlinking"
    /\ Goto(w, "retrying")
    /\ UNCHANGED <<lockfile, holder, noted, reclaimed>>

Unlink(w) ==
    /\ pc[w] = "unlinking"
    /\ lockfile' = NoFile
    /\ Goto(w, "retrying")
    /\ UNCHANGED <<holder, noted, reclaimed>>

(* Losing the second create is CK-E013 for the winner.                     *)
CreateAgain(w) ==
    /\ pc[w] = "retrying"
    /\ TryCreate(w, "writing", "idle")
    /\ UNCHANGED <<holder, noted, reclaimed>>

(* release() unlinks whatever stands at the path.                          *)
Release(w) ==
    /\ pc[w] = "holding"
    /\ lockfile' = NoFile
    /\ Goto(w, "idle")
    /\ UNCHANGED <<holder, noted, reclaimed>>

Die(w) ==
    /\ w \in LiveWriters
    /\ Goto(w, "dead")
    /\ UNCHANGED <<lockfile, holder, noted, reclaimed>>

(* What a writer does of itself; Acquire and Die come from outside.        *)
Proceed(w) ==
    WriteBody(w) \/ FailBody(w) \/ ReadHolder(w) \/ Refuse(w) \/ Condemn(w) \/ Unlink(w)
    \/ CreateAgain(w) \/ Release(w)

LockNext == \E w \in Writers : Acquire(w) \/ Proceed(w) \/ Die(w)

LockSpec == LockInit /\ [][LockNext]_lockVars
(* acquire() and release() run to their end unless the process dies.       *)
FairLockSpec == LockSpec /\ \A w \in Writers : WF_lockVars(Proceed(w))
-----------------------------------------------------------------------------
Places == {"idle", "writing", "blocked", "judging", "unlinking", "retrying", "holding", "dead"}

LockTypeOK ==
    /\ lockfile \in [by : Writers \cup {NoOne}, written : BOOLEAN]
    /\ pc \in [Writers -> Places]
    /\ holder \in [Writers -> Writers \cup {NoOne, Unreadable}]
    /\ noted \in [Writers -> BOOLEAN]
    /\ reclaimed \in BOOLEAN

Holding(w) == pc[w] = "holding"
Created(w) == pc[w] \in {"writing", "holding"}

(* As long as no writer has reclaimed a lock, at most one commit runs, and *)
(* the file at the path names it: every breach of the lock is a reclaim.   *)
ExclusiveUntilReclaimed ==
    ~reclaimed =>
        /\ \A v, w \in Writers : Holding(v) /\ Holding(w) => v = w
        /\ \A w \in Writers : Holding(w) => lockfile = [by |-> w, written |-> TRUE]

(* Its inductive form: the file belongs to whoever created it, from the    *)
(* create on, and nobody is past the test of the holder.                   *)
ExclusionInv ==
    /\ LockTypeOK
    /\ ~reclaimed =>
          \A w \in Writers :
              /\ pc[w] \notin {"unlinking", "retrying"}
              /\ Created(w) => lockfile.by = w
              /\ Holding(w) => lockfile.written

(* acquire() never waits on another writer: it is granted or refused.      *)
AcquireAnswers == \A w \in Writers : pc[w] = "blocked" ~> pc[w] \in {"holding", "idle", "dead"}

(* The lock of a dead writer does not outlive the next acquire: whoever    *)
(* found it in its way removes it, unless it dies too.                     *)
DeadLockGoes ==
    \A w, v \in Writers :
        (pc[w] = "blocked" /\ lockfile.by = v /\ v \notin LiveWriters)
            ~> (lockfile.by # v \/ w \notin LiveWriters)

(* lock.py: "two reclaimers racing still produce exactly one winner".      *)
OneReclaimerWins ==
    \A v, w \in Writers : Holding(v) /\ noted[v] /\ Holding(w) /\ noted[w] => v = w

(* read_holder: a lockfile that cannot be parsed is "corrupt, not a live   *)
(* writer": a reclaim never removes the lock of a process that holds it or *)
(* is on its way to.                                                       *)
LiveLockIsNeverReclaimed ==
    [][\A v, w \in Writers : Unlink(w) /\ lockfile.by = v => ~Created(v)]_lockVars

(* LockHolder.parse: an unreadable lockfile is "held by an unknown writer, *)
(* never as free: the caller refuses".                                     *)
UnreadableIsRefused ==
    [][\A w \in Writers : pc[w] = "judging" /\ holder[w] = Unreadable => pc'[w] # "unlinking"]_lockVars
=============================================================================
