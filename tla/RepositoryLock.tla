-------------------------- MODULE RepositoryLock --------------------------
(***************************************************************************)
(* The advisory lock file .vault/repo.lock of                              *)
(* src/vault/experimental/lock.py, as the POSIX build runs it.             *)
(*                                                                         *)
(* A process is one `vault` invocation: it takes the lock at most once     *)
(* (cli.py, _with_repo_lock) and ends.  The path repo.lock names at most   *)
(* one inode; every inode is created by exactly one process, so inodes are *)
(* identified with their creators.  Creating the file (os.open with        *)
(* O_CREAT|O_EXCL) and storing the PID in it (os.write) are two system     *)
(* calls, hence two steps; so are reading the PID, probing the process and *)
(* unlinking the path.  Unlinking is by path: it removes whatever file is  *)
(* there at that moment.                                                   *)
(***************************************************************************)
EXTENDS Naturals, FiniteSets

CONSTANTS Proc,          \* the invocations
          Pid,           \* operating system process ids
          PidOf,         \* the pid the system gives to each invocation
          NoFile,        \* value of lock when the path does not exist
          NoPid          \* held_by_pid = None

ASSUME PidAssumption ==
  /\ PidOf \in [Proc -> Pid]
  /\ NoFile \notin Proc
  /\ NoPid \notin Pid

VARIABLES lock,          \* the inode the path names
          written,       \* inodes whose content is their creator's pid; the others are empty
          pc,            \* where each invocation is
          held,          \* the local held_by_pid of acquire()
          expired,       \* invocations whose deadline has passed
          stolen         \* history: processes whose file another one unlinked while they held it

vars == <<lock, written, pc, held, expired, stolen>>

-----------------------------------------------------------------------------
Waiting  == {"open", "read", "probe", "breakBad", "breakDead"}
Holding  == {"write", "cs"}
Ended    == {"done", "timeout", "dead"}
Location == {"idle", "released"} \cup Waiting \cup Holding \cup Ended

Running(p) == pc[p] \notin {"idle"} \cup Ended

\* Mutation: the pid of a process that has ended still counts as alive.
AliveOnceStarted(pid) == \E q \in Proc : PidOf[q] = pid /\ pc[q] # "idle"

\* os.kill(pid, 0): some running process has that id.
IsProcessAlive(pid) == \E q \in Proc : PidOf[q] = pid /\ Running(q)

Goto(p, l) == pc' = [pc EXCEPT ![p] = l]

\* _safe_unlink(lock_path): removes the file the path names now; a missing
\* file is not an error.
SafeUnlink(p) ==
  /\ lock' = NoFile
  /\ stolen' = stolen \cup {q \in Proc \ {p} : q = lock /\ pc[q] \in Holding}

-----------------------------------------------------------------------------
TypeOK ==
  /\ lock \in Proc \cup {NoFile}
  /\ written \in SUBSET Proc
  /\ pc \in [Proc -> Location]
  /\ held \in [Proc -> Pid \cup {NoPid}]
  /\ expired \in SUBSET Proc
  /\ stolen \in SUBSET Proc

Init ==
  /\ lock = NoFile
  /\ written = {}
  /\ pc = [p \in Proc |-> "idle"]
  /\ held = [p \in Proc |-> NoPid]
  /\ expired = {}
  /\ stolen = {}

-----------------------------------------------------------------------------
\* An invocation starts and calls acquire(): the system gives no two running
\* processes the same id.
Start(p) ==
  /\ pc[p] = "idle"
  /\ ~IsProcessAlive(PidOf[p])
  /\ Goto(p, "open")
  /\ UNCHANGED <<lock, written, held, expired, stolen>>

\* Mutation: os.open without O_EXCL.
CreateOver(p) ==
  /\ pc[p] = "open"
  /\ lock' = p
  /\ Goto(p, "write")
  /\ UNCHANGED <<written, held, expired, stolen>>

\* os.open(O_CREAT|O_EXCL) succeeds: the file exists, still empty.
Create(p) ==
  /\ pc[p] = "open"
  /\ lock = NoFile
  /\ lock' = p
  /\ Goto(p, "write")
  /\ UNCHANGED <<written, held, expired, stolen>>

\* os.open raises FileExistsError.
OpenFails(p) ==
  /\ pc[p] = "open"
  /\ lock # NoFile
  /\ Goto(p, "read")
  /\ UNCHANGED <<lock, written, held, expired, stolen>>

\* os.write of the pid to the open descriptor: it reaches the inode whether
\* or not the path still names it.
WritePid(p) ==
  /\ pc[p] = "write"
  /\ written' = written \cup {p}
  /\ Goto(p, "cs")
  /\ UNCHANGED <<lock, held, expired, stolen>>

\* read_text: an empty file (ValueError) and a missing file
\* (FileNotFoundError) both leave held_by_pid at None.
ReadPid(p) ==
  /\ pc[p] = "read"
  /\ IF lock \in written
       THEN held' = [held EXCEPT ![p] = PidOf[lock]] /\ Goto(p, "probe")
       ELSE held' = [held EXCEPT ![p] = NoPid] /\ Goto(p, "breakBad")
  /\ UNCHANGED <<lock, written, expired, stolen>>

\* held_by_pid is None: unlink, then the deadline check.
BreakBad(p) ==
  /\ pc[p] = "breakBad"
  /\ SafeUnlink(p)
  /\ Goto(p, IF p \in expired THEN "timeout" ELSE "open")
  /\ UNCHANGED <<written, held, expired>>

\* Mutation: no deadline on a contended lock.
ProbeAliveForever(p) ==
  /\ pc[p] = "probe"
  /\ IsProcessAlive(held[p])
  /\ Goto(p, "open")
  /\ UNCHANGED <<lock, written, held, expired, stolen>>

\* Mutation: a waiter that times out runs release() too.
ProbeAliveReleasing(p) ==
  /\ pc[p] = "probe"
  /\ IsProcessAlive(held[p])
  /\ Goto(p, IF p \in expired THEN "timeout" ELSE "open")
  /\ IF p \in expired THEN SafeUnlink(p) ELSE UNCHANGED <<lock, stolen>>
  /\ UNCHANGED <<written, held, expired>>

\* The holder is alive: the deadline check, then a sleep and a retry.
ProbeAlive(p) ==
  /\ pc[p] = "probe"
  /\ IsProcessAlive(held[p])
  /\ Goto(p, IF p \in expired THEN "timeout" ELSE "open")
  /\ UNCHANGED <<lock, written, held, expired, stolen>>

\* Mutation: a running holder is taken for dead.
ProbeDeadAlways(p) ==
  /\ pc[p] = "probe"
  /\ Goto(p, "breakDead")
  /\ UNCHANGED <<lock, written, held, expired, stolen>>

ProbeDead(p) ==
  /\ pc[p] = "probe"
  /\ ~IsProcessAlive(held[p])
  /\ Goto(p, "breakDead")
  /\ UNCHANGED <<lock, written, held, expired, stolen>>

\* The holder is dead: unlink and retry, without looking at the deadline.
BreakDead(p) ==
  /\ pc[p] = "breakDead"
  /\ SafeUnlink(p)
  /\ Goto(p, "open")
  /\ UNCHANGED <<written, held, expired>>

\* release(): _acquired is set, so the path is unlinked, whoever's it is.
Release(p) ==
  /\ pc[p] = "cs"
  /\ SafeUnlink(p)
  /\ Goto(p, "released")
  /\ UNCHANGED <<written, held, expired>>

\* The invocation returns after release().
Exit(p) ==
  /\ pc[p] = "released"
  /\ Goto(p, "done")
  /\ UNCHANGED <<lock, written, held, expired, stolen>>

\* time.time() reaches the deadline of p's acquire().
Expire(p) ==
  /\ pc[p] \in Waiting
  /\ p \notin expired
  /\ expired' = expired \cup {p}
  /\ UNCHANGED <<lock, written, pc, held, stolen>>

\* The process is killed: no release() runs and its file stays behind.
Crash(p) ==
  /\ Running(p)
  /\ Goto(p, "dead")
  /\ UNCHANGED <<lock, written, held, expired, stolen>>

Acquire(p) ==
  \/ Create(p) \/ OpenFails(p) \/ WritePid(p) \/ ReadPid(p)
  \/ BreakBad(p) \/ ProbeAlive(p) \/ ProbeDead(p) \/ BreakDead(p)

Next == \E p \in Proc :
  \/ Start(p) \/ Acquire(p) \/ Release(p) \/ Exit(p)
  \/ Expire(p) \/ Crash(p)

Spec == Init /\ [][Next]_vars

(***************************************************************************)
(* A process inside acquire() keeps running, time passes, and a process    *)
(* that has released the lock ends.  The commands under the lock are NOT   *)
(* assumed to end: `vault restore` waits for the user's answer while it    *)
(* holds the lock (cli.py, cmd_restore).                                   *)
(***************************************************************************)
Fairness == \A p \in Proc : WF_vars(Acquire(p)) /\ WF_vars(Expire(p)) /\ WF_vars(Exit(p))

FairSpec == Spec /\ Fairness

-----------------------------------------------------------------------------
(***************************************************************************)
(* What the lock does promise.                                             *)
(***************************************************************************)

\* A process between its os.open and its release() whose file nobody else
\* unlinked still owns the path.
OwnerKeepsPath == \A p \in Proc : pc[p] \in Holding /\ p \notin stolen => lock = p

\* Two processes are inside the lock only after one of them lost its file to
\* another process: O_EXCL by itself never admits two.
ExclusiveUnlessStolen ==
  \A p, q \in Proc :
    pc[p] \in Holding /\ pc[q] \in Holding /\ p # q => p \in stolen \/ q \in stolen

\* repo.lock never outlives its creator's run unless the creator was killed:
\* every normal end, the timeout included, leaves no file of its own behind.
NoLeftoverFile == lock # NoFile => pc[lock] \in Holding \cup {"dead"}

\* A process that is about to break a lock because of a dead pid read that
\* pid from a file whose creator is gone, and it is still gone now.  With
\* distinct pids a lock is never broken on the strength of its own holder's
\* pid while that holder runs.
DeadVerdictStands ==
  \A p, q \in Proc : pc[p] = "breakDead" /\ PidOf[q] = held[p] => ~Running(q)

\* The file of a running holder is only ever unlinked by a process whose
\* verdict came from an empty or missing file, from the pid of another
\* process, or by a release() whose own file had been stolen before.
TheftNeedsStaleVerdict ==
  [][\A p, q \in Proc :
       /\ pc[q] \in Holding /\ q \in stolen' \ stolen
       /\ p # q /\ pc'[p] # pc[p]
       => \/ pc[p] = "breakBad"
          \/ pc[p] = "breakDead" /\ held[p] # PidOf[q]
          \/ pc[p] = "cs" /\ p \in stolen]_vars

\* Every acquire() ends: with the lock, with LockTimeoutError, or with the
\* death of the process.
AcquireEnds == \A p \in Proc : pc[p] \in Waiting ~> pc[p] \notin Waiting

\* A lock file left by a killed process is removed by any process that begins
\* an attempt while it is there, without the user's help and past its
\* deadline if need be, as long as no running process was given its pid.
StaleLockBroken ==
  \A p, q \in Proc :
    (pc[p] = "open" /\ lock = q /\ pc[q] = "dead") ~> (lock # q \/ pc[p] = "dead")

(***************************************************************************)
(* What the source says of the lock and the code does not do.              *)
(***************************************************************************)

\* "exclusive access across the whole repository" (class docstring).
MutualExclusion == \A p, q \in Proc : pc[p] = "cs" /\ pc[q] = "cs" => p = q

=============================================================================
