---------------------------- MODULE LockedVault ----------------------------
(***************************************************************************)
(* The mutating commands as cli.py runs them: _with_repo_lock around       *)
(* snapshot, snapshot-rm, gc and tag.  Vault is used with                  *)
(* Exclusive = FALSE; what keeps commands apart here is RepositoryLock,    *)
(* step by step, with everything that can happen to it.                    *)
(*                                                                         *)
(* A member of Proc is one invocation: it acquires the lock, runs at most  *)
(* one command (a command whose arguments name no snapshot ends without    *)
(* doing anything) and releases.                                           *)
(***************************************************************************)
EXTENDS Vault

CONSTANTS Pid, PidOf, NoFile, NoPid

ASSUME LockAssumption ==
  /\ PidOf \in [Proc -> Pid]
  /\ NoFile \notin Proc
  /\ NoPid \notin Pid

VARIABLES lock, written, lockPc, held, expired, stolen,
          ran          \* the invocations that have begun their command

lockVars == <<lock, written, lockPc, held, expired, stolen>>
allVars  == <<vars, lockVars, ran>>

Lock == INSTANCE RepositoryLock WITH pc <- lockPc

\* A repository that an earlier `vault snapshot` left with snapshot 1.
OneSnapshot ==
  \E r \in Tree :
    /\ 1 \in Id
    /\ loose = Reach({r}) /\ litter = FALSE
    /\ counter = 2 /\ counterTmp = NoId
    /\ recTmp = [i \in Id |-> NoRecord]
    /\ snaps = [i \in Id |-> IF i = 1 THEN [root |-> r, parent |-> NoId] ELSE NoRecord]
    /\ tags = NoTags
    /\ pc = [p \in Proc |-> "idle"]
    /\ my = [p \in Proc |-> Blank]
    /\ used = {1}

LVInit == (Init \/ OneSnapshot) /\ Lock!Init /\ ran = {}

\* The steps of acquire() and the ends of an invocation.
Locking(p) ==
  /\ Lock!Start(p) \/ Lock!Acquire(p) \/ Lock!Expire(p) \/ Lock!Exit(p)
  /\ UNCHANGED <<vars, ran>>

\* Mutation: a command registered without the lock decorator.
CommandUnlocked(p) ==
  /\ \/ p \notin ran /\ Begin(p) /\ ran' = ran \cup {p}
     \/ Work(p) /\ UNCHANGED ran
  /\ UNCHANGED lockVars

\* `with RepositoryLock(...): return func(args)`
Command(p) ==
  /\ lockPc[p] = "cs"
  /\ \/ p \notin ran /\ Begin(p) /\ ran' = ran \cup {p}
     \/ Work(p) /\ UNCHANGED ran
  /\ UNCHANGED lockVars

\* Mutation: the lock is given back while the command is still running.
UnlockEarly(p) ==
  /\ Lock!Release(p)
  /\ UNCHANGED <<vars, ran>>

\* __exit__, after a return or an exception.
Unlock(p) ==
  /\ pc[p] = "idle"
  /\ Lock!Release(p)
  /\ UNCHANGED <<vars, ran>>

Kill(p) ==
  /\ Lock!Crash(p)
  /\ IF pc[p] = "idle" THEN UNCHANGED vars ELSE Crash(p)
  /\ UNCHANGED ran

LVNext == \E p \in Proc : Locking(p) \/ Command(p) \/ Unlock(p) \/ Kill(p)

LVSpec == LVInit /\ [][LVNext]_allVars

-----------------------------------------------------------------------------
\* While no running holder has lost its lock file to another process, at most
\* one command is under way: crashes of holders, waiting, timeouts and the
\* breaking of stale locks do not matter.
SerialUnlessStolen ==
  stolen = {} => \A p, q \in Proc : pc[p] # "idle" /\ pc[q] # "idle" => p = q

\* Under the same condition the repository keeps the guarantees that Vault
\* has with commands that run one at a time.
SafeUnlessStolen ==
  stolen = {} => Restorable /\ CounterAhead /\ ParentIsPredecessor

=============================================================================
