----------------------- MODULE RepositoryLockProofs -----------------------
(***************************************************************************)
(* What RepositoryLock guarantees for any number of invocations.  The      *)
(* first theorems need nothing of the pids; the last one assumes that no   *)
(* pid is given out twice.                                                 *)
(***************************************************************************)
EXTENDS RepositoryLock, TLAPS

\* The state stays well typed: every local and every file of the lock
\* protocol (lock.py, acquire and release) has the values it is meant to have.
THEOREM LockTyping == Spec => []TypeOK
<1>1. Init => TypeOK
  BY PidAssumption DEF Init, TypeOK, Location
<1>2. TypeOK /\ [Next]_vars => TypeOK'
  <2> SUFFICES ASSUME TypeOK, [Next]_vars PROVE TypeOK'
    OBVIOUS
  <2> USE PidAssumption DEF TypeOK, Location, Waiting, Holding, Ended, Goto, SafeUnlink
  <2>1. CASE UNCHANGED vars
    BY <2>1 DEF vars
  <2>2. ASSUME NEW p \in Proc, Start(p) PROVE TypeOK'
    BY <2>2 DEF Start
  <2>3. ASSUME NEW p \in Proc, Create(p) PROVE TypeOK'
    BY <2>3 DEF Create
  <2>4. ASSUME NEW p \in Proc, OpenFails(p) PROVE TypeOK'
    BY <2>4 DEF OpenFails
  <2>5. ASSUME NEW p \in Proc, WritePid(p) PROVE TypeOK'
    BY <2>5 DEF WritePid
  <2>6. ASSUME NEW p \in Proc, ReadPid(p) PROVE TypeOK'
    BY <2>6 DEF ReadPid
  <2>7. ASSUME NEW p \in Proc, BreakBad(p) PROVE TypeOK'
    BY <2>7 DEF BreakBad
  <2>8. ASSUME NEW p \in Proc, ProbeAlive(p) PROVE TypeOK'
    BY <2>8 DEF ProbeAlive
  <2>9. ASSUME NEW p \in Proc, ProbeDead(p) PROVE TypeOK'
    BY <2>9 DEF ProbeDead
  <2>10. ASSUME NEW p \in Proc, BreakDead(p) PROVE TypeOK'
    BY <2>10 DEF BreakDead
  <2>11. ASSUME NEW p \in Proc, Release(p) PROVE TypeOK'
    BY <2>11 DEF Release
  <2>12. ASSUME NEW p \in Proc, Exit(p) PROVE TypeOK'
    BY <2>12 DEF Exit
  <2>13. ASSUME NEW p \in Proc, Expire(p) PROVE TypeOK'
    BY <2>13 DEF Expire
  <2>14. ASSUME NEW p \in Proc, Crash(p) PROVE TypeOK'
    BY <2>14 DEF Crash
  <2>15. QED
    BY <2>1, <2>2, <2>3, <2>4, <2>5, <2>6, <2>7, <2>8, <2>9, <2>10, <2>11, <2>12,
       <2>13, <2>14 DEF Next, Acquire
<1>3. QED
  BY <1>1, <1>2, PTL DEF Spec

-----------------------------------------------------------------------------
\* A holder whose file nobody took owns the path: kept by O_EXCL (nobody
\* creates a file over it) and by the meaning of stolen.
THEOREM PathOwnership == Spec => []OwnerKeepsPath
<1>1. Init => OwnerKeepsPath
  BY DEF Init, OwnerKeepsPath, Holding
<1>2. TypeOK /\ OwnerKeepsPath /\ [Next]_vars => OwnerKeepsPath'
  <2> SUFFICES ASSUME TypeOK, OwnerKeepsPath, [Next]_vars,
                      NEW q \in Proc, pc'[q] \in Holding, q \notin stolen'
               PROVE  lock' = q
    BY DEF OwnerKeepsPath
  <2> USE PidAssumption DEF TypeOK, OwnerKeepsPath, Waiting, Holding, Ended, Goto, SafeUnlink
  <2>1. CASE UNCHANGED vars
    BY <2>1 DEF vars
  <2>2. ASSUME NEW p \in Proc, Start(p) PROVE lock' = q
    BY <2>2 DEF Start
  <2>3. ASSUME NEW p \in Proc, Create(p) PROVE lock' = q
    BY <2>3 DEF Create
  <2>4. ASSUME NEW p \in Proc, OpenFails(p) PROVE lock' = q
    BY <2>4 DEF OpenFails
  <2>5. ASSUME NEW p \in Proc, WritePid(p) PROVE lock' = q
    BY <2>5 DEF WritePid
  <2>6. ASSUME NEW p \in Proc, ReadPid(p) PROVE lock' = q
    BY <2>6 DEF ReadPid
  <2>7. ASSUME NEW p \in Proc, BreakBad(p) PROVE lock' = q
    BY <2>7 DEF BreakBad
  <2>8. ASSUME NEW p \in Proc, ProbeAlive(p) PROVE lock' = q
    BY <2>8 DEF ProbeAlive
  <2>9. ASSUME NEW p \in Proc, ProbeDead(p) PROVE lock' = q
    BY <2>9 DEF ProbeDead
  <2>10. ASSUME NEW p \in Proc, BreakDead(p) PROVE lock' = q
    BY <2>10 DEF BreakDead
  <2>11. ASSUME NEW p \in Proc, Release(p) PROVE lock' = q
    BY <2>11 DEF Release
  <2>12. ASSUME NEW p \in Proc, Exit(p) PROVE lock' = q
    BY <2>12 DEF Exit
  <2>13. ASSUME NEW p \in Proc, Expire(p) PROVE lock' = q
    BY <2>13 DEF Expire
  <2>14. ASSUME NEW p \in Proc, Crash(p) PROVE lock' = q
    BY <2>14 DEF Crash
  <2>15. QED
    BY <2>1, <2>2, <2>3, <2>4, <2>5, <2>6, <2>7, <2>8, <2>9, <2>10, <2>11, <2>12,
       <2>13, <2>14 DEF Next, Acquire
<1>3. QED
  BY <1>1, <1>2, LockTyping, PTL DEF Spec

\* Two invocations hold the lock together only after one of them lost its
\* file: the two of them cannot both own the one path.
THEOREM Exclusion == Spec => []ExclusiveUnlessStolen
<1>1. OwnerKeepsPath => ExclusiveUnlessStolen
  BY DEF OwnerKeepsPath, ExclusiveUnlessStolen
<1>2. QED
  BY <1>1, PathOwnership, PTL

-----------------------------------------------------------------------------
\* A lock file belongs to a holder or to a killed process: release() and the
\* waiters' paths leave none of their own.
THEOREM NoLeftover == Spec => []NoLeftoverFile
<1>1. Init => NoLeftoverFile
  BY DEF Init, NoLeftoverFile
<1>2. TypeOK /\ NoLeftoverFile /\ [Next]_vars => NoLeftoverFile'
  <2> SUFFICES ASSUME TypeOK, NoLeftoverFile, [Next]_vars, lock' # NoFile
               PROVE  pc'[lock'] \in Holding \cup {"dead"}
    BY DEF NoLeftoverFile
  <2> USE PidAssumption
      DEF TypeOK, NoLeftoverFile, Waiting, Holding, Ended, Goto, SafeUnlink, Running
  <2> DEFINE Goal == pc'[lock'] \in Holding \cup {"dead"}
  <2>1. CASE UNCHANGED vars
    BY <2>1 DEF vars
  <2>2. ASSUME NEW p \in Proc, Start(p) PROVE Goal
    BY <2>2 DEF Start
  <2>3. ASSUME NEW p \in Proc, Create(p) PROVE Goal
    BY <2>3 DEF Create
  <2>4. ASSUME NEW p \in Proc, OpenFails(p) PROVE Goal
    BY <2>4 DEF OpenFails
  <2>5. ASSUME NEW p \in Proc, WritePid(p) PROVE Goal
    BY <2>5 DEF WritePid
  <2>6. ASSUME NEW p \in Proc, ReadPid(p) PROVE Goal
    BY <2>6 DEF ReadPid
  <2>7. ASSUME NEW p \in Proc, BreakBad(p) PROVE Goal
    BY <2>7 DEF BreakBad
  <2>8. ASSUME NEW p \in Proc, ProbeAlive(p) PROVE Goal
    BY <2>8 DEF ProbeAlive
  <2>9. ASSUME NEW p \in Proc, ProbeDead(p) PROVE Goal
    BY <2>9 DEF ProbeDead
  <2>10. ASSUME NEW p \in Proc, BreakDead(p) PROVE Goal
    BY <2>10 DEF BreakDead
  <2>11. ASSUME NEW p \in Proc, Release(p) PROVE Goal
    BY <2>11 DEF Release
  <2>12. ASSUME NEW p \in Proc, Exit(p) PROVE Goal
    BY <2>12 DEF Exit
  <2>13. ASSUME NEW p \in Proc, Expire(p) PROVE Goal
    BY <2>13 DEF Expire
  <2>14. ASSUME NEW p \in Proc, Crash(p) PROVE Goal
    BY <2>14 DEF Crash
  <2>15. QED
    BY <2>1, <2>2, <2>3, <2>4, <2>5, <2>6, <2>7, <2>8, <2>9, <2>10, <2>11, <2>12,
       <2>13, <2>14 DEF Next, Acquire
<1>3. QED
  BY <1>1, <1>2, LockTyping, PTL DEF Spec

-----------------------------------------------------------------------------
\* What DeadVerdictStands needs to be inductive: a pid that can be read, or
\* that was read, is the pid of an invocation that has started (and so, once
\* dead, stays dead).
KnownPid(pid) == \E q \in Proc : PidOf[q] = pid /\ pc[q] # "idle"

VerdictInv ==
  /\ \A q \in written : pc[q] # "idle"
  /\ \A p \in Proc : held[p] # NoPid => KnownPid(held[p])
  /\ \A p \in Proc : pc[p] \in {"probe", "breakDead"} => held[p] # NoPid
  /\ DeadVerdictStands

PidsDistinct == \A p, q \in Proc : PidOf[p] = PidOf[q] => p = q

\* If every invocation has a pid of its own, a verdict that a holder is dead
\* is still right when the lock is broken, however long the breaker waited.
THEOREM DeadVerdict ==
  ASSUME PidsDistinct
  PROVE  Spec => []DeadVerdictStands
<1>1. Init => VerdictInv
  BY DEF Init, VerdictInv, DeadVerdictStands
<1>2. TypeOK /\ VerdictInv /\ [Next]_vars => VerdictInv'
  <2> SUFFICES ASSUME TypeOK, VerdictInv, [Next]_vars PROVE VerdictInv'
    OBVIOUS
  <2> USE PidAssumption, PidsDistinct
      DEF TypeOK, VerdictInv, DeadVerdictStands, KnownPid, PidsDistinct,
          Location, Waiting, Holding, Ended, Goto, SafeUnlink, Running, IsProcessAlive
  <2>1. CASE UNCHANGED vars
    BY <2>1 DEF vars
  <2>2. ASSUME NEW p \in Proc, Start(p) PROVE VerdictInv'
    BY <2>2 DEF Start
  <2>3. ASSUME NEW p \in Proc, Create(p) PROVE VerdictInv'
    BY <2>3 DEF Create
  <2>4. ASSUME NEW p \in Proc, OpenFails(p) PROVE VerdictInv'
    BY <2>4 DEF OpenFails
  <2>5. ASSUME NEW p \in Proc, WritePid(p) PROVE VerdictInv'
    BY <2>5 DEF WritePid
  <2>6. ASSUME NEW p \in Proc, ReadPid(p) PROVE VerdictInv'
    BY <2>6 DEF ReadPid
  <2>7. ASSUME NEW p \in Proc, BreakBad(p) PROVE VerdictInv'
    BY <2>7 DEF BreakBad
  <2>8. ASSUME NEW p \in Proc, ProbeAlive(p) PROVE VerdictInv'
    BY <2>8 DEF ProbeAlive
  <2>9. ASSUME NEW p \in Proc, ProbeDead(p) PROVE VerdictInv'
    BY <2>9 DEF ProbeDead
  <2>10. ASSUME NEW p \in Proc, BreakDead(p) PROVE VerdictInv'
    BY <2>10 DEF BreakDead
  <2>11. ASSUME NEW p \in Proc, Release(p) PROVE VerdictInv'
    BY <2>11 DEF Release
  <2>12. ASSUME NEW p \in Proc, Exit(p) PROVE VerdictInv'
    BY <2>12 DEF Exit
  <2>13. ASSUME NEW p \in Proc, Expire(p) PROVE VerdictInv'
    BY <2>13 DEF Expire
  <2>14. ASSUME NEW p \in Proc, Crash(p) PROVE VerdictInv'
    BY <2>14 DEF Crash
  <2>15. QED
    BY <2>1, <2>2, <2>3, <2>4, <2>5, <2>6, <2>7, <2>8, <2>9, <2>10, <2>11, <2>12,
       <2>13, <2>14 DEF Next, Acquire
<1>3. VerdictInv => DeadVerdictStands
  BY DEF VerdictInv
<1>4. QED
  BY <1>1, <1>2, <1>3, LockTyping, PTL DEF Spec

-----------------------------------------------------------------------------
\* A running holder loses its file only to a process that acts on an empty or
\* missing file or on somebody else's pid, or that was itself robbed before.
THEOREM Theft ==
  ASSUME PidsDistinct
  PROVE  Spec => TheftNeedsStaleVerdict
<1> DEFINE Step == \A p, q \in Proc :
       /\ pc[q] \in Holding /\ q \in stolen' \ stolen
       /\ p # q /\ pc'[p] # pc[p]
       => \/ pc[p] = "breakBad"
          \/ pc[p] = "breakDead" /\ held[p] # PidOf[q]
          \/ pc[p] = "cs" /\ p \in stolen
<1>1. TypeOK /\ OwnerKeepsPath /\ DeadVerdictStands /\ [Next]_vars => [Step]_vars
  <2> SUFFICES ASSUME TypeOK, OwnerKeepsPath, DeadVerdictStands, Next,
                      NEW p \in Proc, NEW q \in Proc,
                      pc[q] \in Holding, q \in stolen' \ stolen,
                      p # q, pc'[p] # pc[p]
               PROVE  \/ pc[p] = "breakBad"
                      \/ pc[p] = "breakDead" /\ held[p] # PidOf[q]
                      \/ pc[p] = "cs" /\ p \in stolen
    BY DEF vars
  <2>1. PICK r \in Proc : BreakBad(r) \/ BreakDead(r) \/ Release(r)
    BY DEF Next, Acquire, Start, Create, OpenFails, WritePid, ReadPid, ProbeAlive,
           ProbeDead, Exit, Expire, Crash
  <2>2. r = p /\ lock = q
    BY <2>1 DEF BreakBad, BreakDead, Release, SafeUnlink, Goto, TypeOK
  <2>3. pc[p] = "breakDead" => held[p] # PidOf[q]
    BY DEF DeadVerdictStands, Running, Holding, Ended
  <2>4. pc[p] = "cs" => p \in stolen
    BY <2>2 DEF OwnerKeepsPath, Holding
  <2>5. QED
    BY <2>1, <2>2, <2>3, <2>4 DEF BreakBad, BreakDead, Release
<1>2. QED
  BY <1>1, LockTyping, PathOwnership, DeadVerdict, PTL DEF Spec, TheftNeedsStaleVerdict

=============================================================================
