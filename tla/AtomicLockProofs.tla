-------------------------- MODULE AtomicLockProofs --------------------------
(***************************************************************************)
(* What AtomicLock promises until a lock first outlives the stale          *)
(* threshold, for any number of threads in any number of processes, every   *)
(* threshold and timeout, any number of kills and every set of points they *)
(* may happen at; and, without that condition, that the thread lock of a   *)
(* process is held exactly by a thread that is past it.                    *)
(***************************************************************************)
EXTENDS AtomicLock, TLAPS

\* While no age has crossed the threshold, nobody is evicting, and each
\* process between its mkdir and its rmdir finds the directory as it left it.
Calm ==
  /\ dir # NoOne /\ meta # "empty" => age <= StaleThreshold
  /\ \A p \in Thread : pc[p] \in Timing => seen[p] <= StaleThreshold
  /\ \A p \in Thread : pc[p] \notin {"evict", "evictdir"}
  /\ \A p \in Thread : pc[p] \in Owning => dir = p
  /\ \A p \in Thread : pc[p] \in {"create", "releasedir"} => meta = "none"
  /\ \A p \in Thread : pc[p] = "fill" => meta = "empty" /\ p \in writers
  /\ \A p \in Thread : pc[p] \in {"critical", "release"} => meta = "full"

\* The inductive invariant.
IInv == TypeOK /\ (overdue = "no" => Calm)

\* The clock operators stay within their ranges.
LEMMA ClockRanges ==
  /\ \A a \in Age : Older(a) \in Age
  /\ \A w \in Wait : Longer(w) \in Wait
  BY ThresholdAssumption, TimeoutAssumption DEF Age, Wait, Older, Longer

\* Every reachable state of the lock is well formed: an age or a wait never
\* leaves its range, and no lock.json exists without its directory.
THEOREM TypeCorrect == Spec => []TypeOK
<1>1. Init => TypeOK
  BY ThresholdAssumption, TimeoutAssumption, CrashAssumption
     DEF Init, TypeOK, Age, Wait, Label, Inside
<1>2. TypeOK /\ [Next]_vars => TypeOK'
  <2> SUFFICES ASSUME TypeOK, [Next]_vars PROVE TypeOK'
    OBVIOUS
  <2> USE DEF TypeOK, Label, Inside, Acquiring, Owning, Goto, disk,
             TakeThreadLock, LeaveThreadLock
  <2>0. 0 \in Age /\ 0 \in Wait
    BY ThresholdAssumption, TimeoutAssumption DEF Age, Wait
  <2>1. ASSUME NEW p \in Thread, Begin(p) PROVE TypeOK'
    BY <2>0, <2>1 DEF Begin
  <2>17. ASSUME NEW p \in Thread, Enter(p) PROVE TypeOK'
    BY <2>0, <2>17, HomeAssumption DEF Enter
  <2>2. ASSUME NEW p \in Thread, Mkdir(p) PROVE TypeOK'
    BY <2>0, <2>2, ThreadAssumption DEF Mkdir
  <2>3. ASSUME NEW p \in Thread, CreateMeta(p) PROVE TypeOK'
    BY <2>0, <2>3 DEF CreateMeta
  <2>4. ASSUME NEW p \in Thread, FillMeta(p) PROVE TypeOK'
    BY <2>0, <2>4 DEF FillMeta
  <2>5. ASSUME NEW p \in Thread, Inspect(p) PROVE TypeOK'
    BY <2>5 DEF Inspect
  <2>6. ASSUME NEW p \in Thread, Judge(p) PROVE TypeOK'
    BY <2>0, <2>6 DEF Judge
  <2>7. ASSUME NEW p \in Thread, Evict(p) PROVE TypeOK'
    BY <2>0, <2>7 DEF Evict, Unlink
  <2>8. ASSUME NEW p \in Thread, EvictDir(p) PROVE TypeOK'
    BY <2>0, <2>8 DEF EvictDir, Rmdir
  <2>9. ASSUME NEW p \in Thread, Backoff(p) PROVE TypeOK'
    BY <2>9 DEF Backoff
  <2>10. ASSUME NEW p \in Thread, Leave(p) PROVE TypeOK'
    BY <2>10 DEF Leave
  <2>11. ASSUME NEW p \in Thread, Release(p) PROVE TypeOK'
    BY <2>0, <2>11 DEF Release, Unlink
  <2>12. ASSUME NEW p \in Thread, ReleaseDir(p) PROVE TypeOK'
    BY <2>0, <2>12 DEF ReleaseDir, Rmdir
  <2>13. ASSUME NEW h \in Process, Crash(h) PROVE TypeOK'
    BY <2>0, <2>13, CrashAssumption DEF Crash
  <2>14. ASSUME NEW p \in Thread, Restart(p) PROVE TypeOK'
    BY <2>14 DEF Restart
  <2>18. ASSUME NEW p \in Thread, AcquireRaises(p) PROVE TypeOK'
    <3>1. crashes' \in 0 .. MaxCrashes
      BY <2>18, CrashAssumption DEF AcquireRaises
    <3>2. tlock' \in [Process -> Thread \union {NoOne}]
      BY <2>18, HomeAssumption DEF AcquireRaises
    <3>3. /\ pc' \in [Thread -> Label] /\ seen' \in [Thread -> Age]
          /\ \A q \in writers' : pc'[q] = "fill"
      BY <2>0, <2>18 DEF AcquireRaises
    <3> QED
      BY <2>18, <3>1, <3>2, <3>3 DEF AcquireRaises
  <2>15. ASSUME Tick PROVE TypeOK'
    BY <2>15, ClockRanges DEF Tick
  <2>16. CASE UNCHANGED vars
    BY <2>16 DEF vars
  <2> QED
    BY <2>1, <2>2, <2>3, <2>4, <2>5, <2>6, <2>7, <2>8, <2>9, <2>10, <2>11,
       <2>12, <2>13, <2>14, <2>15, <2>16, <2>17, <2>18 DEF Next, Step
<1> QED
  BY <1>1, <1>2, PTL DEF Spec

\* Once some age has crossed the threshold, that is never forgotten.
LEMMA OverdueIsFinal == TypeOK /\ [Next]_vars /\ overdue' = "no" => overdue = "no"
<1> SUFFICES ASSUME TypeOK, [Next]_vars, overdue' = "no" PROVE overdue = "no"
  OBVIOUS
<1>1. CASE Tick
  BY <1>1 DEF Tick, TypeOK, LiveOverdue
<1>4. ASSUME NEW h \in Process, Crash(h) PROVE overdue = "no"
  BY <1>4 DEF Crash
<1>2. ASSUME NEW p \in Thread, Begin(p) \/ Step(p) \/ AcquireRaises(p) \/ Restart(p)
      PROVE overdue = "no"
  BY <1>2 DEF Begin, Step, AcquireRaises, Enter, Mkdir, CreateMeta, FillMeta, Inspect, Judge, Evict,
              EvictDir, Backoff, Leave, Release, ReleaseDir, Restart
<1>3. CASE UNCHANGED vars
  BY <1>3 DEF vars
<1> QED
  BY <1>1, <1>2, <1>3, <1>4 DEF Next

LEMMA CalmInitially == Init => Calm
  BY DEF Init, Calm, Owning, Timing

LEMMA CalmPreserved ==
  ASSUME TypeOK, TypeOK', Calm, [Next]_vars, overdue' = "no"
  PROVE  Calm'
<1> USE DEF TypeOK, Calm, Owning, Timing, Goto, disk
<1>1. ASSUME NEW p \in Thread, Begin(p) PROVE Calm'
  BY <1>1 DEF Begin
<1>17. ASSUME NEW p \in Thread, Enter(p) PROVE Calm'
  BY <1>17 DEF Enter
<1>2. ASSUME NEW p \in Thread, Mkdir(p) PROVE Calm'
  BY <1>2, ThreadAssumption, ThresholdAssumption DEF Mkdir
<1>3. ASSUME NEW p \in Thread, CreateMeta(p) PROVE Calm'
  BY <1>3, ThreadAssumption, ThresholdAssumption DEF CreateMeta
<1>4. ASSUME NEW p \in Thread, FillMeta(p) PROVE Calm'
  BY <1>4, ThresholdAssumption DEF FillMeta
<1>5. ASSUME NEW p \in Thread, Inspect(p) PROVE Calm'
  BY <1>5 DEF Inspect
<1>6. ASSUME NEW p \in Thread, Judge(p) PROVE Calm'
  <2>1. ~IsStale(seen[p])
    BY <1>6, ThresholdAssumption DEF Judge, IsStale, Age
  <2> QED
    BY <1>6, <2>1 DEF Judge
<1>7. ASSUME NEW p \in Thread, Evict(p) PROVE Calm'
  BY <1>7 DEF Evict
<1>8. ASSUME NEW p \in Thread, EvictDir(p) PROVE Calm'
  BY <1>8 DEF EvictDir
<1>9. ASSUME NEW p \in Thread, Backoff(p) PROVE Calm'
  BY <1>9 DEF Backoff
<1>10. ASSUME NEW p \in Thread, Leave(p) PROVE Calm'
  BY <1>10 DEF Leave
<1>11. ASSUME NEW p \in Thread, Release(p) PROVE Calm'
  BY <1>11, ThresholdAssumption DEF Release, Unlink
<1>12. ASSUME NEW p \in Thread, ReleaseDir(p) PROVE Calm'
  BY <1>12, ThreadAssumption DEF ReleaseDir, Rmdir
<1>13. ASSUME NEW h \in Process, Crash(h) PROVE Calm'
  BY <1>13 DEF Crash
<1>14. ASSUME NEW p \in Thread, Restart(p) PROVE Calm'
  BY <1>14 DEF Restart
<1>18. ASSUME NEW p \in Thread, AcquireRaises(p) PROVE Calm'
  BY <1>18 DEF AcquireRaises
<1>15. CASE Tick
  <2>1. ~DirOverdue /\ ~HandOverdue
    BY <1>15 DEF Tick, LiveOverdue, OrphanOverdue
  <2>2. dir' # NoOne /\ meta' # "empty" => age' <= StaleThreshold
    BY <1>15, <2>1, ClockRanges, ThresholdAssumption DEF Tick, DirOverdue, Age
  <2>3. \A q \in Thread : pc'[q] \in Timing => seen'[q] <= StaleThreshold
    BY <1>15, <2>1, ClockRanges, ThresholdAssumption DEF Tick, HandOverdue, Age
  <2> QED
    BY <1>15, <2>2, <2>3 DEF Tick
<1>16. CASE UNCHANGED vars
  BY <1>16 DEF vars
<1> QED
  BY <1>1, <1>2, <1>3, <1>4, <1>5, <1>6, <1>7, <1>8, <1>9, <1>10, <1>11,
     <1>12, <1>13, <1>14, <1>15, <1>16, <1>17, <1>18 DEF Next, Step

\* The inductive invariant holds in every reachable state.
THEOREM CalmUntilStale == Spec => []IInv
<1>1. Init => IInv
  <2>1. Init => TypeOK
    BY ThresholdAssumption, TimeoutAssumption, CrashAssumption
       DEF Init, TypeOK, Age, Wait, Label, Inside
  <2> QED
    BY <2>1, CalmInitially DEF IInv
<1>2. IInv /\ TypeOK' /\ [Next]_vars => IInv'
  BY CalmPreserved, OverdueIsFinal DEF IInv
<1> QED
  BY <1>1, <1>2, TypeCorrect, PTL DEF Spec

\* Mutual exclusion of with_lock until a lock outlives the stale threshold.
THEOREM MutualExclusion == Spec => []MutexUntilStale
<1>1. IInv => MutexUntilStale
  BY DEF IInv, Calm, MutexUntilStale, Mutex, Owning
<1> QED
  BY <1>1, CalmUntilStale, PTL

\* Until then every holder will remove its own, complete lock in release_lock.
THEOREM HoldersOwnTheirLock == Spec => []HolderOwnsLock
<1>1. IInv => HolderOwnsLock
  BY DEF IInv, Calm, HolderOwnsLock
<1> QED
  BY <1>1, CalmUntilStale, PTL

\* What the thread lock of a process says, whatever became of the directory.
LEMMA ThreadLockPreserved ==
  ASSUME TypeOK, ThreadLockReturned, [Next]_vars
  PROVE  ThreadLockReturned'
<1> USE DEF TypeOK, ThreadLockReturned, Inside, Acquiring, Owning, Goto,
            TakeThreadLock, LeaveThreadLock
<1> USE HomeAssumption, ThreadAssumption
<1>1. ASSUME NEW p \in Thread, Enter(p) PROVE ThreadLockReturned'
  BY <1>1 DEF Enter
<1>2. ASSUME NEW p \in Thread, Mkdir(p) \/ FillMeta(p) \/ Inspect(p) \/ Judge(p)
      PROVE ThreadLockReturned'
  BY <1>2 DEF Mkdir, FillMeta, Inspect, Judge
<1>3. ASSUME NEW p \in Thread, CreateMeta(p) PROVE ThreadLockReturned'
  BY <1>3 DEF CreateMeta
<1>4. ASSUME NEW p \in Thread,
             Evict(p) \/ EvictDir(p) \/ Leave(p) \/ Release(p)
      PROVE ThreadLockReturned'
  BY <1>4 DEF Evict, EvictDir, Leave, Release
<1>5. ASSUME NEW p \in Thread, Backoff(p) \/ AcquireRaises(p) PROVE ThreadLockReturned'
  BY <1>5 DEF Backoff, AcquireRaises
<1>6. ASSUME NEW p \in Thread, ReleaseDir(p) PROVE ThreadLockReturned'
  BY <1>6 DEF ReleaseDir
<1>7. ASSUME NEW p \in Thread, Begin(p) \/ Restart(p) PROVE ThreadLockReturned'
  BY <1>7 DEF Begin, Restart
<1>8. ASSUME NEW h \in Process, Crash(h) PROVE ThreadLockReturned'
  BY <1>8 DEF Crash
<1>9. CASE Tick \/ UNCHANGED vars
  BY <1>9 DEF Tick, vars
<1> QED
  BY <1>1, <1>2, <1>3, <1>4, <1>5, <1>6, <1>7, <1>8, <1>9 DEF Next, Step

\* Every way out of acquire_lock and release_lock gives the thread lock back,
\* and two threads of one process are never both past it.
THEOREM ThreadLockIsReturned == Spec => []ThreadLockReturned
<1>1. Init => ThreadLockReturned
  BY HomeAssumption, ThreadAssumption
     DEF Init, ThreadLockReturned, Inside, Acquiring, Owning
<1> QED
  BY <1>1, TypeCorrect, ThreadLockPreserved, PTL DEF Spec
=============================================================================
