----------------------------- MODULE AtomicLock -----------------------------
(***************************************************************************)
(* The lock of python/nymrel_swarm_protocol/fencing.py (AtomicLockManager),*)
(* one lock name, at the granularity of file-system calls.  Inside a       *)
(* process a threading.Lock lets one thread at a time through; between     *)
(* processes the lock is a directory: mkdir takes it, lock.json inside     *)
(* says when it was taken, and removing the directory releases it.         *)
(* Whoever finds the directory there reads its age and removes it by force *)
(* once the age exceeds the stale threshold.  Threads are scheduled and    *)
(* stalled, and processes killed, between any two calls.                   *)
(***************************************************************************)
EXTENDS Naturals, FiniteSets

CONSTANTS
  Thread,          \* threads that call acquire_lock / with_lock
  Process,         \* the processes they run in
  Home,            \* [Thread -> Process]
  NoOne,           \* no thread: "the lock directory does not exist"
  StaleThreshold,  \* stale_threshold_ms, in clock ticks
  Timeout,         \* timeout_ms, in clock ticks
  MaxCrashes,      \* bound: kills and failing acquisitions in a behaviour
  CrashAt          \* bound: the program points they may find a thread at

\* Where a thread is: between calls ("idle"), waiting for its process's thread
\* lock, inside acquire_lock's loop, inside the function with_lock protects
\* ("critical"), inside release_lock, or killed with its process.
Acquiring == {"mkdir", "create", "fill", "inspect", "judge",
              "evict", "evictdir", "backoff"}
Owning    == {"create", "fill", "critical", "release", "releasedir"}
Inside    == Acquiring \union Owning
Label     == {"idle", "dead", "thread"} \union Inside

ASSUME ThreadAssumption    == NoOne \notin Thread
ASSUME HomeAssumption      == Home \in [Thread -> Process]
ASSUME ThresholdAssumption == StaleThreshold \in Nat
ASSUME TimeoutAssumption   == Timeout \in Nat
ASSUME CrashAssumption     == MaxCrashes \in Nat /\ CrashAt \subseteq Label

VARIABLES
  tlock,    \* _process_locks: the thread that has each process's thread lock
  dir,      \* the thread whose mkdir made the lock directory, or NoOne
  meta,     \* lock.json in it: "none", "empty" (opened, not all written), "full"
  writers,  \* threads whose open descriptor is the lock.json in the directory
  age,      \* what an inspector computes: since acquired_at, or since the
            \* directory's mtime while there is no lock.json
  pc,       \* program point of each thread
  seen,     \* age of the time a thread has in hand: an inspector's reading,
            \* not compared yet, or the acquired_at it is going to write
  waited,   \* time waited so far, for the thread lock or since start_time
  crashes,  \* kills and failing acquisitions so far
  overdue   \* history: whether some lock's age, on disk or in an inspector's
            \* hands, has exceeded the stale threshold: "no"; "orphan", only
            \* of locks nobody was at work on any more; "live", of others

vars == <<tlock, dir, meta, writers, age, pc, seen, waited, crashes, overdue>>

disk == <<dir, meta, writers, age>>

-----------------------------------------------------------------------------
(* Clock arithmetic: ages saturate one tick past the threshold and waits at *)
(* the timeout; the code compares them with nothing larger.                 *)

Age  == 0 .. StaleThreshold + 1
Wait == 0 .. Timeout

StaleAtThreshold(a) == a >= StaleThreshold
IsStale(a) == a > StaleThreshold

NeverTimedOut(p) == FALSE
TimedOut(p) == waited[p] >= Timeout

Older(a)  == IF a > StaleThreshold THEN a ELSE a + 1
Longer(w) == IF w >= Timeout THEN w ELSE w + 1

Goto(p, l) == pc' = [pc EXCEPT ![p] = l]

TakeThreadLock(p)   == tlock' = [tlock EXCEPT ![Home[p]] = p]
LeaveThreadLock(p)  == tlock' = [tlock EXCEPT ![Home[p]] = NoOne]

-----------------------------------------------------------------------------
Init ==
  /\ tlock = [h \in Process |-> NoOne]
  /\ dir = NoOne
  /\ meta = "none"
  /\ writers = {}
  /\ age = 0
  /\ pc = [p \in Thread |-> "idle"]
  /\ seen = [p \in Thread |-> 0]
  /\ waited = [p \in Thread |-> 0]
  /\ crashes = 0
  /\ overdue = "no"

\* with_lock is called.
Begin(p) ==
  /\ pc[p] = "idle"
  /\ Goto(p, "thread")
  /\ waited' = [waited EXCEPT ![p] = 0]
  /\ UNCHANGED <<tlock, disk, seen, crashes, overdue>>

\* mutated form: the thread lock is not waited for
EnterAnyway(p) ==
  /\ pc[p] = "thread"
  /\ TakeThreadLock(p)
  /\ Goto(p, "mkdir")
  /\ waited' = [waited EXCEPT ![p] = 0]
  /\ UNCHANGED <<disk, seen, crashes, overdue>>

\* t_lock.acquire(timeout): the lock shared by the threads of the process, or,
\* after the timeout, TimeoutError.  start_time is taken with the lock held.
Enter(p) ==
  /\ pc[p] = "thread"
  /\ \/ /\ tlock[Home[p]] = NoOne
        /\ TakeThreadLock(p)
        /\ Goto(p, "mkdir")
        /\ waited' = [waited EXCEPT ![p] = 0]
     \/ /\ tlock[Home[p]] # NoOne /\ TimedOut(p)
        /\ Goto(p, "idle")
        /\ UNCHANGED <<tlock, waited>>
  /\ UNCHANGED <<disk, seen, crashes, overdue>>

\* os.mkdir(lock_dir): makes the directory, or fails with FileExistsError.
Mkdir(p) ==
  /\ pc[p] = "mkdir"
  /\ \/ /\ dir = NoOne
        /\ dir' = p /\ meta' = "none" /\ writers' = {} /\ age' = 0
        /\ Goto(p, "create")
     \/ /\ dir # NoOne
        /\ Goto(p, "inspect")
        /\ UNCHANGED disk
  /\ UNCHANGED <<tlock, seen, waited, crashes, overdue>>

\* mutated form: the error leaves acquire_lock with the thread lock locked
CreateMetaLeaking(p) ==
  /\ pc[p] = "create"
  /\ \/ /\ dir # NoOne
        /\ meta' = "empty"
        /\ writers' = writers \union {p}
        /\ age' = 0
        /\ Goto(p, "fill")
        /\ UNCHANGED <<tlock, dir>>
     \/ /\ dir = NoOne
        /\ Goto(p, "idle")
        /\ UNCHANGED <<tlock, disk>>
  /\ seen' = [seen EXCEPT ![p] = 0]
  /\ UNCHANGED <<waited, crashes, overdue>>

\* acquired_at is taken and open(meta_path, "w") creates or truncates
\* lock.json; a new entry touches the directory's mtime.  If the directory is
\* gone, FileNotFoundError releases the thread lock and leaves acquire_lock.
CreateMeta(p) ==
  /\ pc[p] = "create"
  /\ \/ /\ dir # NoOne
        /\ meta' = "empty"
        /\ writers' = writers \union {p}
        /\ age' = 0
        /\ Goto(p, "fill")
        /\ UNCHANGED <<tlock, dir>>
     \/ /\ dir = NoOne
        /\ LeaveThreadLock(p)
        /\ Goto(p, "idle")
        /\ UNCHANGED disk
  /\ seen' = [seen EXCEPT ![p] = 0]
  /\ UNCHANGED <<waited, crashes, overdue>>

\* mutated form: the file is left open, its data in the buffer
FillMetaUnclosed(p) ==
  /\ pc[p] = "fill"
  /\ seen' = [seen EXCEPT ![p] = 0]
  /\ Goto(p, "critical")
  /\ UNCHANGED <<tlock, disk, waited, crashes, overdue>>

\* The JSON goes to the open file, which may have been unlinked meanwhile;
\* acquire_lock returns the handle all the same.
FillMeta(p) ==
  /\ pc[p] = "fill"
  /\ IF p \in writers
       THEN meta' = "full" /\ age' = seen[p]
       ELSE UNCHANGED <<meta, age>>
  /\ writers' = writers \ {p}
  /\ seen' = [seen EXCEPT ![p] = 0]
  /\ Goto(p, "critical")
  /\ UNCHANGED <<tlock, dir, waited, crashes, overdue>>

\* The mkdir, the open or the write raises some other error (no space, no free
\* descriptor): the thread lock is released and the error raised, while the
\* directory stays behind as it is, with a lock.json that does not parse if the
\* write was the one to fail.
AcquireRaises(p) ==
  /\ pc[p] \in {"mkdir", "create", "fill"} \intersect CrashAt
  /\ crashes < MaxCrashes
  /\ crashes' = crashes + 1
  /\ writers' = writers \ {p}
  /\ seen' = [seen EXCEPT ![p] = 0]
  /\ LeaveThreadLock(p)
  /\ Goto(p, "idle")
  /\ UNCHANGED <<dir, meta, age, waited, overdue>>

\* mutated form: a directory without lock.json is left alone
InspectMetaOnly(p) ==
  /\ pc[p] = "inspect"
  /\ \/ /\ dir # NoOne /\ meta = "full"
        /\ seen' = [seen EXCEPT ![p] = age]
        /\ Goto(p, "judge")
     \/ /\ dir = NoOne \/ meta # "full"
        /\ Goto(p, "backoff")
        /\ UNCHANGED seen
  /\ UNCHANGED <<tlock, disk, waited, crashes, overdue>>

\* The FileExistsError handler looks at the lock: acquired_at from lock.json, or the
\* directory's mtime when there is no lock.json.  An empty lock.json fails to
\* parse and a vanished directory fails to stat; both errors are swallowed.
Inspect(p) ==
  /\ pc[p] = "inspect"
  /\ \/ /\ dir # NoOne /\ meta # "empty"
        /\ seen' = [seen EXCEPT ![p] = age]
        /\ Goto(p, "judge")
     \/ /\ dir = NoOne \/ meta = "empty"
        /\ Goto(p, "backoff")
        /\ UNCHANGED seen
  /\ UNCHANGED <<tlock, disk, waited, crashes, overdue>>

\* if age > stale_threshold_ms: decided on the time read before.
Judge(p) ==
  /\ pc[p] = "judge"
  /\ Goto(p, IF IsStale(seen[p]) THEN "evict" ELSE "backoff")
  /\ seen' = [seen EXCEPT ![p] = 0]
  /\ UNCHANGED <<tlock, disk, waited, crashes, overdue>>

\* _force_remove, first half: remove the files the directory holds.
Unlink ==
  IF meta = "none"
    THEN UNCHANGED disk
    ELSE meta' = "none" /\ writers' = {} /\ age' = 0 /\ UNCHANGED dir

\* _force_remove, second half: rmdir, which fails (and is ignored) when
\* somebody has put a lock.json into the directory since.
Rmdir ==
  IF meta = "none"
    THEN dir' = NoOne /\ age' = 0 /\ UNCHANGED <<meta, writers>>
    ELSE UNCHANGED disk

\* Eviction of a lock judged stale; the path may hold another lock by now.
Evict(p) ==
  /\ pc[p] = "evict"
  /\ Unlink
  /\ Goto(p, "evictdir")
  /\ UNCHANGED <<tlock, seen, waited, crashes, overdue>>

EvictDir(p) ==
  /\ pc[p] = "evictdir"
  /\ Rmdir
  /\ Goto(p, "backoff")
  /\ UNCHANGED <<tlock, seen, waited, crashes, overdue>>

\* mutated form: giving up goes through the cleanup of with_lock's finally
BackoffReleases(p) ==
  /\ pc[p] = "backoff"
  /\ Goto(p, IF TimedOut(p) THEN "release" ELSE "mkdir")
  /\ UNCHANGED <<tlock, disk, seen, waited, crashes, overdue>>

\* Once timeout_ms have passed, release the thread lock and raise; otherwise
\* sleep and try again.
Backoff(p) ==
  /\ pc[p] = "backoff"
  /\ \/ TimedOut(p) /\ LeaveThreadLock(p) /\ Goto(p, "idle")
     \/ ~TimedOut(p) /\ Goto(p, "mkdir") /\ UNCHANGED tlock
  /\ UNCHANGED <<disk, seen, waited, crashes, overdue>>

\* The protected function returns or raises; with_lock's finally releases.
Leave(p) ==
  /\ pc[p] = "critical"
  /\ Goto(p, "release")
  /\ UNCHANGED <<tlock, disk, seen, waited, crashes, overdue>>

\* release_lock: removes whatever is at the path, whoever made it.
Release(p) ==
  /\ pc[p] = "release"
  /\ Unlink
  /\ Goto(p, "releasedir")
  /\ UNCHANGED <<tlock, seen, waited, crashes, overdue>>

ReleaseDir(p) ==
  /\ pc[p] = "releasedir"
  /\ Rmdir
  /\ LeaveThreadLock(p)
  /\ Goto(p, "idle")
  /\ UNCHANGED <<seen, waited, crashes, overdue>>

-----------------------------------------------------------------------------
(* The environment: kills, restarts, and time.                              *)

\* A kill ends every thread of the process, and its thread lock with them.
Crash(h) ==
  LET victims == {p \in Thread : Home[p] = h} IN
  /\ crashes < MaxCrashes
  /\ \E p \in victims : pc[p] \in CrashAt \ {"dead"}
  /\ crashes' = crashes + 1
  /\ tlock' = [tlock EXCEPT ![h] = NoOne]
  /\ writers' = writers \ victims
  /\ seen' = [p \in Thread |-> IF p \in victims THEN 0 ELSE seen[p]]
  /\ pc' = [p \in Thread |-> IF p \in victims THEN "dead" ELSE pc[p]]
  /\ UNCHANGED <<dir, meta, age, waited, overdue>>

Restart(p) ==
  /\ pc[p] = "dead"
  /\ Goto(p, "idle")
  /\ UNCHANGED <<tlock, disk, seen, waited, crashes, overdue>>

\* A lock directory whose maker is not at work on it any more.
Orphaned == dir # NoOne /\ pc[dir] \notin Owning

\* The points at which a thread has such a time in hand.
Timing == {"judge", "fill"}

\* The ages that cross the threshold with the next tick.
DirOverdue    == dir # NoOne /\ meta # "empty" /\ Older(age) > StaleThreshold
HandOverdue   == \E p \in Thread : pc[p] \in Timing /\ Older(seen[p]) > StaleThreshold
LiveOverdue   == overdue = "live" \/ HandOverdue \/ (DirOverdue /\ ~Orphaned)
OrphanOverdue == DirOverdue /\ Orphaned

\* One tick for the lock on disk, for every time in a thread's hands and for
\* every wait in progress.
Tick ==
  /\ age' = IF dir = NoOne THEN age ELSE Older(age)
  /\ seen' = [p \in Thread |->
                IF pc[p] \in Timing THEN Older(seen[p]) ELSE seen[p]]
  /\ waited' = [p \in Thread |->
                IF pc[p] \in Acquiring \union {"thread"} THEN Longer(waited[p])
                ELSE waited[p]]
  /\ overdue' = IF LiveOverdue THEN "live"
                ELSE IF OrphanOverdue THEN "orphan" ELSE overdue
  /\ UNCHANGED <<tlock, dir, meta, writers, pc, crashes>>

Step(p) ==
  \/ Enter(p) \/ Mkdir(p) \/ CreateMeta(p) \/ FillMeta(p)
  \/ Inspect(p) \/ Judge(p) \/ Evict(p) \/ EvictDir(p) \/ Backoff(p)
  \/ Leave(p) \/ Release(p) \/ ReleaseDir(p)

Next ==
  \/ \E p \in Thread : Begin(p) \/ Step(p) \/ AcquireRaises(p) \/ Restart(p)
  \/ \E h \in Process : Crash(h)
  \/ Tick

Spec == Init /\ [][Next]_vars

\* A started call keeps running while its process lives, and time passes.
\* Nothing obliges a thread to start a call, or a process to die or to restart.
RunFairness == (\A p \in Thread : WF_vars(Step(p))) /\ WF_vars(Tick)

FairSpec == Spec /\ RunFairness

\* Killed processes are restarted and all keep asking for the lock: for
\* properties about what the next callers do with a lock left behind.
BusySpec == FairSpec /\ \A p \in Thread : WF_vars(Begin(p)) /\ WF_vars(Restart(p))

-----------------------------------------------------------------------------
(* Properties.                                                              *)

\* Every variable stays within its type; lock.json exists only inside a lock
\* directory, and is open for writing only while the thread that opened it is
\* inside the write: no descriptor outlives acquire_lock, an eviction or a kill.
TypeOK ==
  /\ tlock \in [Process -> Thread \union {NoOne}]
  /\ dir \in Thread \union {NoOne}
  /\ meta \in {"none", "empty", "full"}
  /\ writers \in SUBSET Thread
  /\ age \in Age
  /\ pc \in [Thread -> Label]
  /\ seen \in [Thread -> Age]
  /\ waited \in [Thread -> Wait]
  /\ crashes \in 0 .. MaxCrashes
  /\ overdue \in {"no", "orphan", "live"}
  /\ dir = NoOne => meta = "none"
  /\ meta = "none" => writers = {}
  /\ \A p \in writers : pc[p] = "fill"

Mutex == \A p, q \in Thread : pc[p] = "critical" /\ pc[q] = "critical" => p = q

\* As long as no lock has outlived the stale threshold, two threads are never
\* inside with_lock at once, whoever crashes wherever: acquire_lock's mkdir and
\* the unconditional removal in release_lock cannot undo each other.
MutexUntilStale == overdue = "no" => Mutex

\* Until then the directory a holder will remove in release_lock is its own and
\* carries complete metadata: release_lock has no ownership check of its own.
HolderOwnsLock ==
  overdue = "no" => \A p \in Thread :
                /\ pc[p] \in Owning => dir = p
                /\ pc[p] \in {"critical", "release"} => meta = "full"

\* The thread lock is held exactly while a call is past it: every way out of
\* acquire_lock and release_lock, errors and timeouts included, gives it back,
\* so a later call in the same process is not shut out for ever.  Two threads
\* of one process are thus apart even after their lock was evicted.
ThreadLockReturned ==
  \A p \in Thread : tlock[Home[p]] = p <=> pc[p] \in Inside

\* acquire_lock returns the lock or raises (or its process dies): no caller is
\* left retrying for ever, whatever the others do.
AcquireResolves ==
  \A p \in Thread : pc[p] = "thread" ~> pc[p] \in {"critical", "idle", "dead"}

\* README.md: "automatic stale-lock eviction".  If processes keep asking, a lock
\* left behind by a crash, or by an acquire_lock that raised, does not stay on disk
\* for ever, with one exception: a write of lock.json cut short leaves a file that
\* does not parse, and a lock of which nobody can tell the age.
OrphanEvictedUnlessTorn == (Orphaned /\ meta # "empty") ~> ~Orphaned \/ meta = "empty"

\* lock.ts:80 calls the race between two evictions of one stale lock one to
\* ignore.  Mutual exclusion as long as no thread holds the lock, or a time it
\* has read, beyond the threshold: only locks left behind by a crash are evicted.
MutexWhileHoldersPrompt == overdue # "live" => Mutex
=============================================================================
