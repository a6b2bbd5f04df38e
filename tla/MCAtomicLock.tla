---------------------------- MODULE MCAtomicLock ----------------------------
(* AtomicLock on small instances: which threads share a process. *)
EXTENDS AtomicLock

CONSTANTS t1, t2, t3, P, Q

\* Two threads of one process and one of another, or three of three.
TwoInP == [t \in Thread |-> IF t = t3 THEN Q ELSE P]
OneEach == [t \in Thread |-> t]

\* A process may be killed anywhere, or only while a thread is inside with_lock.
Anywhere  == Label \ {"dead"}
Holding   == {"critical"}
=============================================================================
