------------------------------ MODULE PcMutex ------------------------------
(***************************************************************************)
(* concurrency/pc.c: producers and consumers that retry under one mutex.   *)
(* A mutex is the set of threads that hold it.  stdout is unbuffered:      *)
(* count and depth differ between the two statements that change them.     *)
(***************************************************************************)
EXTENDS PcCommon

VARIABLES lk, count
vars == <<lk, count, depth, pc>>

Init == /\ lk = {}
        /\ count = 0
        /\ depth = 0
        /\ pc = [t \in Threads |-> "lock"]

\* count == n in Tproduce, count == 0 in Tconsume
MustRetry(t) == count = IF t \in Producers THEN n ELSE 0

MutexLock(t) == /\ lk = {}
                /\ Goto(t, "lock", "test")
                /\ lk' = {t}
                /\ UNCHANGED <<count, depth>>

\* if (...) { mutex_unlock(&lk); goto retry; }
Test(t) == /\ Goto(t, "test", IF MustRetry(t) THEN "lock" ELSE "count")
           /\ lk' = IF MustRetry(t) THEN {} ELSE lk
           /\ UNCHANGED <<count, depth>>

\* count++ or count--
Count(t) == /\ Goto(t, "count", "printf")
            /\ count' = count + Step(t)
            /\ UNCHANGED <<lk, depth>>

\* printf("(") or printf(")")
Printf(t) == /\ Goto(t, "printf", "unlock")
             /\ depth' = depth + Step(t)
             /\ UNCHANGED <<lk, count>>

MutexUnlock(t) == /\ Goto(t, "unlock", "lock")
                  /\ lk' = {}
                  /\ UNCHANGED <<count, depth>>

Next == \E t \in Threads : \/ MutexLock(t) \/ Test(t) \/ Count(t)
                           \/ Printf(t) \/ MutexUnlock(t)

Spec == Init /\ [][Next]_vars
-----------------------------------------------------------------------------

\* Whenever nobody is inside, the counter tells the truth about the output:
\* count and the balance of stdout agree while lk is free.
CountIsDepth == lk = {} => count = depth
=============================================================================
