-------------------------------- MODULE PcCv --------------------------------
(***************************************************************************)
(* concurrency/pc-cv.c: producers and consumers that share one mutex and   *)
(* one condition variable.  lk is the set of threads that hold the mutex,  *)
(* cv the set of threads asleep on the condition variable.                 *)
(*                                                                         *)
(* pthread_cond_wait releases the mutex and falls asleep in one step,      *)
(* takes the mutex again before it returns, and may return without having  *)
(* been woken.                                                             *)
(***************************************************************************)
EXTENDS PcCommon

VARIABLES lk, cv, count
vars == <<lk, cv, count, depth, pc>>

Init == /\ lk = {}
        /\ cv = {}
        /\ count = 0
        /\ depth = 0
        /\ pc = [t \in Threads |-> "lock"]

\* count == n in Tproduce, count == 0 in Tconsume
MustWait(t) == count = IF t \in Producers THEN n ELSE 0

MutexLock(t) == /\ lk = {}
                /\ Goto(t, "lock", "while")
                /\ lk' = {t}
                /\ UNCHANGED <<cv, count, depth>>

\* the test of the while loop, true: cond_wait(&cv, &lk) sleeps
CondWait(t) == /\ MustWait(t)
               /\ Goto(t, "while", "wait")
               /\ lk' = {}
               /\ cv' = cv \cup {t}
               /\ UNCHANGED <<count, depth>>

\* the test of the while loop, false
LeaveWhile(t) == /\ ~MustWait(t)
                 /\ Goto(t, "while", "printf")
                 /\ UNCHANGED <<lk, cv, count, depth>>

\* a sleeper woken by nobody
Spurious(t) == /\ t \in cv
               /\ cv' = cv \ {t}
               /\ UNCHANGED <<lk, count, depth, pc>>

IfNotWhile(t) == /\ pc[t] = "wait" /\ t \notin cv
                 /\ lk = {}
                 /\ lk' = {t}
                 /\ pc' = [pc EXCEPT ![t] = "printf"]
                 /\ UNCHANGED <<cv, count, depth>>

\* cond_wait, woken: take the mutex again, return, test once more
Return(t) == /\ t \notin cv
             /\ lk = {}
             /\ Goto(t, "wait", "while")
             /\ lk' = {t}
             /\ UNCHANGED <<cv, count, depth>>

\* printf("(") or printf(")")
Printf(t) == /\ Goto(t, "printf", "count")
             /\ depth' = depth + Step(t)
             /\ UNCHANGED <<lk, cv, count>>

\* count++ or count--
Count(t) == /\ Goto(t, "count", "broadcast")
            /\ count' = count + Step(t)
            /\ UNCHANGED <<lk, cv, depth>>

Signal(t) == /\ Goto(t, "broadcast", "unlock")
             /\ \/ cv = {} /\ UNCHANGED cv
                \/ \E s \in cv : cv' = cv \ {s}
             /\ UNCHANGED <<lk, count, depth>>

\* cond_broadcast(&cv)
Broadcast(t) == /\ Goto(t, "broadcast", "unlock")
                /\ cv' = {}
                /\ UNCHANGED <<lk, count, depth>>

MutexUnlock(t) == /\ Goto(t, "unlock", "lock")
                  /\ lk' = {}
                  /\ UNCHANGED <<cv, count, depth>>

Run(t) == \/ MutexLock(t) \/ CondWait(t) \/ LeaveWhile(t) \/ Return(t)
          \/ Printf(t) \/ Count(t) \/ Broadcast(t) \/ MutexUnlock(t)

Next == \E t \in Threads : Run(t) \/ Spurious(t)

Spec == Init /\ [][Next]_vars

-----------------------------------------------------------------------------
\* count stays within the buffer (pc-cv.c:14,26), whatever the interleaving.
TypeOK == /\ lk \in SUBSET Threads
          /\ cv \in SUBSET Threads
          /\ count \in 0..n
          /\ depth \in Int
          /\ pc \in [Threads -> {"lock", "while", "wait", "printf", "count",
                                 "broadcast", "unlock"}]

\* No wakeup is lost on the shared condition variable (pc-cv.c:12,24): the
\* threads are never all asleep at once.
NeverAllAsleep == cv # Threads

\* Both kinds of parentheses are printed for ever (pc-cv.c:14,26), although
\* one condition variable serves producers and consumers alike.
Progress == /\ []<>(\E t \in Producers : pc[t] = "count")
            /\ []<>(\E t \in Consumers : pc[t] = "count")
=============================================================================
