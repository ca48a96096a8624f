------------------------------ MODULE SpinSum ------------------------------
(***************************************************************************)
(* concurrency/sum-scalability.c over the spin lock of                     *)
(* concurrency/include/thread-sync.h.                                      *)
(*                                                                         *)
(* main divides N increments of `sum' among nthread threads; each thread   *)
(* performs its n increments one at a time inside the spin lock; main      *)
(* joins them and asserts that no increment was lost.  `sum++' is compiled *)
(* to a load and a store of shared memory and is two steps here, so that a *)
(* lock which lets two threads in does lose increments.                    *)
(***************************************************************************)
EXTENDS Naturals, FiniteSets

CONSTANTS Threads, N

VARIABLES lock,      \* the spinlock_t: 0 free, 1 held
          sum, i, reg, pc, main     \* as in RaceSum
vars == <<lock, sum, i, reg, pc, main>>

Goto(t, from, to) == pc[t] = from /\ pc' = [pc EXCEPT ![t] = to]

nthread == Cardinality(Threads)

\* the increments of one thread: C's integer division drops the remainder
n == N \div nthread

Init == /\ lock = 0
        /\ sum = 0
        /\ i = [t \in Threads |-> 0]
        /\ reg = [t \in Threads |-> 0]
        /\ pc = [t \in Threads |-> "for"]
        /\ main = "join"

\* for (int i = 0; i < n; ...)
For(t) == /\ Goto(t, "for", IF i[t] < n THEN "spin_lock" ELSE "done")
          /\ UNCHANGED <<lock, sum, i, reg, main>>

TestOnly(t) == /\ lock = 0
               /\ Goto(t, "spin_lock", "load")
               /\ UNCHANGED <<lock, sum, i, reg, main>>

\* One atomic_xchg(lk, 1): the thread gets through when the old value is 0,
\* and goes round the while loop otherwise.
SpinLock(t) == /\ lock' = 1
               /\ Goto(t, "spin_lock", IF lock = 0 THEN "load" ELSE "spin_lock")
               /\ UNCHANGED <<sum, i, reg, main>>

\* sum++, first half: read the counter
Load(t) == /\ Goto(t, "load", "store")
           /\ reg' = [reg EXCEPT ![t] = sum]
           /\ UNCHANGED <<lock, sum, i, main>>

\* sum++, second half: write it back
Store(t) == /\ Goto(t, "store", "spin_unlock")
            /\ sum' = reg[t] + 1
            /\ UNCHANGED <<lock, i, reg, main>>

UnlockUnlessLast(t) == /\ Goto(t, "spin_unlock", "for")
                       /\ lock' = IF i[t] + 1 < n THEN 0 ELSE lock
                       /\ i' = [i EXCEPT ![t] = @ + 1]
                       /\ UNCHANGED <<sum, reg, main>>

\* atomic_xchg(lk, 0), and the i++ that closes the loop body
SpinUnlock(t) == /\ Goto(t, "spin_unlock", "for")
                 /\ lock' = 0
                 /\ i' = [i EXCEPT ![t] = @ + 1]
                 /\ UNCHANGED <<sum, reg, main>>

Tsum(t) == For(t) \/ SpinLock(t) \/ Load(t) \/ Store(t) \/ SpinUnlock(t)

\* join() returns once every thread has returned from Tsum
Join == /\ main = "join"
        /\ \A t \in Threads : pc[t] = "done"
        /\ main' = "assert"
        /\ UNCHANGED <<lock, sum, i, reg, pc>>

\* assert(sum == n * nthread)
Assert == /\ main = "assert"
          /\ main' = IF sum = n * nthread THEN "exit" ELSE "abort"
          /\ UNCHANGED <<lock, sum, i, reg, pc>>

\* the process is over, one way or the other
Over == main \in {"exit", "abort"} /\ UNCHANGED vars

Next == (\E t \in Threads : Tsum(t)) \/ Join \/ Assert \/ Over

Spec == Init /\ [][Next]_vars
-----------------------------------------------------------------------------
Locs == {"for", "spin_lock", "load", "store", "spin_unlock", "done"}

\* The lock is 0 or 1 (thread-sync.h:6-7) and no thread runs its loop body
\* more than n times (sum-scalability.c:16).
TypeOK == /\ lock \in {0, 1}
          /\ sum \in Nat
          /\ i \in [Threads -> 0..n]
          /\ reg \in [Threads -> Nat]
          /\ pc \in [Threads -> Locs]
          /\ main \in {"join", "assert", "exit", "abort"}

InCS(t) == pc[t] \in {"load", "store", "spin_unlock"}

\* spin_lock (thread-sync.h:18-25) lets at most one thread in at a time.
MutualExclusion == \A s, t \in Threads : InCS(s) /\ InCS(t) => s = t

\* The assertion of sum-scalability.c:39 never fails: no increment is lost
\* although sum++ is not atomic.
AssertHolds == main # "abort"
=============================================================================
