----------------------------- MODULE LockOrder -----------------------------
(***************************************************************************)
(* Locks that are taken one after the other and kept: by the two threads   *)
(* of concurrency/model-checker/lock-ordering.py, which let all of them go *)
(* in one statement and start again, and by the processes of               *)
(* flock/flock-demo.c, which let them go by exiting.  The latter are given *)
(* any files, one of them perhaps twice: flock waits also for a lock that  *)
(* the process itself holds through another descriptor.                    *)
(***************************************************************************)
EXTENDS Naturals, Sequences, FiniteSets

CONSTANTS Procs, Locks,
          Orders    \* what order may be initially

VARIABLES order,    \* order[p]: the locks in the order in which p takes them
          held,     \* held[p]: how many of them p has
          ended     \* the processes that have exited
vars == <<order, held, ended>>

Init == order \in Orders /\ held = [p \in Procs |-> 0] /\ ended = {}

\* LOCK_SH for LOCK_EX
Shared(l) == TRUE

Holds(p, l) == \E k \in 1..held[p] : order[p][k] = l
Free(l) == \A p \in Procs : ~Holds(p, l)

wants(p) == order[p][held[p] + 1]

\* while not self.tryacquire(l): pass;  flock(fd, LOCK_EX)
acquire(p) == /\ held[p] < Len(order[p]) /\ p \notin ended
              /\ wants(p) \in Locks /\ Free(wants(p))
              /\ held' = [held EXCEPT ![p] = @ + 1]
              /\ UNCHANGED <<order, ended>>

\* self.release(0), self.release(1), self.release(2)
release(p) == /\ held[p] = Len(order[p])
              /\ held' = [held EXCEPT ![p] = 0]
              /\ UNCHANGED <<order, ended>>

\* "All locks acquired!", and return from main
Exit(p) == /\ held[p] = Len(order[p]) /\ p \notin ended
           /\ held' = [held EXCEPT ![p] = 0]
           /\ ended' = ended \union {p}
           /\ UNCHANGED order

\* assert(fd > 0) fails for a file that is not there
Abort(p) == /\ held[p] < Len(order[p]) /\ p \notin ended
            /\ wants(p) \notin Locks
            /\ held' = [held EXCEPT ![p] = 0]
            /\ ended' = ended \union {p}
            /\ UNCHANGED order
-----------------------------------------------------------------------------
WaitsFor(p, q) == /\ p \notin ended /\ held[p] < Len(order[p])
                  /\ Holds(q, wants(p))
Circle == \E C \in (SUBSET Procs) \ {{}} : \A p \in C : \E q \in C : WaitsFor(p, q)

\* There is an order of the locks that all of them follow.
Ordered == \E rank \in [Locks -> 1..Cardinality(Locks)] : \A p \in Procs : \A k \in 2..Len(order[p]) :
             {order[p][k - 1], order[p][k]} \subseteq Locks => rank[order[p][k - 1]] < rank[order[p][k]]

\* No lock has two holders, and nobody waits in a circle, or for itself,
\* when all take their locks in one order (lock-ordering.py:14-24,
\* flock-demo.c:7-13).
OrderPreventsCircles ==
  /\ \A l \in Locks : \A p, q \in Procs : Holds(p, l) /\ Holds(q, l) => p = q
  /\ Ordered => ~Circle
=============================================================================
