------------------------------ MODULE RaceSum ------------------------------
(***************************************************************************)
(* Increments of a shared counter without a lock: do_sum of                *)
(* concurrency/midterm/midterm-demo.c (N = 3, unrolled), which             *)
(* model-checker/midterm.py states once more, and Tsum of                  *)
(* concurrency/sum.c, where the load, the addition and the store are one   *)
(* addq that is not locked.                                                *)
(***************************************************************************)
EXTENDS Naturals, FiniteSets

CONSTANTS Threads, N
ASSUME ThreadsAssumption == IsFiniteSet(Threads) /\ Threads # {}
ASSUME NAssumption == N \in Nat \ {0}

VARIABLES sum,       \* the shared counter
          i,         \* i[t]: the increments that thread t has finished
          reg,       \* reg[t]: the register that an increment goes through
          pc,        \* pc[t]: where thread t is
          main       \* where main is

vars == <<sum, i, reg, pc, main>>

Goto(t, from, to) == pc[t] = from /\ pc' = [pc EXCEPT ![t] = to]

Init == /\ sum = 0
        /\ i = [t \in Threads |-> 0]
        /\ reg = [t \in Threads |-> 0]
        /\ pc = [t \in Threads |-> "load"]
        /\ main = "join"

LoadOnce(t) == /\ Goto(t, "load", "add")
               /\ reg' = [reg EXCEPT ![t] = IF i[t] = 0 THEN sum ELSE 0]
               /\ UNCHANGED <<sum, i, main>>

\* t = sum
Load(t) == /\ Goto(t, "load", "add")
           /\ reg' = [reg EXCEPT ![t] = sum]
           /\ UNCHANGED <<sum, i, main>>

\* t += 1
AddOne(t) == /\ Goto(t, "add", "store")
             /\ reg' = [reg EXCEPT ![t] = @ + 1]
             /\ UNCHANGED <<sum, i, main>>

StoreAdds(t) == /\ Goto(t, "store", IF i[t] + 1 = N THEN "done" ELSE "load")
                /\ sum' = sum + reg[t]
                /\ i' = [i EXCEPT ![t] = @ + 1]
                /\ UNCHANGED <<reg, main>>

\* sum = t, and on to the next increment
Store(t) == /\ Goto(t, "store", IF i[t] + 1 = N THEN "done" ELSE "load")
            /\ sum' = reg[t]
            /\ i' = [i EXCEPT ![t] = @ + 1]
            /\ UNCHANGED <<reg, main>>

do_sum(t) == Load(t) \/ AddOne(t) \/ Store(t)

\* join(); printf
Join == /\ main = "join"
        /\ \A t \in Threads : pc[t] = "done"
        /\ main' = "printed"
        /\ UNCHANGED <<sum, i, reg, pc>>
Over == main = "printed" /\ UNCHANGED vars

Next == (\E t \in Threads : do_sum(t)) \/ Join \/ Over
Spec == Init /\ [][Next]_vars
-----------------------------------------------------------------------------
\* No thread makes more than its N increments (midterm-demo.c:8-18).
TypeOK == /\ sum \in Nat
          /\ i \in [Threads -> 0..N]
          /\ reg \in [Threads -> Nat]
          /\ pc \in [Threads -> {"load", "add", "store", "done"}]
          /\ main \in {"join", "printed"}

\* However many threads race, at least two increments survive when each of
\* them makes at least two (midterm-demo.c:8-18): the thread that stores
\* last has loaded what was stored after its own first increment or that
\* increment itself.  Two is exact: midterm-tle.c:106-125 is a schedule.
AtLeastTwo == main = "printed" /\ N > 1 => sum >= 2

\* The increments that have been stored: <<t, k>> is the k-th of thread t
Stored == {p \in Threads \X (1..N) : p[2] <= i[p[1]]}

\* No increment is counted twice: sum never exceeds the number of increments
\* that have been stored (midterm-demo.c:10, 14, 18).
NeverTooMuch == sum <= Cardinality(Stored)
=============================================================================
