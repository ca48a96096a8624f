---------------------------- MODULE Philosopher ----------------------------
(***************************************************************************)
(* concurrency/philosopher.c: N philosophers, N binary semaphores as       *)
(* forks.  Philosopher N takes its forks in the opposite order from the    *)
(* others, which makes every philosopher take the lower numbered fork      *)
(* first.                                                                  *)
(***************************************************************************)
EXTENDS Naturals

CONSTANT N        \* how many philosophers, and forks

Ids == 1..N                 \* the ids that create() hands out
Forks == 0..(N-1)

VARIABLES locks,            \* locks[f]: the value of semaphore f
          pc
vars == <<locks, pc>>

lhs(id) == (N + id - 1) % N
rhs(id) == id % N

FirstLeft(id) == lhs(id)

\* the fork taken first: rhs if (id == N), lhs otherwise
First(id) == IF id = N THEN rhs(id) ELSE lhs(id)

\* the other one
Second(id) == IF First(id) = lhs(id) THEN rhs(id) ELSE lhs(id)

Init == /\ locks = [f \in Forks |-> 1]
        /\ pc = [id \in Ids |-> "P1"]

Goto(id, from, to) == pc[id] = from /\ pc' = [pc EXCEPT ![id] = to]

P(f) == locks[f] > 0 /\ locks' = [locks EXCEPT ![f] = @ - 1]
V(f) == locks' = [locks EXCEPT ![f] = @ + 1]

PFirst(id) == Goto(id, "P1", "P2") /\ P(First(id))

PUnchecked(id) == Goto(id, "P2", "V1") /\ UNCHANGED locks

PSecond(id) == Goto(id, "P2", "V1") /\ P(Second(id))

VFirst(id) == Goto(id, "V1", "V2") /\ V(First(id))

VSecond(id) == Goto(id, "V2", "P1") /\ V(Second(id))

Tphilosopher(id) == PFirst(id) \/ PSecond(id) \/ VFirst(id) \/ VSecond(id)

Next == \E id \in Ids : Tphilosopher(id)

Spec == Init /\ [][Next]_vars
-----------------------------------------------------------------------------
\* The forks are binary semaphores (philosopher.c:33): no fork is put down
\* that was not taken.
TypeOK == /\ locks \in [Forks -> {0, 1}]
          /\ pc \in [Ids -> {"P1", "P2", "V1", "V2"}]

\* Philosopher id has fork f in hand.
Holds(id, f) == \/ f = First(id) /\ pc[id] \in {"P2", "V1"}
                \/ f = Second(id) /\ pc[id] \in {"V1", "V2"}

\* No fork is in two hands (philosopher.c:12-15,21-24): neighbours never
\* eat at the same time.
OneHandPerFork == \A f \in Forks : \A a, b \in Ids :
                     Holds(a, f) /\ Holds(b, f) => a = b

CanGo(id) == \/ pc[id] = "P1" /\ locks[First(id)] > 0
             \/ pc[id] = "P2" /\ locks[Second(id)] > 0
             \/ pc[id] \in {"V1", "V2"}

\* The philosophers never wait for each other in a circle
\* (philosopher.c:10): one of them can always go on.
SomeoneCanGo == \E id \in Ids : CanGo(id)
=============================================================================
