------------------------------ MODULE PcCommon ------------------------------
(***************************************************************************)
(* What the three producer-consumer programs share: threads that print '(' *)
(* and threads that print ')', n of the former at most open at a time.     *)
(***************************************************************************)
EXTENDS Integers, FiniteSets

CONSTANTS Producers, Consumers,
          n           \* the command line argument: how many '(' may be open
ASSUME ThreadsAssumption == /\ IsFiniteSet(Producers) /\ Producers # {}
                            /\ IsFiniteSet(Consumers) /\ Consumers # {}
                            /\ Producers \cap Consumers = {}
ASSUME NAssumption == n \in Nat \ {0}

VARIABLES depth,      \* the balance of the parentheses written to stdout
          pc          \* pc[t]: where thread t is

Threads == Producers \cup Consumers

Goto(t, from, to) == pc[t] = from /\ pc' = [pc EXCEPT ![t] = to]

\* +1 for a producer, -1 for a consumer
Step(t) == IF t \in Producers THEN 1 ELSE -1

\* The output passes pc-check.py (pc-check.py:9), whatever is printed between
\* and outside the critical sections of pc.c, pc-cv.c and pc-sem.c.
Stream == INSTANCE ParenStream WITH limit <- n, count <- depth
PassesPcCheck == Stream!Spec
=============================================================================
