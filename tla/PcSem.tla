------------------------------- MODULE PcSem -------------------------------
(***************************************************************************)
(* concurrency/pc-sem.c: producers and consumers over two semaphores.  The *)
(* printf between P and V is not protected by any lock.  A semaphore is    *)
(* its value: P waits until it is positive.                                *)
(***************************************************************************)
EXTENDS PcCommon

VARIABLES empty, fill
vars == <<empty, fill, depth, pc>>

Init == /\ empty = n
        /\ fill = 0
        /\ depth = 0
        /\ pc = [t \in Threads |-> "P"]

\* producer: P(&empty)
PEmpty(p) == /\ empty > 0
             /\ Goto(p, "P", "printf")
             /\ empty' = empty - 1
             /\ UNCHANGED <<fill, depth>>

\* producer: printf("(")
PrintOpen(p) == /\ Goto(p, "printf", "V")
                /\ depth' = depth + 1
                /\ UNCHANGED <<empty, fill>>

\* producer: V(&fill)
VFill(p) == /\ Goto(p, "V", "P")
            /\ fill' = fill + 1
            /\ UNCHANGED <<empty, depth>>

\* consumer: P(&fill)
PFill(c) == /\ fill > 0
            /\ Goto(c, "P", "printf")
            /\ fill' = fill - 1
            /\ UNCHANGED <<empty, depth>>

\* consumer: printf(")")
PrintClose(c) == /\ Goto(c, "printf", "V")
                 /\ depth' = depth - 1
                 /\ UNCHANGED <<empty, fill>>

VNothing(c) == /\ Goto(c, "V", "P")
               /\ UNCHANGED <<empty, fill, depth>>

\* consumer: V(&empty)
VEmpty(c) == /\ Goto(c, "V", "P")
             /\ empty' = empty + 1
             /\ UNCHANGED <<fill, depth>>

producer(p) == PEmpty(p) \/ PrintOpen(p) \/ VFill(p)
consumer(c) == PFill(c) \/ PrintClose(c) \/ VEmpty(c)

Next == (\E p \in Producers : producer(p)) \/ (\E c \in Consumers : consumer(c))

Spec == Init /\ [][Next]_vars

-----------------------------------------------------------------------------
At(S, loc) == {t \in S : pc[t] = loc}

\* Neither semaphore ever exceeds the number of places (pc-sem.c:25-26).
TypeOK == /\ empty \in 0..n
          /\ fill \in 0..n
          /\ depth \in Int
          /\ pc \in [Threads -> {"P", "printf", "V"}]

\* Every place is accounted for between P and V (pc-sem.c:8-10,16-18): it is
\* in a semaphore or with exactly one thread that took it and has not passed
\* it on.
PlacesConserved == empty + fill + Cardinality({t \in Threads : pc[t] # "P"}) = n

\* The threads do not all block on the two semaphores (pc-sem.c:8,16).
SomeoneCanGo == \/ \E t \in Threads : pc[t] # "P"
                \/ empty > 0
                \/ fill > 0

\* Both kinds of parentheses are printed for ever.
Progress == /\ []<>(\E p \in Producers : pc[p] = "V")
            /\ []<>(\E c \in Consumers : pc[c] = "V")
=============================================================================
