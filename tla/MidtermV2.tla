----------------------------- MODULE MidtermV2 -----------------------------
(***************************************************************************)
(* concurrency/midterm/midterm-v2.c: every thread reads numbers from stdin *)
(* for itself and adds them to sum.  The lock around the read is commented *)
(* out: scanf locks the stream, and a number goes to one thread.           *)
(***************************************************************************)
EXTENDS LockedSum

CONSTANT Threads

VARIABLES x, pc, main
vars == <<input, sumVars, x, pc, main>>

Init == /\ SumInit(Threads)
        /\ x = [t \in Threads |-> 0]
        /\ pc = [t \in Threads |-> "read"]
        /\ main = "join"

Goto(t, from, to) == pc[t] = from /\ pc' = [pc EXCEPT ![t] = to]

Read(t) == /\ \/ /\ input # << >>
                 /\ Goto(t, "read", "sum_lock")
                 /\ x' = [x EXCEPT ![t] = Head(input)]
                 /\ input' = Tail(input)
              \/ /\ input = << >>
                 /\ Goto(t, "read", "done")
                 /\ UNCHANGED <<x, input>>
           /\ UNCHANGED <<sumVars, main>>

AddToSum(t) == /\ \/ Goto(t, "sum_lock", "sum_load") /\ SumLock(t)
                  \/ Goto(t, "sum_load", "sum_store") /\ SumLoad(t)
                  \/ Goto(t, "sum_store", "read") /\ SumStore(t, f(x[t]))
               /\ UNCHANGED <<input, x, main>>

handler(t) == Read(t) \/ AddToSum(t)

Join == /\ main = "join"
        /\ \A t \in Threads : pc[t] = "done"
        /\ main' = "printed"
        /\ UNCHANGED <<input, sumVars, x, pc>>
Over == main = "printed" /\ UNCHANGED vars

Next == (\E t \in Threads : handler(t)) \/ Join \/ Over
Spec == Init /\ [][Next]_vars
-----------------------------------------------------------------------------

\* No number is lost or counted twice between the unlocked scanf and
\* sum += res (midterm-v2.c:34-44).
NothingLost ==
  sum + Sum(input) + Sum([t \in Threads |-> IF pc[t] \in {"read", "done"} THEN 0 ELSE f(x[t])])
    = Total

\* What is printed is the sum of all of stdin: no thread that found its end
\* leaves while main could miss another's last number (midterm-v2.c:54-55).
PrintsTotal == main = "printed" => sum = Total
=============================================================================
