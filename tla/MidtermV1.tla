----------------------------- MODULE MidtermV1 -----------------------------
(***************************************************************************)
(* concurrency/midterm/midterm-v1.c: producers read numbers from stdin and *)
(* push them on a shared stack, consumers pop them and add them to sum.    *)
(* A producer that finds stdin at its end and the stack empty declares the *)
(* end of the file and stops; consumers stop when they see that and an     *)
(* empty stack.                                                            *)
(*                                                                         *)
(* The number is read before buffer_lk is taken, so a producer can hold an *)
(* item that is neither on stdin nor on the stack while another declares   *)
(* the end.                                                                *)
(***************************************************************************)
EXTENDS LockedSum

CONSTANTS Producers, Consumers

VARIABLES buffer,       \* the stack, its top first
          is_eof,
          buffer_lk,    \* the threads that hold the mutex
          buffer_cv,    \* the threads asleep on the condition variable
          x,            \* x[t]: the local x of thread t
          pc,
          main
vars == <<input, sumVars, buffer, is_eof, buffer_lk, buffer_cv, x, pc, main>>

Runners == Producers \union Consumers

Init == /\ SumInit(Consumers)
        /\ buffer = << >>
        /\ is_eof = FALSE
        /\ buffer_lk = {}
        /\ buffer_cv = {}
        /\ x = [t \in Runners |-> 0]
        /\ pc = [t \in Runners |-> IF t \in Producers THEN "read" ELSE "lock"]
        /\ main = "join"

Goto(t, from, to) == pc[t] = from /\ pc' = [pc EXCEPT ![t] = to]
Free == buffer_lk = {}
Take(t) == Free /\ buffer_lk' = {t}
Release(t) == buffer_lk' = buffer_lk \ {t}
-----------------------------------------------------------------------------
\* bool flag = (!feof(stdin) && scanf("%d", &x) == 1), flag kept in pc
Read(p) == /\ \/ /\ input # << >>
                 /\ Goto(p, "read", "lock_item")
                 /\ x' = [x EXCEPT ![p] = Head(input)]
                 /\ input' = Tail(input)
              \/ /\ input = << >>
                 /\ Goto(p, "read", "lock_eof")
                 /\ UNCHANGED <<x, input>>
           /\ UNCHANGED <<sumVars, buffer, is_eof, buffer_lk, buffer_cv, main>>

LockProducer(p) == /\ Take(p)
                   /\ Goto(p, "lock_item", "push") \/ Goto(p, "lock_eof", "eof")
                   /\ UNCHANGED <<input, sumVars, buffer, is_eof, buffer_cv, x, main>>

\* !flag: the end of the file is declared only on an empty stack
DeclareEof(p) == /\ buffer = << >>
                 /\ Goto(p, "eof", "last_broadcast")
                 /\ is_eof' = TRUE
                 /\ Release(p)
                 /\ UNCHANGED <<input, sumVars, buffer, buffer_cv, x, main>>

TryAgain(p) == /\ buffer # << >>
               /\ Goto(p, "eof", "broadcast")
               /\ Release(p)
               /\ UNCHANGED <<input, sumVars, buffer, is_eof, buffer_cv, x, main>>

Push(p) == /\ Goto(p, "push", "broadcast")
           /\ buffer' = <<x[p]>> \o buffer
           /\ Release(p)
           /\ UNCHANGED <<input, sumVars, is_eof, buffer_cv, x, main>>

NoLastBroadcast(p) == /\ \/ Goto(p, "broadcast", "read") /\ buffer_cv' = {}
                         \/ Goto(p, "last_broadcast", "done") /\ UNCHANGED buffer_cv
                      /\ UNCHANGED <<input, sumVars, buffer, is_eof, buffer_lk, x, main>>

\* cond_broadcast(&buffer_cv), after the unlock
Broadcast(p) == /\ Goto(p, "broadcast", "read") \/ Goto(p, "last_broadcast", "done")
                /\ buffer_cv' = {}
                /\ UNCHANGED <<input, sumVars, buffer, is_eof, buffer_lk, x, main>>

producer(p) == \/ Read(p) \/ LockProducer(p) \/ DeclareEof(p)
               \/ TryAgain(p) \/ Push(p) \/ Broadcast(p)
-----------------------------------------------------------------------------
LockConsumer(c) == /\ Take(c)
                   /\ Goto(c, "lock", "while")
                   /\ UNCHANGED <<input, sumVars, buffer, is_eof, buffer_cv, x, main>>

CondWait(c) == /\ buffer = << >> /\ ~is_eof
               /\ Goto(c, "while", "wait")
               /\ Release(c)
               /\ buffer_cv' = buffer_cv \union {c}
               /\ UNCHANGED <<input, sumVars, buffer, is_eof, x, main>>

Spurious(c) == /\ c \in buffer_cv
               /\ buffer_cv' = buffer_cv \ {c}
               /\ UNCHANGED <<input, sumVars, buffer, is_eof, buffer_lk, x, pc, main>>

\* cond_wait returns with the mutex and the condition is tested again
Return(c) == /\ c \notin buffer_cv
             /\ Take(c)
             /\ Goto(c, "wait", "while")
             /\ UNCHANGED <<input, sumVars, buffer, is_eof, buffer_cv, x, main>>

\* if (is_eof && buffer == NULL) break;
Break(c) == /\ is_eof /\ buffer = << >>
            /\ Goto(c, "while", "done")
            /\ Release(c)
            /\ UNCHANGED <<input, sumVars, buffer, is_eof, buffer_cv, x, main>>

PopKeepsTop(c) == /\ buffer # << >>
                  /\ Goto(c, "while", "sum_lock")
                  /\ x' = [x EXCEPT ![c] = Head(buffer)]
                  /\ Release(c)
                  /\ UNCHANGED <<input, sumVars, buffer, is_eof, buffer_cv, main>>

Pop(c) == /\ buffer # << >>
          /\ Goto(c, "while", "sum_lock")
          /\ x' = [x EXCEPT ![c] = Head(buffer)]
          /\ buffer' = Tail(buffer)
          /\ Release(c)
          /\ UNCHANGED <<input, sumVars, is_eof, buffer_cv, main>>

AddToSum(c) == /\ \/ Goto(c, "sum_lock", "sum_load") /\ SumLock(c)
                  \/ Goto(c, "sum_load", "sum_store") /\ SumLoad(c)
                  \/ Goto(c, "sum_store", "lock") /\ SumStore(c, f(x[c]))
               /\ UNCHANGED <<input, buffer, is_eof, buffer_lk, buffer_cv, x, main>>

consumer(c) == LockConsumer(c) \/ CondWait(c) \/ Return(c) \/ Break(c) \/ Pop(c) \/ AddToSum(c)
-----------------------------------------------------------------------------
\* join(), printf
Join == /\ main = "join"
        /\ \A t \in Runners : pc[t] = "done"
        /\ main' = "printed"
        /\ UNCHANGED <<input, sumVars, buffer, is_eof, buffer_lk, buffer_cv, x, pc>>
Over == main = "printed" /\ UNCHANGED vars

Next == \/ \E p \in Producers : producer(p)
        \/ \E c \in Consumers : consumer(c) \/ Spurious(c)
        \/ Join \/ Over

Spec == Init /\ [][Next]_vars
-----------------------------------------------------------------------------

\* What is still to be added: on stdin, in a producer's x that is not pushed
\* yet, on the stack, in a consumer's x that is not added yet.
Held(t) == IF pc[t] \in {"lock_item", "push", "sum_lock", "sum_load", "sum_store"}
           THEN f(x[t]) ELSE 0
Outstanding == Sum(input) + Sum(buffer) + Sum([t \in Runners |-> Held(t)])

\* No number is lost or added twice, from scanf through push and pop to
\* sum += res (midterm-v1.c:83-90, 99-115).
NothingLost == sum + Outstanding = Total

\* If the program prints, it prints the sum of all of stdin
\* (midterm-v1.c:130-131), although the end of the file may be declared while
\* another producer still has a number to push.
PrintsTotal == main = "printed" => sum = Total

\* The consumers have left, and there is a number that nobody will pop: its
\* producer read it before the end was declared and pushed it after.
PushedTooLate == /\ \A c \in Consumers : pc[c] = "done"
                 /\ buffer # << >>
=============================================================================
