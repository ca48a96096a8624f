------------------------------ MODULE SemQueue -----------------------------
(***************************************************************************)
(* concurrency/model-checker/sem.py: a semaphore with a queue of waiting   *)
(* threads.  V hands its token to the first in the queue and leaves the    *)
(* count alone; a thread is through P when it is not in the queue.         *)
(***************************************************************************)
EXTENDS Naturals, Sequences, FiniteSets

CONSTANTS Threads,
          Tokens    \* the initial value of token

VARIABLES token,
          waits,    \* the queue, its head first
          pc
vars == <<token, waits, pc>>

Init == /\ token = Tokens
        /\ waits = << >>
        /\ pc = [t \in Threads |-> "P"]

Goto(t, from, to) == pc[t] = from /\ pc' = [pc EXCEPT ![t] = to]

\* '1' in self.waits
InWaits(t) == \E k \in 1..Len(waits) : waits[k] = t

\* self.P('1')
P(t) == /\ Goto(t, "P", "while")
        /\ \/ token > 0 /\ token' = token - 1 /\ UNCHANGED waits
           \/ token = 0 /\ waits' = Append(waits, t) /\ UNCHANGED token

\* while '1' in self.waits: pass
LeaveWhile(t) == ~InWaits(t) /\ Goto(t, "while", "cs") /\ UNCHANGED <<token, waits>>

EnterCs(t) == Goto(t, "cs", "del") /\ UNCHANGED <<token, waits>>
LeaveCs(t) == Goto(t, "del", "V") /\ UNCHANGED <<token, waits>>

VBoth(t) == /\ Goto(t, "V", "done")
            /\ waits' = IF waits = << >> THEN waits ELSE Tail(waits)
            /\ token' = token + 1

\* self.V()
V(t) == /\ Goto(t, "V", "done")
        /\ \/ waits # << >> /\ waits' = Tail(waits) /\ UNCHANGED token
           \/ waits = << >> /\ token' = token + 1 /\ UNCHANGED waits

Run(t) == P(t) \/ LeaveWhile(t) \/ EnterCs(t) \/ LeaveCs(t) \/ V(t)

Next == \E t \in Threads : Run(t)
Spec == Init /\ [][Next]_vars
-----------------------------------------------------------------------------
\* the threads that a token was given to and that have not noticed yet
Through == {t \in Threads : pc[t] = "while" /\ ~InWaits(t)}
Holders == {t \in Threads : pc[t] \in {"cs", "del", "V"}}
=============================================================================
