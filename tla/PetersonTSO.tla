---------------------------- MODULE PetersonTSO ----------------------------
(***************************************************************************)
(* concurrency/peterson-simple.c and peterson-barrier.c: Peterson's        *)
(* algorithm on an x86 memory.  The programs are the same but for the      *)
(* barriers: Barriers is the set of statements that are followed by one,   *)
(* {} in peterson-simple.c and all of them in peterson-barrier.c.          *)
(*                                                                         *)
(* x, y and turn are volatile, so the compiler keeps the order of their    *)
(* accesses; module TSO says what the processor makes of it.               *)
(***************************************************************************)
EXTENDS TSO

CONSTANT Barriers       \* some of "flag", "turn", "test" and "clear"

A == 1
B == 2
Runners == {"TA", "TB"}
Vars == {"x", "y", "turn"}

VARIABLES nested,   \* the atomic_int nested
          pc
vars == <<mem, buf, nested, pc>>

own(t) == IF t = "TA" THEN "x" ELSE "y"
other(t) == IF t = "TA" THEN "y" ELSE "x"
rival(t) == IF t = "TA" THEN B ELSE A      \* the value that gives way

\* peterson-simple.c starts with turn = A, peterson-barrier.c with turn = 0.
Init == /\ mem = [v \in Vars |-> IF v = "turn" /\ Barriers = {} THEN A ELSE 0]
        /\ buf = [t \in Runners |-> << >>]
        /\ nested = 0
        /\ pc = [t \in Runners |-> "flag"]

Goto(t, from, to) == pc[t] = from /\ pc' = [pc EXCEPT ![t] = to]

\* The BARRIER after statement stmt, as a condition on what follows it
Barrier(t, stmt) == stmt \in Barriers => Drained(t)

Flush(t) == DrainOne(t) /\ UNCHANGED <<nested, pc>>

\* x = 1 (y = 1), after the barrier of x = 0
SetFlag(t) == /\ Barrier(t, "clear")
              /\ Goto(t, "flag", "turn")
              /\ Store(t, own(t), 1)
              /\ UNCHANGED nested

\* turn = B (turn = A)
SetTurn(t) == /\ Barrier(t, "flag")
              /\ Goto(t, "turn", "test_flag")
              /\ Store(t, "turn", rival(t))
              /\ UNCHANGED nested

NoBarrierAfterTurn(t) == /\ Goto(t, "test_flag",
                                 IF Load(t, other(t)) = 0 THEN "nested++" ELSE "test_turn")
                         /\ UNCHANGED <<mem, buf, nested>>

\* if (!y) break;  the first test follows turn = B, the others a test
TestFlag(t) == /\ Barrier(t, "turn") /\ Barrier(t, "test")
               /\ Goto(t, "test_flag", IF Load(t, other(t)) = 0 THEN "nested++" ELSE "test_turn")
               /\ UNCHANGED <<mem, buf, nested>>

\* if (turn != B) break;
TestTurn(t) == /\ Barrier(t, "test")
               /\ Goto(t, "test_turn",
                       IF Load(t, "turn") # rival(t) THEN "nested++" ELSE "test_flag")
               /\ UNCHANGED <<mem, buf, nested>>

\* atomic_fetch_add(&nested, 1) with its assertion; the fetch_add on count
\* before it drains the buffer as well and changes nothing that is read
Enter(t) == /\ Drained(t)
            /\ Goto(t, "nested++", IF nested = 0 THEN "nested--" ELSE "abort")
            /\ nested' = nested + 1
            /\ UNCHANGED <<mem, buf>>

\* atomic_fetch_add(&nested, -1)
Leave(t) == /\ Drained(t)
            /\ Goto(t, "nested--", "clear")
            /\ nested' = nested - 1
            /\ UNCHANGED <<mem, buf>>

\* x = 0 (y = 0)
ClearFlag(t) == /\ Goto(t, "clear", "flag")
                /\ Store(t, own(t), 0)
                /\ UNCHANGED nested

Run(t) == \/ SetFlag(t) \/ SetTurn(t) \/ TestFlag(t) \/ TestTurn(t)
          \/ Enter(t) \/ Leave(t) \/ ClearFlag(t)

Next == \E t \in Runners : Run(t) \/ Flush(t)

Spec == Init /\ [][Next]_vars
-----------------------------------------------------------------------------

\* The assertion in critical_section never fails (peterson-simple.c:11,
\* peterson-barrier.c:16): the critical section is never entered twice.
AssertHolds == \A t \in Runners : pc[t] # "abort"
=============================================================================
