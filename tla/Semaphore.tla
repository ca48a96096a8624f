----------------------------- MODULE Semaphore -----------------------------
(***************************************************************************)
(* What a counting semaphore promises: P passes when the count is positive *)
(* and takes one, V adds one.  holders are the threads between their P and *)
(* their V.                                                                *)
(***************************************************************************)
EXTENDS Naturals

CONSTANTS Threads, Tokens
VARIABLES count, holders

Init == count = Tokens /\ holders = {}

P(t) == /\ count > 0 /\ t \notin holders
        /\ count' = count - 1
        /\ holders' = holders \union {t}

V(t) == /\ t \in holders
        /\ count' = count + 1
        /\ holders' = holders \ {t}

Next == \E t \in Threads : P(t) \/ V(t)
Spec == Init /\ [][Next]_<<count, holders>>
=============================================================================
