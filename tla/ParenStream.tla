---------------------------- MODULE ParenStream ----------------------------
(***************************************************************************)
(* What concurrency/pc-check.py accepts: a stream of parentheses whose     *)
(* running balance stays within 0..limit.  The three producer-consumer     *)
(* programs (pc.c, pc-cv.c, pc-sem.c) are shown to implement it.           *)
(***************************************************************************)
EXTENDS Naturals

CONSTANT limit     \* the command line argument of pc-check.py

VARIABLE count     \* '(' read so far minus ')' read so far

Init == count = 0

\* if ch == '(': count += 1, and the assertion that follows
Open == count < limit /\ count' = count + 1

\* if ch == ')': count -= 1, and the assertion that follows
Close == 0 < count /\ count' = count - 1

Next == Open \/ Close

Spec == Init /\ [][Next]_count
=============================================================================
