----------------------------- MODULE LockedSum -----------------------------
(***************************************************************************)
(* What the three midterm programs share: the global sum, to which every   *)
(* worker adds f of the item it has under sum_lk (midterm-v1.c:86-90,      *)
(* midterm-tle.c:52-56, midterm-v2.c:41-44), and the numbers on stdin.     *)
(* A mutex is the set of the threads that hold it.                         *)
(***************************************************************************)
EXTENDS Integers, Sequences, FiniteSets

CONSTANT Input      \* the numbers on stdin

VARIABLES input,    \* what is left of stdin
          sum, sum_lk,
          reg       \* reg[t]: what thread t has loaded from sum
sumVars == <<sum, sum_lk, reg>>

\* foo.c
f(x) == x

\* The sum of the natural numbers s[i], counted in units
Units(s) == UNION {{i} \X (1..s[i]) : i \in DOMAIN s}
Sum(s) == Cardinality(Units(s))
Total == Sum([i \in DOMAIN Input |-> f(Input[i])])

SumInit(T) == /\ input = Input
              /\ sum = 0
              /\ sum_lk = {}
              /\ reg = [t \in T |-> 0]

\* mutex_lock(&sum_lk)
SumLock(t) == sum_lk = {} /\ sum_lk' = {t} /\ UNCHANGED <<sum, reg>>

\* The load of sum += res
SumLoad(t) == reg' = [reg EXCEPT ![t] = sum] /\ UNCHANGED <<sum, sum_lk>>

\* The store of sum += res, and mutex_unlock(&sum_lk)
SumStore(t, res) == /\ sum' = reg[t] + res
                    /\ sum_lk' = sum_lk \ {t}
                    /\ UNCHANGED reg

=============================================================================
