---------------------------- MODULE MemOrdering ----------------------------
(***************************************************************************)
(* concurrency/mem-ordering.c: the store-buffer litmus test.  Tsync opens  *)
(* a round by raising both bits of flag; T1 stores x and reads y, T2       *)
(* stores y and reads x, and each drops its bit; Tsync waits for both and  *)
(* clears x and y for the next round.  flag is a set of bits.              *)
(***************************************************************************)
EXTENDS TSO

Writers == {"T1", "T2"}
Runners == Writers \union {"Tsync"}
Vars == {"x", "y"}

bit(t) == IF t = "T1" THEN 1 ELSE 2
own(t) == IF t = "T1" THEN "x" ELSE "y"
other(t) == IF t = "T1" THEN "y" ELSE "x"

\* atomic_fetch_xor
Xor(bits, mask) == (bits \ mask) \union (mask \ bits)

VARIABLES flag,     \* the bits set in the atomic_int flag
          seen,     \* seen[t]: y_val of T1, x_val of T2
          pc
vars == <<mem, buf, flag, seen, pc>>

Init == /\ mem = [v \in Vars |-> 0]
        /\ buf = [t \in Runners |-> << >>]
        /\ flag = {}
        /\ seen = [t \in Writers |-> 0]
        /\ pc = [t \in Runners |-> IF t = "Tsync" THEN "y=0" ELSE "wait"]

Goto(t, from, to) == pc[t] = from /\ pc' = [pc EXCEPT ![t] = to]
Flush(t) == DrainOne(t) /\ UNCHANGED <<flag, seen, pc>>

WaitFor(t) == /\ bit(t) \in flag
              /\ Goto(t, "wait", "write")
              /\ UNCHANGED <<mem, buf, flag, seen>>
Write(t) == /\ Goto(t, "write", "read")
            /\ Store(t, own(t), 1)
            /\ UNCHANGED <<flag, seen>>
Read(t) == /\ Goto(t, "read", "xor")
           /\ seen' = [seen EXCEPT ![t] = Load(t, other(t))]
           /\ UNCHANGED <<mem, buf, flag>>
\* FLAG_XOR, a locked instruction
FlagXor(t) == /\ Drained(t)
              /\ Goto(t, "xor", "wait")
              /\ flag' = Xor(flag, {bit(t)})
              /\ UNCHANGED <<mem, buf, seen>>

\* x = y = 0; the two plain stores reach memory before the barrier that follows
ClearY == /\ Goto("Tsync", "y=0", "x=0")
          /\ Store("Tsync", "y", 0)
          /\ UNCHANGED <<flag, seen>>
ClearX == /\ Goto("Tsync", "x=0", "barrier")
          /\ Store("Tsync", "x", 0)
          /\ UNCHANGED <<flag, seen>>
\* __sync_synchronize(); usleep(1)
Synchronize == /\ Drained("Tsync")
               /\ Goto("Tsync", "barrier", "assert")
               /\ UNCHANGED <<mem, buf, flag, seen>>
Assert == /\ Goto("Tsync", "assert", IF flag = {} THEN "xor" ELSE "abort")
          /\ UNCHANGED <<mem, buf, flag, seen>>
OpenRound == /\ Goto("Tsync", "xor", "wait")
             /\ flag' = Xor(flag, {1, 2})
             /\ UNCHANGED <<mem, buf, seen>>
RoundOver == /\ flag = {}
             /\ Goto("Tsync", "wait", "y=0")
             /\ UNCHANGED <<mem, buf, flag, seen>>

Writer(t) == WaitFor(t) \/ Write(t) \/ Read(t) \/ FlagXor(t)
Tsync == ClearY \/ ClearX \/ Synchronize \/ Assert \/ OpenRound \/ RoundOver

Next == \/ \E t \in Writers : Writer(t)
        \/ Tsync
        \/ \E t \in Runners : Flush(t)

Spec == Init /\ [][Next]_vars
-----------------------------------------------------------------------------

\* assert(FLAG == 0) of Tsync never fails (mem-ordering.c:53).
AssertHolds == pc["Tsync"] # "abort"

\* Every round starts clean: when Tsync raises the flag (mem-ordering.c:54),
\* x and y are 0 in memory and no store of the last round can still arrive,
\* so a 1 that is printed was stored in the same round.
RoundsAreClean == pc["Tsync"] = "xor" => /\ mem = [v \in Vars |-> 0]
                                         /\ \A t \in Runners : Drained(t)
=============================================================================
