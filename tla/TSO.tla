-------------------------------- MODULE TSO --------------------------------
(***************************************************************************)
(* The x86 memory that the programs on memory order run on.  A store goes  *)
(* to the storing thread's own FIFO buffer and from there to memory at any *)
(* later time; a load sees the thread's own latest buffered store to that  *)
(* address, or else memory; mfence and the locked instructions wait until  *)
(* the buffer is empty.                                                    *)
(***************************************************************************)
EXTENDS Naturals, Sequences

VARIABLES mem,      \* mem[v]: the value of v in memory
          buf       \* buf[t]: the stores of t that have not reached memory

Store(t, v, value) == /\ buf' = [buf EXCEPT ![t] = Append(@, <<v, value>>)]
                      /\ mem' = mem

Load(t, v) == LET pending == {i \in DOMAIN buf[t] : buf[t][i][1] = v}
                  latest == CHOOSE i \in pending : \A j \in pending : j <= i
              IN  IF pending = {} THEN mem[v] ELSE buf[t][latest][2]

Drained(t) == buf[t] = << >>

DrainOne(t) == /\ ~Drained(t)
               /\ mem' = [mem EXCEPT ![Head(buf[t])[1]] = Head(buf[t])[2]]
               /\ buf' = [buf EXCEPT ![t] = Tail(@)]
=============================================================================
