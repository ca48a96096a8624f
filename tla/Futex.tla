------------------------------- MODULE Futex -------------------------------
(***************************************************************************)
(* concurrency/model-checker/futex.py: a lock whose fast path is a compare *)
(* and exchange in user space and whose slow path is a queue in the        *)
(* kernel.  The failed exchange and the entry into the queue are two       *)
(* steps, and the lock may be released between them.                       *)
(***************************************************************************)
EXTENDS Naturals, Sequences

CONSTANT Threads
ASSUME ThreadsAssumption == Threads # {}

VARIABLES locked,   \* whether the lock word is set
          waits,    \* the queue, its head first
          pc
vars == <<locked, waits, pc>>

Init == /\ locked = FALSE
        /\ waits = << >>
        /\ pc = [t \in Threads |-> "try"]

\* One statement of a thread is one step, as the model checker takes it.
Goto(t, from, to) == pc[t] = from /\ pc' = [pc EXCEPT ![t] = to]

\* '1' in self.waits
InWaits(t) == \E k \in 1..Len(waits) : waits[k] = t

\* if self.tryacquire() == locked
TryAcquire(t) == /\ \/ ~locked /\ Goto(t, "try", "cs")
                    \/ locked /\ Goto(t, "try", "wait")
                 /\ locked' = TRUE
                 /\ UNCHANGED waits

\* self.waits = self.waits + '1'
Wait(t) == /\ Goto(t, "wait", "while")
           /\ waits' = Append(waits, t)
           /\ UNCHANGED locked

\* while '1' in self.waits: pass
Woken(t) == /\ ~InWaits(t)
            /\ Goto(t, "while", "cs")
            /\ UNCHANGED <<locked, waits>>

EnterCs(t) == Goto(t, "cs", "del") /\ UNCHANGED <<locked, waits>>
LeaveCs(t) == Goto(t, "del", "release") /\ UNCHANGED <<locked, waits>>

ReleaseBoth(t) == /\ Goto(t, "release", "try")
                  /\ waits' = IF waits = << >> THEN waits ELSE Tail(waits)
                  /\ locked' = FALSE
KeepWaits(t) == /\ Goto(t, "release", "try")
                /\ locked' = FALSE
                /\ UNCHANGED waits
KeepLocked(t) == /\ Goto(t, "release", "try")
                 /\ waits' = IF waits = << >> THEN waits ELSE Tail(waits)
                 /\ UNCHANGED locked

\* release(): the lock is handed to the first in the queue, or let go
Release(t) == /\ Goto(t, "release", "try")
              /\ \/ waits # << >> /\ waits' = Tail(waits) /\ UNCHANGED locked
                 \/ waits = << >> /\ locked' = FALSE /\ UNCHANGED waits

Run(t) == TryAcquire(t) \/ Wait(t) \/ Woken(t) \/ EnterCs(t) \/ LeaveCs(t) \/ Release(t)

Next == \E t \in Threads : Run(t)
Spec == Init /\ [][Next]_vars
-----------------------------------------------------------------------------
Locs == {"try", "wait", "while", "cs", "del", "release"}

\* A thread is in the kernel's queue at most once.
TypeOK == /\ locked \in BOOLEAN
          /\ waits \in Seq(Threads)
          /\ \A j, k \in 1..Len(waits) : waits[j] = waits[k] => j = k
          /\ pc \in [Threads -> Locs]

\* No two threads have the local cs at a time: the state that mark_both
\* (futex.py:64-71) would paint red is not reached.
MutualExclusion == \A s, t \in Threads : pc[s] = "del" /\ pc[t] = "del" => s = t

\* There is always a thread that is not in the queue and not on its way into
\* it, although a thread may queue up after the lock was let go
\* (futex.py:22-25): whoever let it go comes back and takes it again.
SomeoneCanGo == \E t \in Threads : ~InWaits(t) /\ pc[t] # "wait"
=============================================================================
