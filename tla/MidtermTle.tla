----------------------------- MODULE MidtermTle ----------------------------
(***************************************************************************)
(* concurrency/midterm/midterm-tle.c: main starts a thread for every       *)
(* number in one of the NTHREAD slots of tpool, and waits for a free slot  *)
(* when there is none.  A thread frees its slot itself, under tpool_lk;    *)
(* main looks at the slots again without the lock when it joins.           *)
(*                                                                         *)
(* A slot and its thread are one: main takes tpool_lk to reuse a slot, and *)
(* a thread has nothing left to do when it gives the lock up.              *)
(***************************************************************************)
EXTENDS LockedSum

CONSTANT NTHREAD

Slots == 1..NTHREAD
Main == 0

VARIABLES arg, status,      \* the fields of tpool[i]
          tpool_lk,
          asleep,           \* main sleeps on tpool_cond
          pc,               \* pc[i]: of the thread in slot i
          mpc, x, index     \* of main
poolVars == <<arg, status, tpool_lk, asleep>>
mainVars == <<mpc, x, index>>
vars == <<input, sumVars, poolVars, pc, mainVars>>

Init == /\ SumInit(Slots)
        /\ arg = [i \in Slots |-> 0]
        /\ status = [i \in Slots |-> "T_FREE"]
        /\ tpool_lk = {}
        /\ asleep = FALSE
        /\ pc = [i \in Slots |-> "none"]
        /\ mpc = "read" /\ x = 0 /\ index = 1

Goto(i, from, to) == pc[i] = from /\ pc' = [pc EXCEPT ![i] = to]
MainGoto(from, to) == mpc = from /\ mpc' = to
-----------------------------------------------------------------------------
\* wrapper: f(thread->arg) is added to sum
AddToSum(i) == /\ \/ Goto(i, "sum_lock", "sum_load") /\ SumLock(i)
                  \/ Goto(i, "sum_load", "sum_store") /\ SumLoad(i)
                  \/ Goto(i, "sum_store", "lock") /\ SumStore(i, f(arg[i]))
               /\ UNCHANGED <<input, poolVars, mainVars>>

LockTpool(i) == /\ tpool_lk = {}
                /\ tpool_lk' = {i}
                /\ Goto(i, "lock", "free")
                /\ UNCHANGED <<input, sumVars, arg, status, asleep, mainVars>>

\* From here on join, which reads status without the lock, passes it by.
FreeSlot(i) == /\ Goto(i, "free", "broadcast")
               /\ status' = [status EXCEPT ![i] = "T_FREE"]
               /\ UNCHANGED <<input, sumVars, arg, tpool_lk, asleep, mainVars>>

\* cond_broadcast(&tpool_cond), under the lock, and the unlock
BroadcastUnlock(i) == /\ Goto(i, "broadcast", "none")
                      /\ asleep' = FALSE
                      /\ tpool_lk' = tpool_lk \ {i}
                      /\ UNCHANGED <<input, sumVars, arg, status, mainVars>>

wrapper(i) == AddToSum(i) \/ LockTpool(i) \/ FreeSlot(i) \/ BroadcastUnlock(i)
-----------------------------------------------------------------------------
\* while (!feof(stdin) && scanf("%d", &x) == 1)
Read == /\ \/ /\ input # << >>
              /\ MainGoto("read", "lock")
              /\ x' = Head(input)
              /\ input' = Tail(input)
           \/ /\ input = << >>
              /\ MainGoto("read", "join")
              /\ UNCHANGED <<x, input>>
        /\ index' = 1
        /\ UNCHANGED <<sumVars, poolVars, pc>>

LockCreate == /\ tpool_lk = {}
              /\ tpool_lk' = {Main}
              /\ MainGoto("lock", "while")
              /\ UNCHANGED <<input, sumVars, arg, status, asleep, pc, x, index>>

\* i is what free_index() returns
IsFreeIndex(i) == status[i] = "T_FREE" /\ \A j \in 1..i - 1 : status[j] # "T_FREE"

TakeSlot == /\ MainGoto("while", "pthread_create")
            /\ \E i \in Slots : /\ IsFreeIndex(i)
                                /\ index' = i
                                /\ arg' = [arg EXCEPT ![i] = x]
                                /\ status' = [status EXCEPT ![i] = "T_LIVE"]
            /\ tpool_lk' = {}
            /\ UNCHANGED <<input, sumVars, asleep, pc, x>>

CondWait == /\ \A i \in Slots : ~IsFreeIndex(i)
            /\ MainGoto("while", "wait")
            /\ tpool_lk' = {}
            /\ asleep' = TRUE
            /\ UNCHANGED <<input, sumVars, arg, status, pc, x, index>>

Spurious == /\ asleep
            /\ asleep' = FALSE
            /\ UNCHANGED <<input, sumVars, arg, status, tpool_lk, pc, mainVars>>

Return == /\ ~asleep
          /\ tpool_lk = {}
          /\ tpool_lk' = {Main}
          /\ MainGoto("wait", "while")
          /\ UNCHANGED <<input, sumVars, arg, status, asleep, pc, x, index>>

PthreadCreate == /\ MainGoto("pthread_create", "read")
                 /\ pc' = [pc EXCEPT ![index] = "sum_lock"]
                 /\ UNCHANGED <<input, sumVars, poolVars, x, index>>

create == LockCreate \/ TakeSlot \/ CondWait \/ Return \/ PthreadCreate
-----------------------------------------------------------------------------
\* join(): a slot that is not T_LIVE, as read without the lock, is passed by
PassBy == /\ index \in Slots
          /\ status[index] # "T_LIVE"
          /\ MainGoto("join", "join")
          /\ index' = index + 1
          /\ UNCHANGED <<input, sumVars, poolVars, pc, x>>

SeesLive == /\ index \in Slots
            /\ status[index] = "T_LIVE"
            /\ MainGoto("join", "pthread_join")
            /\ UNCHANGED <<input, sumVars, poolVars, pc, x, index>>

PthreadJoin == /\ MainGoto("pthread_join", "join")
               /\ pc[index] = "none"
               /\ status' = [status EXCEPT ![index] = "T_DEAD"]
               /\ index' = index + 1
               /\ UNCHANGED <<input, sumVars, arg, tpool_lk, asleep, pc, x>>

PrintSum == /\ index > NTHREAD
            /\ MainGoto("join", "printed")
            /\ UNCHANGED <<input, sumVars, poolVars, pc, x, index>>

join == PassBy \/ SeesLive \/ PthreadJoin \/ PrintSum
main == Read \/ create \/ join
Over == mpc = "printed" /\ UNCHANGED vars

Next == main \/ Spurious \/ (\E i \in Slots : wrapper(i)) \/ Over
Spec == Init /\ [][Next]_vars
-----------------------------------------------------------------------------

\* A slot is taken only when its last thread is through (midterm-tle.c:70-83):
\* main never starts a thread in a slot that still has one.
SlotsNotShared == mpc = "pthread_create" => pc[index] = "none"

\* join reads status without a lock and does not join a thread that has
\* freed its slot (midterm-tle.c:89); the sum that is printed is complete
\* all the same, because a thread adds to it before it frees its slot.
PrintsTotal == mpc = "printed" => sum = Total
=============================================================================
