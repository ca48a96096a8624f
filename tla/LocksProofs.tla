---------------------------- MODULE LocksProofs ----------------------------
(***************************************************************************)
(* Proofs about MCLocks: futex.py and sem.py for every finite set of       *)
(* threads, and the locks that are taken in an order for every set of      *)
(* processes, files and arguments.                                         *)
(*                                                                         *)
(* In futex.py a thread owns the lock from a successful tryacquire, or     *)
(* from the moment release takes it out of the queue, until its own        *)
(* release: the lock word is set exactly when there is an owner, and there *)
(* is never a second one.  In sem.py a token that V hands over is with the *)
(* thread that is no longer in the queue, also before it has noticed.      *)
(***************************************************************************)
EXTENDS MCLocks, FiniteSetTheorems, WellFoundedInduction, TLAPS

Among(t, q) == \E k \in 1..Len(q) : q[k] = t
Distinct(q) == \A j, k \in 1..Len(q) : q[j] = q[k] => j = k

\* What Append does to a queue of threads.
LEMMA AppendQueue == ASSUME NEW q \in Seq(Threads), Distinct(q),
                            NEW t \in Threads, ~Among(t, q)
                     PROVE  /\ Append(q, t) \in Seq(Threads) /\ Distinct(Append(q, t))
                            /\ \A s : Among(s, Append(q, t)) <=> Among(s, q) \/ s = t
<1> DEFINE r == Append(q, t)
<1>1. Len(q) \in Nat
  OBVIOUS
<1>2. /\ r \in Seq(Threads)
      /\ Len(r) = Len(q) + 1
      /\ \A k \in 1..Len(q) : r[k] = q[k]
      /\ r[Len(q) + 1] = t
  OBVIOUS
<1> HIDE DEF r
<1>3. \A k \in 1..Len(r) : k \in 1..Len(q) \/ k = Len(q) + 1
  BY <1>1, <1>2
<1>4. \A k \in 1..Len(q) : q[k] # t
  BY DEF Among
<1>5. \A s : Among(s, r) <=> Among(s, q) \/ s = t
  BY <1>1, <1>2, <1>3 DEF Among
<1>6. Distinct(r)
  BY <1>2, <1>3, <1>4 DEF Distinct
<1> QED  BY <1>2, <1>5, <1>6 DEF r

\* What Tail does to a queue of threads.
LEMMA TailQueue == ASSUME NEW q \in Seq(Threads), Distinct(q), q # << >>
                   PROVE  /\ Tail(q) \in Seq(Threads) /\ Distinct(Tail(q))
                          /\ q[1] \in Threads /\ Among(q[1], q)
                          /\ \A s : Among(s, Tail(q)) <=> Among(s, q) /\ s # q[1]
<1> DEFINE r == Tail(q)
<1>1. Len(q) \in Nat /\ Len(q) > 0
  OBVIOUS
<1>2. /\ r \in Seq(Threads)
      /\ Len(r) = Len(q) - 1
      /\ \A k \in 1..Len(r) : r[k] = q[k + 1]
  BY <1>1
<1> HIDE DEF r
<1>3. \A k \in 1..Len(r) : k + 1 \in 1..Len(q) /\ k + 1 # 1
  BY <1>1, <1>2
<1>4. 1 \in 1..Len(q) /\ q[1] \in Threads /\ Among(q[1], q)
  BY <1>1 DEF Among
<1>5. Distinct(r)
  <2> SUFFICES ASSUME NEW j \in 1..Len(r), NEW k \in 1..Len(r), r[j] = r[k] PROVE j = k
    BY DEF Distinct
  <2>1. j + 1 = k + 1
    BY <1>2, <1>3 DEF Distinct
  <2> QED  BY <1>1, <1>2, <2>1
<1>6. ASSUME NEW s PROVE Among(s, r) <=> Among(s, q) /\ s # q[1]
  <2>1. ASSUME Among(s, r) PROVE Among(s, q) /\ s # q[1]
    <3>1. PICK k \in 1..Len(r) : r[k] = s
      BY <2>1 DEF Among
    <3>2. k + 1 \in 1..Len(q) /\ k + 1 # 1 /\ q[k + 1] = s
      BY <1>2, <1>3, <3>1
    <3> QED  BY <1>4, <3>2 DEF Among, Distinct
  <2>2. ASSUME Among(s, q), s # q[1] PROVE Among(s, r)
    <3>1. PICK k \in 1..Len(q) : q[k] = s
      BY <2>2 DEF Among
    <3>2. k - 1 \in 1..Len(r) /\ (k - 1) + 1 = k
      BY <1>1, <1>2, <2>2, <3>1
    <3> QED  BY <1>2, <3>1, <3>2, Zenon DEF Among
  <2> QED  BY <2>1, <2>2
<1> QED  BY <1>2, <1>4, <1>5, <1>6 DEF r
-----------------------------------------------------------------------------
(* futex.py *)

Owns(t) == pc[t] \in {"cs", "del", "release"} \/ (pc[t] = "while" /\ ~InWaits(t))

QueueInv == \A t \in Threads : InWaits(t) => pc[t] = "while"

OwnerInv == /\ \A s, t \in Threads : Owns(s) /\ Owns(t) => s = t
            /\ locked <=> \E t \in Threads : Owns(t)

\* When the lock is let go, the thread that did it is about to try again.
TryInv == locked \/ \E t \in Threads : pc[t] = "try"

\* The inductive invariant.
IInv == TypeOK /\ QueueInv /\ OwnerInv /\ TryInv

\* The queue of a well-typed state, for the lemmas about queues.
LEMMA WaitsQueue == ASSUME TypeOK
                    PROVE  /\ waits \in Seq(Threads) /\ Distinct(waits)
                           /\ \A t : InWaits(t) <=> Among(t, waits)
BY DEF TypeOK, Distinct, InWaits, Among

\* What Append and Tail do to the queue of a well-typed state.
LEMMA AppendWaits == ASSUME TypeOK, NEW t \in Threads, ~InWaits(t), waits' = Append(waits, t)
                     PROVE  /\ waits' \in Seq(Threads)
                            /\ \A j, k \in 1..Len(waits') : waits'[j] = waits'[k] => j = k
                            /\ \A s : InWaits(s)' <=> InWaits(s) \/ s = t
<1>1. /\ waits' \in Seq(Threads) /\ Distinct(waits')
      /\ \A s : Among(s, waits') <=> Among(s, waits) \/ s = t
  BY WaitsQueue, AppendQueue
<1>2. \A s : InWaits(s)' <=> Among(s, waits')
  BY DEF InWaits, Among
<1> QED  BY <1>1, <1>2, WaitsQueue DEF Distinct

LEMMA TailWaits == ASSUME TypeOK, waits # << >>, waits' = Tail(waits)
                   PROVE  /\ waits' \in Seq(Threads)
                          /\ \A j, k \in 1..Len(waits') : waits'[j] = waits'[k] => j = k
                          /\ waits[1] \in Threads /\ InWaits(waits[1])
                          /\ \A s : InWaits(s)' <=> InWaits(s) /\ s # waits[1]
<1>1. /\ waits' \in Seq(Threads) /\ Distinct(waits')
      /\ waits[1] \in Threads /\ Among(waits[1], waits)
      /\ \A s : Among(s, waits') <=> Among(s, waits) /\ s # waits[1]
  BY WaitsQueue, TailQueue
<1>2. \A s : InWaits(s)' <=> Among(s, waits')
  BY DEF InWaits, Among
<1> QED  BY <1>1, <1>2, WaitsQueue DEF Distinct

\* The lock is free and nobody waits at the start.
LEMMA InitIInv == Init => IInv
<1> SUFFICES ASSUME Init PROVE IInv
  OBVIOUS
<1>1. waits = << >> /\ Len(waits) = 0 /\ pc \in [Threads -> Locs] /\ locked = FALSE
  BY DEF Init, Locs
<1>2. TypeOK
  <2>1. waits \in Seq(Threads)
    BY <1>1
  <2>2. \A j, k \in 1..Len(waits) : waits[j] = waits[k] => j = k
    <3>1. 1..Len(waits) = {}
      BY <1>1
    <3> QED  BY <3>1
  <2> QED  BY <1>1, <2>1, <2>2 DEF TypeOK
<1>3. \A t : ~InWaits(t)
  BY <1>1 DEF InWaits
<1>4. \A t \in Threads : ~Owns(t)
  BY DEF Init, Owns
<1> QED
  BY <1>1, <1>2, <1>3, <1>4, ThreadsAssumption DEF Init, IInv, QueueInv, OwnerInv, TryInv

\* The steps of a thread keep the invariant.
LEMMA RunIInv == ASSUME IInv, NEW t \in Threads, Run(t) PROVE IInv'
<1>0. TypeOK /\ QueueInv /\ OwnerInv /\ TryInv /\ pc \in [Threads -> Locs]
  BY DEF IInv, TypeOK
<1>1. CASE TryAcquire(t)
  <2>1. TypeOK' /\ waits' = waits /\ locked' = TRUE
    BY <1>0, <1>1 DEF TryAcquire, Goto, TypeOK, Locs
  <2>2. \A s : InWaits(s)' <=> InWaits(s)
    BY <2>1 DEF InWaits
  <2>3. \A s \in Threads : Owns(s)' <=> Owns(s) \/ (s = t /\ ~locked)
    <3>1. pc[t] = "try" /\ ~Owns(t)
      BY <1>1 DEF TryAcquire, Goto, Owns
    <3>2. CASE ~locked
      <4>1. pc' = [pc EXCEPT ![t] = "cs"]
        BY <1>1, <3>2 DEF TryAcquire, Goto
      <4> QED  BY <1>0, <2>2, <3>2, <4>1 DEF Owns
    <3>3. CASE locked
      <4>1. pc' = [pc EXCEPT ![t] = "wait"]
        BY <1>1, <3>3 DEF TryAcquire, Goto
      <4> QED  BY <1>0, <2>2, <3>1, <3>3, <4>1 DEF Owns
    <3> QED  BY <3>2, <3>3
  <2>4. OwnerInv'
    BY <1>0, <1>1, <2>1, <2>3 DEF OwnerInv
  <2>5. QueueInv' /\ TryInv'
    BY <1>0, <1>1, <2>1, <2>2 DEF TryAcquire, Goto, QueueInv, TryInv
  <2> QED  BY <2>1, <2>4, <2>5 DEF IInv
<1>2. CASE Wait(t)
  <2>1. ~InWaits(t)
    BY <1>0, <1>2 DEF Wait, Goto, QueueInv
  <2>2. \A s : InWaits(s)' <=> InWaits(s) \/ s = t
    BY <1>0, <1>2, <2>1, AppendWaits DEF Wait
  <2>3. TypeOK'
    BY <1>0, <1>2, <2>1, AppendWaits DEF Wait, Goto, TypeOK, Locs
  <2>4. \A s \in Threads : Owns(s)' <=> Owns(s)
    BY <1>0, <1>2, <2>2 DEF Wait, Goto, Owns
  <2>5. OwnerInv'
    BY <1>0, <1>2, <2>4 DEF OwnerInv, Wait
  <2>6. QueueInv' /\ TryInv'
    BY <1>0, <1>2, <2>2 DEF Wait, Goto, QueueInv, TryInv
  <2> QED  BY <2>3, <2>5, <2>6 DEF IInv
<1>3. CASE Woken(t) \/ EnterCs(t) \/ LeaveCs(t)
  <2>1. TypeOK' /\ waits' = waits /\ locked' = locked
    BY <1>0, <1>3 DEF Woken, EnterCs, LeaveCs, Goto, TypeOK, Locs
  <2>2. \A s : InWaits(s)' <=> InWaits(s)
    BY <2>1 DEF InWaits
  <2>3. \A s \in Threads : Owns(s)' <=> Owns(s)
    BY <1>0, <1>3, <2>2 DEF Woken, EnterCs, LeaveCs, Goto, Owns
  <2>4. OwnerInv'
    BY <1>0, <2>1, <2>3 DEF OwnerInv
  <2>5. QueueInv' /\ TryInv'
    BY <1>0, <1>3, <2>1, <2>2 DEF Woken, EnterCs, LeaveCs, Goto, QueueInv, TryInv
  <2> QED  BY <2>1, <2>4, <2>5 DEF IInv
<1>4. CASE Release(t)
  <2>1. pc[t] = "release" /\ pc' = [pc EXCEPT ![t] = "try"] /\ Owns(t) /\ ~InWaits(t)
    BY <1>0, <1>4 DEF Release, Goto, Owns, QueueInv
  <2>2. locked /\ \A s \in Threads : Owns(s) => s = t
    BY <1>0, <2>1 DEF OwnerInv
  <2>3. CASE waits # << >>
    <3>1. waits' = Tail(waits) /\ locked' = locked
      BY <1>4, <2>3 DEF Release
    <3>2. /\ waits[1] \in Threads /\ InWaits(waits[1])
          /\ \A s : InWaits(s)' <=> InWaits(s) /\ s # waits[1]
      BY <1>0, <2>3, <3>1, TailWaits
    <3>3. TypeOK'
      BY <1>0, <2>1, <2>3, <3>1, TailWaits DEF TypeOK, Locs
    <3>4. \A s \in Threads : Owns(s)' <=> s = waits[1]
      BY <1>0, <2>1, <2>2, <3>2 DEF Owns, QueueInv
    <3>5. OwnerInv' /\ TryInv'
      BY <2>2, <3>1, <3>2, <3>4 DEF OwnerInv, TryInv
    <3>6. QueueInv'
      BY <1>0, <2>1, <3>2 DEF QueueInv
    <3> QED  BY <3>3, <3>5, <3>6 DEF IInv
  <2>4. CASE waits = << >>
    <3>1. waits' = waits /\ locked' = FALSE
      BY <1>4, <2>4 DEF Release
    <3>2. \A s : InWaits(s)' <=> InWaits(s)
      BY <3>1 DEF InWaits
    <3>3. TypeOK'
      BY <1>0, <2>1, <3>1 DEF TypeOK, Locs
    <3>4. \A s \in Threads : ~Owns(s)'
      BY <1>0, <2>1, <2>2, <3>2 DEF Owns
    <3>5. OwnerInv' /\ TryInv' /\ QueueInv'
      BY <1>0, <2>1, <3>1, <3>2, <3>4 DEF OwnerInv, TryInv, QueueInv
    <3> QED  BY <3>3, <3>5 DEF IInv
  <2> QED  BY <2>3, <2>4
<1> QED  BY <1>1, <1>2, <1>3, <1>4 DEF Run

\* Every step keeps the invariant.
LEMMA NextIInv == IInv /\ [Next]_vars => IInv'
<1> SUFFICES ASSUME IInv, [Next]_vars PROVE IInv'
  OBVIOUS
<1>1. CASE Next
  BY <1>1, RunIInv DEF Next
<1>2. CASE UNCHANGED vars
  BY <1>2 DEF vars, IInv, TypeOK, QueueInv, OwnerInv, TryInv, Owns, InWaits
<1> QED  BY <1>1, <1>2

\* A step of the family is one of futex.py or leaves its variables alone.
LEMMA FutexSteps == [AllNext]_all => [Next]_vars
BY Zenon DEF AllNext, all, InFutex, InSem, InPeterson, InLitmus, InPy, InPcCv, InOrder,
   InLockOrdering, InFlock, Over

\* The inductive invariant holds in every reachable state.
THEOREM FutexInvariant == AllSpec => []IInv
<1>1. AllInit => IInv
  BY InitIInv DEF AllInit
<1>2. IInv /\ [AllNext]_all => IInv'
  BY NextIInv, FutexSteps
<1> QED  BY <1>1, <1>2, PTL DEF AllSpec

\* The lock excludes, whatever the number of threads: futex.py's mark_both
\* never paints a state red.
THEOREM FutexExcludes == AllSpec => []MutualExclusion
<1>1. ASSUME IInv PROVE MutualExclusion
  <2>1. \A t \in Threads : pc[t] = "del" => Owns(t)
    BY DEF Owns
  <2>2. \A s, t \in Threads : Owns(s) /\ Owns(t) => s = t
    BY <1>1 DEF IInv, OwnerInv
  <2> QED  BY <2>1, <2>2 DEF MutualExclusion
<1> QED  BY <1>1, FutexInvariant, PTL

\* The threads never all wait, whatever their number, although a thread can
\* queue up for a lock that has just been let go.
THEOREM FutexSomeoneCanGo == AllSpec => []SomeoneCanGo
<1>1. ASSUME IInv PROVE SomeoneCanGo
  <2>1. CASE locked
    <3>1. PICK t \in Threads : Owns(t)
      BY <1>1, <2>1 DEF IInv, OwnerInv
    <3> QED  BY <1>1, <3>1 DEF IInv, QueueInv, Owns, SomeoneCanGo
  <2>2. CASE ~locked
    <3>1. PICK t \in Threads : pc[t] = "try"
      BY <1>1, <2>2 DEF IInv, TryInv
    <3> QED  BY <1>1, <3>1 DEF IInv, QueueInv, SomeoneCanGo
  <2> QED  BY <2>1, <2>2
<1> QED  BY <1>1, FutexInvariant, PTL
-----------------------------------------------------------------------------
(* sem.py *)

SemLocs == {"P", "while", "cs", "del", "V", "done"}

Passed == {t \in Threads : at[t] = "while" /\ ~Among(t, queue)}
Inside == {t \in Threads : at[t] \in {"cs", "del", "V"}}
Count == token + Cardinality(Passed)

\* The inductive invariant: whoever is in the queue is in the loop of its P,
\* and every one of the K tokens is in the count, with a thread that has not
\* noticed yet, or with a thread inside.
SemTypeOK == /\ token \in Nat
             /\ queue \in Seq(Threads) /\ Distinct(queue)
             /\ at \in [Threads -> SemLocs]
SemQueueInv == \A t \in Threads : Among(t, queue) => at[t] = "while"
SemIInv(K) == SemTypeOK /\ SemQueueInv /\ Count + Cardinality(Inside) = K

\* What a step may do to the abstract semaphore.
SemStays == Count' = Count /\ Inside' = Inside
SemPasses(t) == /\ Count > 0 /\ t \notin Inside
                /\ Count' = Count - 1 /\ Inside' = Inside \union {t}
SemLeaves(t) == t \in Inside /\ Count' = Count + 1 /\ Inside' = Inside \ {t}
SemAbstract == SemStays \/ \E t \in Threads : SemPasses(t) \/ SemLeaves(t)

\* The threads of the two sets, whatever the number of tokens.
LEMMA SemSame == \A K : Sem(K)!Through = Passed /\ Sem(K)!Holders = Inside
BY DEF Sem!Through, Sem!Holders, Sem!InWaits, Passed, Inside, Among

\* The sets are finite, their sizes natural numbers.
LEMMA SemSizes == /\ IsFiniteSet(Passed) /\ IsFiniteSet(Inside)
                  /\ Cardinality(Passed) \in Nat /\ Cardinality(Inside) \in Nat
<1>1. Passed \subseteq Threads /\ Inside \subseteq Threads
  BY DEF Passed, Inside
<1>2. IsFiniteSet(Passed) /\ IsFiniteSet(Inside)
  BY <1>1, FiniteAssumption, FS_Subset
<1> QED  BY <1>2, FS_CardinalityType

\* Nobody has a token at the start.
LEMMA SemInitIInv == ASSUME CONSTANT K \in Nat, Sem(K)!Init
                     PROVE  SemIInv(K) /\ Count = K /\ Inside = {}
<1>1. token = K /\ queue = << >> /\ at = [t \in Threads |-> "P"]
  BY DEF Sem!Init
<1>2. SemTypeOK /\ SemQueueInv
  <2>1. queue \in Seq(Threads) /\ 1..Len(queue) = {}
    BY <1>1
  <2>2. Distinct(queue) /\ \A t : ~Among(t, queue)
    BY <2>1, Zenon DEF Distinct, Among
  <2> QED  BY <1>1, <2>1, <2>2 DEF SemTypeOK, SemQueueInv, SemLocs
<1>3. Passed = {} /\ Inside = {}
  BY <1>1 DEF Passed, Inside
<1>4. Cardinality(Passed) = 0 /\ Cardinality(Inside) = 0
  BY <1>3, FS_EmptySet
<1> QED  BY <1>1, <1>2, <1>3, <1>4 DEF SemIInv, Count

\* Every step of a thread keeps the types and is a step of the semaphore.
LEMMA SemRun == ASSUME CONSTANT K, SemTypeOK, SemQueueInv, NEW t \in Threads, Sem(K)!Run(t)
                PROVE  SemTypeOK' /\ SemQueueInv' /\ SemAbstract
<1> USE DEF Sem!Goto
<1>0. /\ token \in Nat /\ queue \in Seq(Threads) /\ Distinct(queue) /\ at \in [Threads -> SemLocs]
      /\ Cardinality(Passed) \in Nat /\ IsFiniteSet(Passed)
  BY SemSizes DEF SemTypeOK
<1>1. CASE Sem(K)!P(t) /\ token > 0
  <2>1. at[t] = "P" /\ at' = [at EXCEPT ![t] = "while"] /\ token' = token - 1 /\ queue' = queue
    BY <1>1 DEF Sem!P
  <2>2. ~Among(t, queue) /\ t \notin Passed
    BY <2>1 DEF SemQueueInv, Passed
  <2>3. SemTypeOK' /\ SemQueueInv'
    BY <1>0, <1>1, <2>1, <2>2 DEF SemTypeOK, SemQueueInv, SemLocs
  <2>4. Passed' = Passed \union {t} /\ Inside' = Inside
    BY <1>0, <2>1, <2>2 DEF Passed, Inside
  <2>5. Cardinality(Passed') = Cardinality(Passed) + 1
    BY <1>0, <2>2, <2>4, FS_AddElement, Zenon
  <2>6. Count' = Count
    BY <1>0, <1>1, <2>1, <2>5 DEF Count
  <2> QED  BY <2>3, <2>4, <2>6 DEF SemAbstract, SemStays
<1>2. CASE Sem(K)!P(t) /\ ~(token > 0)
  <2>1. /\ at[t] = "P" /\ at' = [at EXCEPT ![t] = "while"]
        /\ token' = token /\ queue' = Append(queue, t)
    BY <1>0, <1>2 DEF Sem!P
  <2>2. ~Among(t, queue)
    BY <2>1 DEF SemQueueInv
  <2>3. /\ queue' \in Seq(Threads) /\ Distinct(queue')
        /\ \A s : Among(s, queue') <=> Among(s, queue) \/ s = t
    BY <1>0, <2>1, <2>2, AppendQueue
  <2>4. SemTypeOK'
    BY <1>0, <2>1, <2>3 DEF SemTypeOK, SemLocs
  <2>5. SemQueueInv'
    BY <1>0, <2>1, <2>3 DEF SemQueueInv
  <2>6. Passed' = Passed /\ Inside' = Inside
    BY <1>0, <2>1, <2>2, <2>3 DEF Passed, Inside
  <2> QED  BY <2>1, <2>4, <2>5, <2>6 DEF SemAbstract, SemStays, Count
<1>3. CASE Sem(K)!LeaveWhile(t)
  <2>1. /\ at[t] = "while" /\ at' = [at EXCEPT ![t] = "cs"] /\ token' = token /\ queue' = queue
        /\ ~Among(t, queue)
    BY <1>3 DEF Sem!LeaveWhile, Sem!InWaits, Among
  <2>2. SemTypeOK' /\ SemQueueInv'
    BY <1>0, <2>1 DEF SemTypeOK, SemQueueInv, SemLocs
  <2>3. t \in Passed /\ Passed' = Passed \ {t} /\ t \notin Inside /\ Inside' = Inside \union {t}
    BY <1>0, <2>1 DEF Passed, Inside
  <2>4. Cardinality(Passed') = Cardinality(Passed) - 1 /\ Cardinality(Passed') \in Nat
    BY <1>0, <2>3, FS_RemoveElement, FS_CardinalityType
  <2>5. Count > 0 /\ Count' = Count - 1
    BY <1>0, <2>1, <2>4 DEF Count
  <2> QED  BY <2>2, <2>3, <2>5 DEF SemAbstract, SemPasses
<1>4. CASE Sem(K)!EnterCs(t) \/ Sem(K)!LeaveCs(t)
  <2>1. /\ token' = token /\ queue' = queue
        /\ \/ at[t] = "cs" /\ at' = [at EXCEPT ![t] = "del"]
           \/ at[t] = "del" /\ at' = [at EXCEPT ![t] = "V"]
    BY <1>4 DEF Sem!EnterCs, Sem!LeaveCs
  <2>2. SemTypeOK' /\ SemQueueInv'
    BY <1>0, <2>1 DEF SemTypeOK, SemQueueInv, SemLocs
  <2>3. Passed' = Passed /\ Inside' = Inside
    BY <1>0, <2>1 DEF Passed, Inside
  <2> QED  BY <2>1, <2>2, <2>3 DEF SemAbstract, SemStays, Count
<1>5. CASE Sem(K)!V(t) /\ queue # << >>
  <2>1. /\ at[t] = "V" /\ at' = [at EXCEPT ![t] = "done"]
        /\ token' = token /\ queue' = Tail(queue)
    BY <1>5 DEF Sem!V
  <2>2. /\ queue' \in Seq(Threads) /\ Distinct(queue')
        /\ queue[1] \in Threads /\ Among(queue[1], queue)
        /\ \A s : Among(s, queue') <=> Among(s, queue) /\ s # queue[1]
    BY <1>0, <1>5, <2>1, TailQueue
  <2>3. SemTypeOK'
    BY <1>0, <2>1, <2>2 DEF SemTypeOK, SemLocs
  <2>4. ~Among(t, queue) /\ at[queue[1]] = "while" /\ t # queue[1]
    BY <2>1, <2>2 DEF SemQueueInv
  <2>5. SemQueueInv'
    BY <1>0, <2>1, <2>2, <2>4 DEF SemQueueInv
  <2>6. queue[1] \notin Passed /\ Passed' = Passed \union {queue[1]}
    BY <1>0, <2>1, <2>2, <2>4 DEF Passed
  <2>7. t \in Inside /\ Inside' = Inside \ {t}
    BY <1>0, <2>1 DEF Inside
  <2>8. Cardinality(Passed') = Cardinality(Passed) + 1
    BY <1>0, <2>6, FS_AddElement, Zenon
  <2>9. Count' = Count + 1
    BY <1>0, <2>1, <2>8 DEF Count
  <2> QED  BY <2>3, <2>5, <2>7, <2>9 DEF SemAbstract, SemLeaves
<1>6. CASE Sem(K)!V(t) /\ queue = << >>
  <2>1. /\ at[t] = "V" /\ at' = [at EXCEPT ![t] = "done"]
        /\ token' = token + 1 /\ queue' = queue
    BY <1>6 DEF Sem!V
  <2>2. ~Among(t, queue)
    BY <2>1 DEF SemQueueInv
  <2>3. SemTypeOK' /\ SemQueueInv'
    BY <1>0, <2>1, <2>2 DEF SemTypeOK, SemQueueInv, SemLocs
  <2>4. Passed' = Passed /\ t \in Inside /\ Inside' = Inside \ {t}
    BY <1>0, <2>1 DEF Passed, Inside
  <2>5. Count' = Count + 1
    BY <1>0, <2>1, <2>4 DEF Count
  <2> QED  BY <2>3, <2>4, <2>5 DEF SemAbstract, SemLeaves
<1> QED  BY <1>1, <1>2, <1>3, <1>4, <1>5, <1>6 DEF Sem!Run

\* A step of the semaphore changes no number of tokens.
LEMMA SemKeepsTokens == ASSUME SemTypeOK, SemTypeOK', SemAbstract
                        PROVE  (Count + Cardinality(Inside))' = Count + Cardinality(Inside)
<1>1. /\ Count \in Nat /\ Cardinality(Inside) \in Nat /\ IsFiniteSet(Inside)
  BY SemSizes DEF SemTypeOK, Count
<1>2. CASE SemStays
  BY <1>1, <1>2 DEF SemStays
<1>3. ASSUME NEW t \in Threads, SemPasses(t)
      PROVE  (Count + Cardinality(Inside))' = Count + Cardinality(Inside)
  <2>1. Cardinality(Inside') = Cardinality(Inside) + 1
    BY <1>1, <1>3, FS_AddElement DEF SemPasses
  <2> QED  BY <1>1, <1>3, <2>1 DEF SemPasses
<1>4. ASSUME NEW t \in Threads, SemLeaves(t)
      PROVE  (Count + Cardinality(Inside))' = Count + Cardinality(Inside)
  <2>1. Cardinality(Inside') = Cardinality(Inside) - 1
    BY <1>1, <1>4, FS_RemoveElement DEF SemLeaves
  <2> QED  BY <1>1, <1>4, <2>1 DEF SemLeaves
<1> QED  BY <1>2, <1>3, <1>4 DEF SemAbstract

\* So every step of sem.py keeps the invariant.
LEMMA SemNextIInv == ASSUME CONSTANT K, SemIInv(K), Sem(K)!Next
                     PROVE  SemIInv(K)' /\ SemAbstract
<1>1. SemTypeOK' /\ SemQueueInv' /\ SemAbstract
  BY SemRun DEF Sem!Next, SemIInv
<1> QED  BY <1>1, SemKeepsTokens DEF SemIInv
-----------------------------------------------------------------------------
(* lock-ordering.py and flock-demo.c *)

\* The natural numbers are well-founded, said without an operator as argument.
LEMMA NatWF == \E R : IsWellFoundedOn(R, Nat) /\ \A x, y \in Nat : y < x => <<y, x>> \in R
<1>1. \A x, y \in Nat : y < x => <<y, x>> \in OpToRel(<, Nat)
  BY Zenon DEF OpToRel
<1> QED  BY <1>1, NatLessThanWellFounded, Zenon

\* Every nonempty set of natural numbers has a least element.
LEMMA NatMin == ASSUME NEW T, T \subseteq Nat, T # {} PROVE \E x \in T : \A y \in T : x <= y
<1>1. PICK R : IsWellFoundedOn(R, Nat) /\ \A x, y \in Nat : y < x => <<y, x>> \in R
  BY NatWF
<1>2. PICK x \in T : \A y \in T : ~(<<y, x>> \in R)
  BY <1>1, WFMin, Zenon
<1>3. x \in Nat /\ \A y \in T : y \in Nat /\ ~(y < x)
  BY <1>1, <1>2, Zenon
<1>4. \A y \in T : x <= y
  BY <1>3
<1> QED  BY <1>4

\* A rank that grows from one lock of a sequence to the next grows along it.
LEMMA RanksGrow ==
  ASSUME NEW s, NEW rank, NEW n \in Nat, \A k \in 1..n : rank[s[k]] \in Nat,
         \A k \in 2..n : rank[s[k - 1]] < rank[s[k]]
  PROVE  \A j \in 1..(n - 1) : rank[s[j]] < rank[s[n]]
<1> DEFINE D == {d \in Nat : d > 0 /\ d < n /\ ~(rank[s[n - d]] < rank[s[n]])}
<1>1. D = {}
  <2> SUFFICES ASSUME D # {} PROVE FALSE
    OBVIOUS
  <2>1. PICK d \in D : \A e \in D : d <= e
    BY NatMin, Zenon
  <2>2. d \in Nat /\ d > 0 /\ d < n /\ ~(rank[s[n - d]] < rank[s[n]])
    BY <2>1
  <2>3. n - d \in 1..n /\ n \in 2..n /\ (n - d) + 1 \in 2..n /\ ((n - d) + 1) - 1 = n - d
    BY <2>2
  <2>4. rank[s[n - d]] < rank[s[(n - d) + 1]]
    BY <2>3
  <2>5. CASE d = 1
    BY <2>2, <2>4, <2>5
  <2>6. CASE d # 1
    <3>1. d - 1 \in Nat /\ d - 1 > 0 /\ d - 1 < n /\ ~(d <= d - 1) /\ n - (d - 1) = (n - d) + 1
      BY <2>2, <2>6
    <3>2. rank[s[(n - d) + 1]] < rank[s[n]]
      BY <2>1, <3>1
    <3>3. rank[s[n - d]] \in Nat /\ rank[s[(n - d) + 1]] \in Nat /\ rank[s[n]] \in Nat
      BY <2>3
    <3> QED  BY <2>2, <2>4, <3>2, <3>3
  <2> QED  BY <2>5, <2>6
<1>2. ASSUME NEW j \in 1..(n - 1) PROVE rank[s[j]] < rank[s[n]]
  <2>1. n - j \in Nat /\ n - j > 0 /\ n - j < n /\ n - (n - j) = j
    OBVIOUS
  <2> QED  BY <1>1, <2>1
<1> QED  BY <1>2

\* The inductive invariant, for processes Ps, locks Ls and initial orders Os: a
\* process has the locks of its order up to some point, and no lock has two
\* holders.
OrderIInv(Ps, Ls, Os) ==
  /\ order \in Os
  /\ held \in [Ps -> Nat]
  /\ \A p \in Ps : held[p] <= Len(order[p])
  /\ \A p \in Ps : \A k \in 1..held[p] : order[p][k] \in Ls
  /\ \A p, q \in Ps : \A j \in 1..held[p], k \in 1..held[q] :
       order[p][j] = order[q][k] => p = q

Lengths(Ps, Os) == \A o \in Os : \A p \in Ps : Len(o[p]) \in Nat

Wanted(p) == order[p][held[p] + 1]

\* No process has a lock at the start.
LEMMA OrderInitIInv == ASSUME CONSTANT Ps, CONSTANT Ls, CONSTANT Os, Lengths(Ps, Os),
                              Order(Ps, Ls, Os)!Init
                       PROVE  OrderIInv(Ps, Ls, Os)
<1>1. order \in Os /\ held = [p \in Ps |-> 0]
  BY DEF Order!Init
<1>2. \A p \in Ps : held[p] = 0 /\ 1..held[p] = {} /\ Len(order[p]) \in Nat
  BY <1>1 DEF Lengths
<1> QED  BY <1>1, <1>2 DEF OrderIInv

\* Every step of a process keeps the invariant: one that is granted a lock
\* that nobody has, and one that gives all of them back.
LEMMA OrderStep ==
  ASSUME CONSTANT Ps, CONSTANT Ls, CONSTANT Os, Lengths(Ps, Os), OrderIInv(Ps, Ls, Os),
         NEW p \in Ps,
         \/ Order(Ps, Ls, Os)!acquire(p) \/ Order(Ps, Ls, Os)!release(p)
         \/ Order(Ps, Ls, Os)!Exit(p) \/ Order(Ps, Ls, Os)!Abort(p)
  PROVE  OrderIInv(Ps, Ls, Os)'
<1>0. /\ order \in Os /\ held \in [Ps -> Nat] /\ Len(order[p]) \in Nat
      /\ \A q \in Ps : held[q] <= Len(order[q]) /\ Len(order[q]) \in Nat
  BY DEF OrderIInv, Lengths
<1>1. CASE Order(Ps, Ls, Os)!acquire(p)
  <2>1. /\ order' = order /\ held' = [held EXCEPT ![p] = held[p] + 1]
        /\ held[p] < Len(order[p]) /\ Wanted(p) \in Ls
        /\ \A q \in Ps : \A k \in 1..held[q] : order[q][k] # Wanted(p)
    BY <1>1 DEF Order!acquire, Order!wants, Order!Free, Order!Holds, Wanted
  <2>2. held' \in [Ps -> Nat] /\ \A q \in Ps : held'[q] = IF q = p THEN held[p] + 1 ELSE held[q]
    BY <1>0, <2>1
  <2>3. \A q \in Ps : held'[q] <= Len(order'[q])
    BY <1>0, <2>1, <2>2
  <2>4. \A q \in Ps : \A k \in 1..held'[q] : k \in 1..held[q] \/ (q = p /\ k = held[p] + 1)
    BY <1>0, <2>2
  <2>5. \A q \in Ps : \A k \in 1..held'[q] : order'[q][k] \in Ls
    BY <2>1, <2>4 DEF OrderIInv, Wanted
  <2>6. \A q, r \in Ps : \A j \in 1..held'[q], k \in 1..held'[r] :
          order'[q][j] = order'[r][k] => q = r
    <3> SUFFICES ASSUME NEW q \in Ps, NEW r \in Ps, NEW j \in 1..held'[q], NEW k \in 1..held'[r],
                        order[q][j] = order[r][k]
                 PROVE  q = r
      BY <2>1
    <3>1. CASE j \in 1..held[q] /\ k \in 1..held[r]
      BY <3>1 DEF OrderIInv
    <3>2. CASE ~(j \in 1..held[q]) \/ ~(k \in 1..held[r])
      BY <2>1, <2>4, <3>2 DEF Wanted
    <3> QED  BY <3>1, <3>2
  <2> QED  BY <1>0, <2>1, <2>2, <2>3, <2>5, <2>6 DEF OrderIInv
<1>2. CASE Order(Ps, Ls, Os)!release(p) \/ Order(Ps, Ls, Os)!Exit(p) \/ Order(Ps, Ls, Os)!Abort(p)
  <2>1. order' = order /\ held' = [held EXCEPT ![p] = 0]
    BY <1>2 DEF Order!release, Order!Exit, Order!Abort
  <2>2. held' \in [Ps -> Nat] /\ \A q \in Ps : held'[q] = IF q = p THEN 0 ELSE held[q]
    BY <1>0, <2>1
  <2>3. \A q \in Ps : held'[q] <= Len(order'[q])
    BY <1>0, <2>1, <2>2
  <2>4. \A q \in Ps : \A k \in 1..held'[q] : k \in 1..held[q]
    BY <1>0, <2>2
  <2> QED  BY <1>0, <2>1, <2>2, <2>3, <2>4 DEF OrderIInv
<1> QED  BY <1>1, <1>2

Blocked(p, q) == held[p] < Len(order[p]) /\ \E k \in 1..held[q] : order[q][k] = Wanted(p)
Follow(Ps, Ls, rank) ==
  \A p \in Ps : \A k \in 2..Len(order[p]) :
    {order[p][k - 1], order[p][k]} \subseteq Ls => rank[order[p][k - 1]] < rank[order[p][k]]

\* In a circle every process wants a lock that is held by another: take the
\* process that wants the lock of the highest rank.  Who holds that lock wants
\* one of a higher rank still.
LEMMA NoRankedCircle ==
  ASSUME CONSTANT Ps, CONSTANT Ls, CONSTANT Os, Lengths(Ps, Os), OrderIInv(Ps, Ls, Os),
         NEW N \in Nat, NEW rank \in [Ls -> 1..N], Follow(Ps, Ls, rank),
         NEW C \in SUBSET Ps, C # {}, \A p \in C : \E q \in C : Blocked(p, q)
  PROVE  FALSE
<1>1. N \in Nat
  OBVIOUS
<1>2. \A p \in Ps : \A k \in 2..Len(order[p]) :
        order[p][k - 1] \in Ls /\ order[p][k] \in Ls => rank[order[p][k - 1]] < rank[order[p][k]]
  BY DEF Follow
<1>3. \A p \in Ps : held[p] \in Nat /\ Len(order[p]) \in Nat /\ held[p] <= Len(order[p])
  BY DEF OrderIInv, Lengths
<1>4. ASSUME NEW p \in C PROVE p \in Ps /\ held[p] < Len(order[p]) /\ Wanted(p) \in Ls
  <2>1. PICK q \in C : Blocked(p, q)
    OBVIOUS
  <2>2. PICK k \in 1..held[q] : order[q][k] = Wanted(p)
    BY <2>1 DEF Blocked
  <2>3. order[q][k] \in Ls
    BY <2>2, Zenon DEF OrderIInv
  <2> QED  BY <2>1, <2>2, <2>3 DEF Blocked
<1> DEFINE Room == {N - rank[Wanted(p)] : p \in C}
<1>5. \A p \in C : rank[Wanted(p)] \in Nat /\ rank[Wanted(p)] <= N
  BY <1>1, <1>2, <1>4
<1>6. Room \subseteq Nat /\ Room # {}
  BY <1>1, <1>5
<1>7. PICK p \in C : \A q \in C : N - rank[Wanted(p)] <= N - rank[Wanted(q)]
  <2>1. PICK x \in Room : \A y \in Room : x <= y
    BY <1>6, NatMin, Zenon
  <2> QED  BY <2>1
<1>8. PICK q \in C : Blocked(p, q)
  OBVIOUS
<1>9. PICK k \in 1..held[q] : order[q][k] = Wanted(p)
  BY <1>8 DEF Blocked
<1>10. rank[Wanted(p)] < rank[Wanted(q)]
  <2> DEFINE n == held[q] + 1
  <2>1. held[q] \in Nat /\ Len(order[q]) \in Nat /\ held[q] < Len(order[q]) /\ q \in Ps
    BY <1>3, <1>4
  <2>2. n \in Nat /\ n <= Len(order[q]) /\ n - 1 = held[q] /\ 1..(n - 1) = 1..held[q]
    BY <2>1
  <2>3. \A j \in 1..n : j \in 1..held[q] \/ j = n
    BY <2>1
  <2>4. \A j \in 1..n : order[q][j] \in Ls
    BY <1>4, <2>3, Zenon DEF OrderIInv, Wanted
  <2>5. \A j \in 1..n : rank[order[q][j]] \in Nat
    BY <1>1, <1>2, <2>4
  <2>6. \A j \in 2..n : j \in 2..Len(order[q]) /\ j - 1 \in 1..n /\ j \in 1..n
    BY <2>1, <2>2
  <2>7. \A j \in 2..n : rank[order[q][j - 1]] < rank[order[q][j]]
    BY <1>2, <1>4, <2>4, <2>6, Zenon
  <2> HIDE DEF n
  <2>8. \A j \in 1..(n - 1) : rank[order[q][j]] < rank[order[q][n]]
    BY <2>2, <2>5, <2>7, RanksGrow, Zenon
  <2>9. rank[order[q][k]] < rank[order[q][n]]
    BY <1>9, <2>2, <2>8
  <2> QED  BY <1>9, <2>9 DEF n, Wanted
<1> QED  BY <1>1, <1>5, <1>7, <1>10

\* So an order that all follow prevents circles.
LEMMA NoCircle ==
  ASSUME CONSTANT Ps, CONSTANT Ls, CONSTANT Os, Lengths(Ps, Os), OrderIInv(Ps, Ls, Os),
         IsFiniteSet(Ls), Order(Ps, Ls, Os)!Ordered
  PROVE  ~Order(Ps, Ls, Os)!Circle
<1> SUFFICES ASSUME Order(Ps, Ls, Os)!Circle PROVE FALSE
  OBVIOUS
<1>1. PICK C \in (SUBSET Ps) \ {{}} : \A p \in C : \E q \in C : Blocked(p, q)
  BY Zenon DEF Order!Circle, Order!WaitsFor, Order!Holds, Order!wants, Blocked, Wanted
<1>2. PICK rank \in [Ls -> 1..Cardinality(Ls)] : Follow(Ps, Ls, rank)
  BY Zenon DEF Order!Ordered, Order!Cardinality, Cardinality, Follow
<1>3. Cardinality(Ls) \in Nat
  BY FS_CardinalityType
<1>4. C \in SUBSET Ps /\ C # {}
  OBVIOUS
<1> QED  BY <1>1, <1>2, <1>3, <1>4, NoRankedCircle, Zenon

\* So the invariant gives what LockOrder states.
LEMMA OrderIs == ASSUME CONSTANT Ps, CONSTANT Ls, CONSTANT Os, Lengths(Ps, Os),
                        OrderIInv(Ps, Ls, Os), IsFiniteSet(Ls)
                 PROVE  Order(Ps, Ls, Os)!OrderPreventsCircles
<1>1. \A l \in Ls : \A p, q \in Ps :
        Order(Ps, Ls, Os)!Holds(p, l) /\ Order(Ps, Ls, Os)!Holds(q, l) => p = q
  BY Zenon DEF Order!Holds, OrderIInv
<1>2. Order(Ps, Ls, Os)!Ordered => ~Order(Ps, Ls, Os)!Circle
  BY NoCircle
<1> QED  BY <1>1, <1>2, Zenon DEF Order!OrderPreventsCircles
-----------------------------------------------------------------------------
(* The programs of MCLocks *)

FlockOrders == [Pids -> Argvs]

\* Which program runs, and its invariant
AllIInv == /\ program = "one token" => SemIInv(1)
           /\ program = "two tokens" => SemIInv(2)
           /\ program = "lock-ordering" => OrderIInv({1, 2}, 0..2, PyOrders)
           /\ program = "flock" => OrderIInv(Pids, Files, FlockOrders)

\* The orders are sequences.
LEMMA OrderLengths == Lengths({1, 2}, PyOrders) /\ Lengths(Pids, FlockOrders)
<1>1. Lengths({1, 2}, PyOrders)
  <2>1. \A o \in PyOrders : o = << <<0, 1, 2>>, <<2, 1>> >>
    BY DEF PyOrders
  <2>2. Len(<<0, 1, 2>>) = 3 /\ Len(<<2, 1>>) = 2
    OBVIOUS
  <2> QED  BY <2>1, <2>2 DEF Lengths
<1>2. Lengths(Pids, FlockOrders)
  BY ArgvsAssumption DEF Lengths, FlockOrders
<1> QED  BY <1>1, <1>2

\* Every program starts in its invariant.
LEMMA AllInitIInv == AllInit => AllIInv
<1> SUFFICES ASSUME AllInit PROVE AllIInv
  OBVIOUS
<1>1. /\ program = "one token" => Sem(1)!Init
      /\ program = "two tokens" => Sem(2)!Init
      /\ program = "lock-ordering" => Order({1, 2}, 0..2, PyOrders)!Init
      /\ program = "flock" => Order(Pids, Files, FlockOrders)!Init
  BY Zenon DEF AllInit, FutexInit, SemInit, TsoInit, PyInit, PcCvInit, OrderInit, FlockOrders
<1>2. SemIInv(1) \/ program # "one token"
  BY <1>1, SemInitIInv
<1>3. SemIInv(2) \/ program # "two tokens"
  BY <1>1, SemInitIInv
<1>4. program = "lock-ordering" => OrderIInv({1, 2}, 0..2, PyOrders)
  BY <1>1, OrderInitIInv, OrderLengths
<1>5. program = "flock" => OrderIInv(Pids, Files, FlockOrders)
  BY <1>1, OrderInitIInv, OrderLengths
<1> QED  BY <1>2, <1>3, <1>4, <1>5 DEF AllIInv

semVars == <<token, queue, at>>

\* A step of the family is one of the program that runs.
LEMMA AllSteps ==
  ASSUME [AllNext]_all
  PROVE  /\ program' = program
         /\ program = "one token" => Sem(1)!Next \/ UNCHANGED semVars
         /\ program = "two tokens" => Sem(2)!Next \/ UNCHANGED semVars
         /\ program = "lock-ordering" => UNCHANGED ordered \/ \E p \in {1, 2} :
              \/ Order({1, 2}, 0..2, PyOrders)!acquire(p)
              \/ Order({1, 2}, 0..2, PyOrders)!release(p)
         /\ program = "flock" => UNCHANGED ordered \/ \E p \in Pids :
              \/ Order(Pids, Files, FlockOrders)!acquire(p)
              \/ Order(Pids, Files, FlockOrders)!Exit(p)
              \/ Order(Pids, Files, FlockOrders)!Abort(p)
<1> USE DEF InFutex, InSem, InPeterson, InLitmus, InPy, InPcCv, InOrder, semVars, sem, ordered
<1>1. CASE UNCHANGED all
  BY <1>1, Zenon DEF all
<1>2. CASE InFutex /\ Next
  BY <1>2, Zenon
<1>3. CASE InSem("one token") /\ Sem(1)!Next
  BY <1>3, Zenon
<1>4. CASE InSem("two tokens") /\ Sem(2)!Next
  BY <1>4, Zenon
<1>5. CASE \/ InPeterson("all barriers") /\ Peterson(Barriers)!Next
           \/ InPeterson("critical barrier") /\ Peterson(Critical)!Next
           \/ InLitmus /\ Litmus!Next
  BY <1>5, Zenon
<1>6. CASE \/ \E t \in Py!Runners : \/ InPy("dekker") /\ Py!Dekker(t)
                                    \/ InPy("peterson-flag") /\ Py!Peterson(t)
                                    \/ InPy("spinlock") /\ Py!Spin(t)
           \/ \E t \in Py!CvRunners : InPcCv /\ Py!PcCv(t)
  BY <1>6, Zenon
<1>7. CASE \E p \in 1..2 : InLockOrdering(p)
  <2>1. PICK p \in 1..2 : InLockOrdering(p)
    BY <1>7
  <2>2. p \in {1, 2}
    OBVIOUS
  <2> QED  BY <2>1, <2>2, Zenon DEF InLockOrdering
<1>8. CASE \E p \in Pids : InFlock(p)
  BY <1>8, Zenon DEF InFlock, FlockOrders
<1>9. CASE Over
  BY <1>1, <1>9, Zenon DEF Over
<1> QED  BY <1>1, <1>2, <1>3, <1>4, <1>5, <1>6, <1>7, <1>8, <1>9, Zenon DEF AllNext

\* A step that leaves the variables of a program alone keeps its invariant.
LEMMA SemIdle == ASSUME CONSTANT K, SemIInv(K), UNCHANGED semVars
                 PROVE  SemIInv(K)' /\ SemStays
BY DEF semVars, SemIInv, SemTypeOK, SemQueueInv, SemStays, Count, Passed, Inside

\* Every step of the family keeps the invariant.
LEMMA AllNextIInv == AllIInv /\ [AllNext]_all => AllIInv'
<1> SUFFICES ASSUME AllIInv, [AllNext]_all PROVE AllIInv'
  OBVIOUS
<1>1. program' = "one token" => SemIInv(1)'
  BY AllSteps, SemIdle, SemNextIInv DEF AllIInv
<1>2. program' = "two tokens" => SemIInv(2)'
  BY AllSteps, SemIdle, SemNextIInv DEF AllIInv
<1>3. program' = "lock-ordering" => OrderIInv({1, 2}, 0..2, PyOrders)'
  <2> SUFFICES ASSUME program = "lock-ordering", OrderIInv({1, 2}, 0..2, PyOrders)
               PROVE  OrderIInv({1, 2}, 0..2, PyOrders)'
    BY AllSteps DEF AllIInv
  <2>1. CASE UNCHANGED ordered
    BY <2>1 DEF ordered, OrderIInv
  <2> QED  BY <2>1, AllSteps, OrderStep, OrderLengths
<1>4. program' = "flock" => OrderIInv(Pids, Files, FlockOrders)'
  <2> SUFFICES ASSUME program = "flock", OrderIInv(Pids, Files, FlockOrders)
               PROVE  OrderIInv(Pids, Files, FlockOrders)'
    BY AllSteps DEF AllIInv
  <2>1. CASE UNCHANGED ordered
    BY <2>1 DEF ordered, OrderIInv
  <2> QED  BY <2>1, AllSteps, OrderStep, OrderLengths
<1> QED  BY <1>1, <1>2, <1>3, <1>4 DEF AllIInv

\* The inductive invariants hold in every reachable state.
THEOREM LocksInvariant == AllSpec => []AllIInv
BY AllInitIInv, AllNextIInv, PTL DEF AllSpec

\* Processes that take their locks in one order never wait in a circle, and no
\* lock has two holders: for any number of processes of flock-demo.c, any files
\* and any arguments.
THEOREM LocksOrderPreventsCircles == AllSpec => []OrderPreventsCircles
<1>1. ASSUME AllIInv PROVE OrderPreventsCircles
  <2>1. IsFiniteSet(0..2)
    <3>1. 0 \in Int /\ 2 \in Int
      OBVIOUS
    <3> QED  BY <3>1, FS_Interval, Zenon
  <2>2. program = "lock-ordering" => Order({1, 2}, 0..2, PyOrders)!OrderPreventsCircles
    BY <1>1, <2>1, OrderIs, OrderLengths DEF AllIInv
  <2>3. program = "flock" => Order(Pids, Files, FlockOrders)!OrderPreventsCircles
    BY <1>1, OrderIs, OrderLengths, FiniteAssumption DEF AllIInv
  <2> QED  BY <2>2, <2>3, Zenon DEF OrderPreventsCircles, FlockOrders
<1> QED  BY <1>1, LocksInvariant, PTL

\* sem.py implements the counting semaphore, for any finite set of threads.
THEOREM LocksImplementsSemaphore == AllSpec => ImplementsSemaphore
<1> DEFINE one == <<IF program = "one token" THEN token + Cardinality(Sem(1)!Through) ELSE 1,
                    IF program = "one token" THEN Sem(1)!Holders ELSE {}>>
           two == <<IF program = "two tokens" THEN token + Cardinality(Sem(2)!Through) ELSE 2,
                    IF program = "two tokens" THEN Sem(2)!Holders ELSE {}>>
<1>1. AllInit => OneSem!Init /\ TwoSem!Init
  <2> SUFFICES ASSUME AllInit PROVE OneSem!Init /\ TwoSem!Init
    OBVIOUS
  <2>1. /\ program = "one token" => Sem(1)!Init
        /\ program = "two tokens" => Sem(2)!Init
    BY Zenon DEF AllInit, FutexInit, SemInit, TsoInit, PyInit, PcCvInit, OrderInit
  <2>2. program = "one token" => Count = 1 /\ Inside = {}
    BY <2>1, SemInitIInv
  <2>3. program = "two tokens" => Count = 2 /\ Inside = {}
    BY <2>1, SemInitIInv
  <2>4. OneSem!Init
    BY <2>2, SemSame DEF OneSem!Init, Count
  <2>5. TwoSem!Init
    BY <2>3, SemSame DEF TwoSem!Init, Count
  <2> QED  BY <2>4, <2>5
<1>2. AllIInv /\ [AllNext]_all => [OneSem!Next]_one
  <2> SUFFICES ASSUME AllIInv, [AllNext]_all PROVE OneSem!Next \/ UNCHANGED one
    OBVIOUS
  <2>1. program' = program
    BY AllSteps
  <2>2. CASE program # "one token"
    BY <2>1, <2>2
  <2>3. CASE program = "one token"
    <3>1. SemAbstract
      BY <2>3, AllSteps, SemNextIInv, SemIdle DEF AllIInv, SemAbstract
    <3>2. /\ Sem(1)!Through = Passed /\ Sem(1)!Holders = Inside
          /\ (Sem(1)!Through)' = Passed' /\ (Sem(1)!Holders)' = Inside'
      BY Zenon DEF Sem!Through, Sem!Holders, Sem!InWaits, Passed, Inside, Among
    <3>3. CASE SemStays
      BY <2>1, <2>3, <3>2, <3>3 DEF SemStays, Count
    <3>4. ASSUME NEW t \in Threads, SemPasses(t) PROVE OneSem!P(t)
      BY <2>1, <2>3, <3>2, <3>4 DEF SemPasses, Count, OneSem!P
    <3>5. ASSUME NEW t \in Threads, SemLeaves(t) PROVE OneSem!V(t)
      BY <2>1, <2>3, <3>2, <3>5 DEF SemLeaves, Count, OneSem!V
    <3> QED  BY <3>1, <3>3, <3>4, <3>5 DEF SemAbstract, OneSem!Next
  <2> QED  BY <2>2, <2>3
<1>3. AllIInv /\ [AllNext]_all => [TwoSem!Next]_two
  <2> SUFFICES ASSUME AllIInv, [AllNext]_all PROVE TwoSem!Next \/ UNCHANGED two
    OBVIOUS
  <2>1. program' = program
    BY AllSteps
  <2>2. CASE program # "two tokens"
    BY <2>1, <2>2
  <2>3. CASE program = "two tokens"
    <3>1. SemAbstract
      BY <2>3, AllSteps, SemNextIInv, SemIdle DEF AllIInv, SemAbstract
    <3>2. /\ Sem(2)!Through = Passed /\ Sem(2)!Holders = Inside
          /\ (Sem(2)!Through)' = Passed' /\ (Sem(2)!Holders)' = Inside'
      BY Zenon DEF Sem!Through, Sem!Holders, Sem!InWaits, Passed, Inside, Among
    <3>3. CASE SemStays
      BY <2>1, <2>3, <3>2, <3>3 DEF SemStays, Count
    <3>4. ASSUME NEW t \in Threads, SemPasses(t) PROVE TwoSem!P(t)
      BY <2>1, <2>3, <3>2, <3>4 DEF SemPasses, Count, TwoSem!P
    <3>5. ASSUME NEW t \in Threads, SemLeaves(t) PROVE TwoSem!V(t)
      BY <2>1, <2>3, <3>2, <3>5 DEF SemLeaves, Count, TwoSem!V
    <3> QED  BY <3>1, <3>3, <3>4, <3>5 DEF SemAbstract, TwoSem!Next
  <2> QED  BY <2>2, <2>3
<1> QED
  BY <1>1, <1>2, <1>3, LocksInvariant, PTL
  DEF AllSpec, ImplementsSemaphore, OneSem!Spec, TwoSem!Spec

\* No more threads than tokens are between P and V.
THEOREM LocksTokensBound ==
  AllSpec => [](/\ program = "one token" => Cardinality(Sem(1)!Holders) <= 1
                /\ program = "two tokens" => Cardinality(Sem(2)!Holders) <= 2)
<1>1. ASSUME CONSTANT K \in Nat, SemIInv(K) PROVE Cardinality(Sem(K)!Holders) <= K
  <2>1. Count \in Nat /\ Cardinality(Inside) \in Nat /\ Count + Cardinality(Inside) = K
    BY <1>1, SemSizes DEF SemIInv, SemTypeOK, Count
  <2> QED  BY <2>1, SemSame
<1>2. ASSUME AllIInv
      PROVE  /\ program = "one token" => Cardinality(Sem(1)!Holders) <= 1
             /\ program = "two tokens" => Cardinality(Sem(2)!Holders) <= 2
  BY <1>1, <1>2 DEF AllIInv
<1> QED  BY <1>2, LocksInvariant, PTL
=============================================================================
