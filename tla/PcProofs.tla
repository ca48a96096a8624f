------------------------------ MODULE PcProofs ------------------------------
(***************************************************************************)
(* Proofs about the three producer-consumer programs (pc.c, pc-cv.c and    *)
(* pc-sem.c), for every finite number of producers and consumers and every *)
(* n > 0, with or without spurious wakeups: the output passes pc-check.py, *)
(* the bookkeeping agrees with it, no wakeup is lost, and the threads of   *)
(* pc-sem.c never all block.  Of philosopher.c, for every N >= 2: no fork  *)
(* is in two hands, and the philosophers never wait in a circle.  If all   *)
(* were stuck, each taken fork would be in the hand of somebody who waits  *)
(* for a taken fork with a higher number; the highest taken fork           *)
(* contradicts that.                                                       *)
(*                                                                         *)
(* Each program has its own inductive invariant; the last section puts     *)
(* them together for the runs of MCPc, in which the initial state chooses  *)
(* the program.                                                            *)
(***************************************************************************)
EXTENDS MCPc, FiniteSetTheorems, TLAPS

-----------------------------------------------------------------------------
(* pc.c *)

MutexLocs == {"lock", "test", "count", "printf", "unlock"}

MutexTypeOK == /\ lk \in SUBSET Threads
               /\ count \in 0..n
               /\ depth \in Int
               /\ pc \in [Threads -> MutexLocs]

\* The inductive invariant: the mutex is held by the one thread that is not
\* about to ask for it; a thread past the test has found room, and still has
\* it; count is ahead of the output by the parenthesis that is due.
MutexIInv == /\ MutexTypeOK
             /\ \A s, t \in lk : s = t
             /\ \A t \in Threads : t \in lk <=> pc[t] # "lock"
             /\ \A t \in Threads : pc[t] = "count" => ~Mutex!MustRetry(t)
             /\ \A t \in Threads : pc[t] = "printf" => count = depth + Step(t)
             /\ (\A t \in Threads : pc[t] # "printf") => count = depth

\* The program starts in the invariant.
LEMMA MutexInit == Mutex!Init => MutexIInv
BY NAssumption
DEF Mutex!Init, MutexIInv, MutexTypeOK, MutexLocs, Mutex!Threads, Threads, Mutex!MustRetry

\* Every step keeps the invariant.
LEMMA MutexNext == MutexIInv /\ [Mutex!Next]_Mutex!vars => MutexIInv'
<1> SUFFICES ASSUME MutexIInv, [Mutex!Next]_Mutex!vars PROVE MutexIInv'
  OBVIOUS
<1> USE NAssumption, ThreadsAssumption
    DEF MutexIInv, MutexTypeOK, MutexLocs, Threads, Mutex!Goto, Mutex!MustRetry, Step, Mutex!Step
<1>1. ASSUME NEW t \in Threads, Mutex!MutexLock(t) PROVE MutexIInv'
  BY <1>1 DEF Mutex!MutexLock
<1>2. ASSUME NEW t \in Threads, Mutex!Test(t) PROVE MutexIInv'
  BY <1>2 DEF Mutex!Test
<1>3. ASSUME NEW t \in Threads, Mutex!Count(t) PROVE MutexIInv'
  BY <1>3 DEF Mutex!Count
<1>4. ASSUME NEW t \in Threads, Mutex!Printf(t) PROVE MutexIInv'
  BY <1>4 DEF Mutex!Printf
<1>5. ASSUME NEW t \in Threads, Mutex!MutexUnlock(t) PROVE MutexIInv'
  BY <1>5 DEF Mutex!MutexUnlock
<1>6. CASE UNCHANGED Mutex!vars
  BY <1>6 DEF Mutex!vars
<1> QED  BY <1>1, <1>2, <1>3, <1>4, <1>5, <1>6 DEF Mutex!Next, Mutex!Threads

\* One step of pc.c prints what pc-check.py accepts, or nothing.
LEMMA MutexStream == ASSUME MutexIInv, [Mutex!Next]_Mutex!vars PROVE [Stream!Next]_depth
<1>1. ASSUME NEW t \in Threads, Mutex!Printf(t) PROVE Stream!Next
  <2>1. count = depth + Step(t) /\ count \in 0..n /\ depth \in Int /\ depth' = depth + Step(t)
    BY <1>1 DEF Mutex!Printf, Mutex!Goto, MutexIInv, MutexTypeOK, Step, Mutex!Step
  <2> QED
    BY <2>1, NAssumption DEF Step, Stream!Next, Stream!Open, Stream!Close
<1>2. ASSUME NEW t \in Threads, Mutex!MutexLock(t) \/ Mutex!Test(t) \/ Mutex!Count(t)
                                \/ Mutex!MutexUnlock(t)
      PROVE  depth' = depth
  BY <1>2 DEF Mutex!MutexLock, Mutex!Test, Mutex!Count, Mutex!MutexUnlock
<1> QED  BY <1>1, <1>2 DEF Mutex!Next, Mutex!vars, Mutex!Threads, Threads

\* In pc.c the counter agrees with the output whenever the mutex is free,
\* whatever the number of threads.
THEOREM PcMutexCountIsDepth == Mutex!Spec => []Mutex!CountIsDepth
<1>1. MutexIInv => Mutex!CountIsDepth
  BY DEF MutexIInv, Mutex!CountIsDepth
<1> QED  BY <1>1, MutexInit, MutexNext, PTL DEF Mutex!Spec

-----------------------------------------------------------------------------
(* pc-cv.c *)

CvInside == {"while", "printf", "count", "broadcast", "unlock"}

\* The mutex is held by the one thread that is inside.
CvMutexInv == /\ \A s, t \in lk : s = t
              /\ \A t \in Threads : t \in lk <=> pc[t] \in CvInside

\* count and the output differ by the parenthesis just printed; a thread
\* past the while loop has found room, and still has it.
CvDepthInv == /\ \A t \in Threads : pc[t] = "count" => depth = count + Step(t)
              /\ (\A t \in Threads : pc[t] # "count") => depth = count
              /\ \A t \in Threads : pc[t] \in {"printf", "count"} => ~MustWait(t)

\* A sleeper sleeps for a reason that still holds, unless a broadcast is due.
CvSleepInv == /\ \A t \in cv : pc[t] = "wait"
              /\ \A t \in cv : MustWait(t) \/ \E s \in Threads : pc[s] = "broadcast"

\* The inductive invariant.
CvIInv == TypeOK /\ CvMutexInv /\ CvDepthInv /\ CvSleepInv

\* The program starts in the invariant.
LEMMA CvInit == Init => CvIInv
BY NAssumption DEF Init, CvIInv, TypeOK, CvMutexInv, CvDepthInv, CvSleepInv, CvInside, Step

\* One step of one thread keeps the invariant.
LEMMA CvRunIInv == ASSUME CvIInv, NEW t \in Threads, Run(t) PROVE CvIInv'
<1> USE NAssumption, ThreadsAssumption DEF CvIInv, TypeOK, Threads, Goto, CvInside
<1>1. CASE MutexLock(t)
  BY <1>1 DEF MutexLock, CvMutexInv, CvDepthInv, CvSleepInv, MustWait, Step
<1>2. CASE CondWait(t)
  BY <1>2 DEF CondWait, CvMutexInv, CvDepthInv, CvSleepInv, MustWait, Step
<1>3. CASE LeaveWhile(t)
  BY <1>3 DEF LeaveWhile, CvMutexInv, CvDepthInv, CvSleepInv, MustWait, Step
<1>4. CASE Return(t)
  BY <1>4 DEF Return, CvMutexInv, CvDepthInv, CvSleepInv, MustWait, Step
<1>5. CASE Printf(t)
  BY <1>5 DEF Printf, CvMutexInv, CvDepthInv, CvSleepInv, MustWait, Step
<1>6. CASE Count(t)
  BY <1>6 DEF Count, CvMutexInv, CvDepthInv, CvSleepInv, MustWait, Step
<1>7. CASE Broadcast(t)
  BY <1>7 DEF Broadcast, CvMutexInv, CvDepthInv, CvSleepInv, MustWait, Step
<1>8. CASE MutexUnlock(t)
  BY <1>8 DEF MutexUnlock, CvMutexInv, CvDepthInv, CvSleepInv, MustWait, Step
<1> QED  BY <1>1, <1>2, <1>3, <1>4, <1>5, <1>6, <1>7, <1>8 DEF Run

\* Every step keeps the invariant.
LEMMA CvNext == CvIInv /\ [Next]_vars => CvIInv'
<1> SUFFICES ASSUME CvIInv, [Next]_vars PROVE CvIInv'
  OBVIOUS
<1>1. ASSUME NEW t \in Threads, Run(t) PROVE CvIInv'
  BY <1>1, CvRunIInv
<1>2. ASSUME NEW t \in Threads, Spurious(t) PROVE CvIInv'
  BY <1>2 DEF Spurious, CvIInv, TypeOK, CvMutexInv, CvDepthInv, CvSleepInv, MustWait, Step
<1>3. CASE UNCHANGED vars
  BY <1>3 DEF vars, CvIInv, TypeOK, CvMutexInv, CvDepthInv, CvSleepInv, MustWait, Step
<1> QED  BY <1>1, <1>2, <1>3 DEF Next

\* The inductive invariant holds in every reachable state.
THEOREM PcCvInvariant == Spec => []CvIInv
BY CvInit, CvNext, PTL DEF Spec

\* count never leaves 0..n, whatever the number of threads.
THEOREM PcCvTypeCorrect == Spec => []TypeOK
<1>1. CvIInv => TypeOK
  BY DEF CvIInv
<1> QED  BY <1>1, PcCvInvariant, PTL

\* The threads are not all asleep: a producer and a consumer never have a
\* reason to sleep at the same time.
LEMMA CvAwake == CvIInv => NeverAllAsleep
<1>1. ASSUME CvIInv, cv = Threads PROVE FALSE
  <2>1. PICK p \in Producers, c \in Consumers : TRUE
    BY ThreadsAssumption
  <2>2. \A t \in Threads : pc[t] = "wait"
    BY <1>1 DEF CvIInv, CvSleepInv
  <2>3. MustWait(p) /\ MustWait(c)
    BY <1>1, <2>1, <2>2 DEF CvIInv, CvSleepInv, Threads
  <2> QED
    BY <2>1, <2>3, NAssumption, ThreadsAssumption DEF MustWait
<1> QED  BY <1>1 DEF NeverAllAsleep

\* One step of pc-cv.c prints what pc-check.py accepts, or nothing.
LEMMA CvStream == ASSUME CvIInv, [Next]_vars PROVE [Stream!Next]_depth
<1>1. ASSUME NEW t \in Threads, Printf(t) PROVE Stream!Next
  <2>1. depth = count /\ ~MustWait(t)
    BY <1>1 DEF Printf, Goto, CvIInv, CvDepthInv, CvMutexInv, CvInside, TypeOK
  <2>2. CASE t \in Producers
    BY <1>1, <2>1, <2>2, NAssumption
    DEF Printf, Step, MustWait, CvIInv, TypeOK, Stream!Next, Stream!Open
  <2>3. CASE t \notin Producers
    BY <1>1, <2>1, <2>3, NAssumption
    DEF Printf, Step, MustWait, CvIInv, TypeOK, Stream!Next, Stream!Close
  <2> QED  BY <2>2, <2>3
<1>2. ASSUME NEW t \in Threads, Run(t) \/ Spurious(t), ~Printf(t) PROVE depth' = depth
  BY <1>2 DEF Run, Spurious, MutexLock, CondWait, LeaveWhile, Return, Count,
              Broadcast, MutexUnlock
<1> QED  BY <1>1, <1>2 DEF Next, vars

-----------------------------------------------------------------------------
(* pc-sem.c *)

Busy == {t \in Sem!Threads : pc[t] # "P"}

\* The parentheses that are open: a place is full, or a producer has printed
\* and not yet posted, or a consumer has taken a full place and not printed.
Posting == Sem!At(Producers, "V")
Taking == Sem!At(Consumers, "printf")
SemDepthInv == depth = fill + Cardinality(Posting) + Cardinality(Taking)

\* The inductive invariant.
SemIInv == /\ Sem!TypeOK
           /\ Sem!PlacesConserved
           /\ SemDepthInv

\* The sizes of sets in PcSem are those of this module.
LEMMA SemCardinality == \A S : Sem!Cardinality(S) = Cardinality(S)
BY DEF Sem!Cardinality, Cardinality

\* The sets that are counted are finite, now and after a step.
LEMMA Finite == /\ IsFiniteSet(Busy) /\ IsFiniteSet(Busy)'
                /\ IsFiniteSet(Posting) /\ IsFiniteSet(Posting)'
                /\ IsFiniteSet(Taking) /\ IsFiniteSet(Taking)'
<1>1. IsFiniteSet(Sem!Threads)
  BY ThreadsAssumption, FS_Union, Zenon DEF Sem!Threads
<1>2. /\ Busy \in SUBSET Sem!Threads /\ Busy' \in SUBSET Sem!Threads
      /\ Posting \in SUBSET Sem!Threads /\ Posting' \in SUBSET Sem!Threads
      /\ Taking \in SUBSET Sem!Threads /\ Taking' \in SUBSET Sem!Threads
  BY DEF Busy, Posting, Taking, Sem!At, Sem!Threads
<1> QED  BY <1>1, <1>2, FS_Subset

\* A thread that joins or leaves one of these sets changes its size by one.
LEMMA CountStep == ASSUME NEW S, IsFiniteSet(S), NEW x
                   PROVE  /\ Cardinality(S) \in Nat
                          /\ x \notin S => Cardinality(S \cup {x}) = Cardinality(S) + 1
                          /\ x \in S => Cardinality(S \ {x}) = Cardinality(S) - 1
BY FS_CardinalityType, FS_AddElement, FS_RemoveElement, Zenon

\* The threads that hold a printed '(' all hold a place.
LEMMA DepthBound == ASSUME Sem!TypeOK, Sem!PlacesConserved, SemDepthInv PROVE depth \in 0..n
<1>1. Posting \cap Taking = {} /\ (Posting \cup Taking) \in SUBSET Busy
  BY ThreadsAssumption DEF Posting, Taking, Busy, Sem!At, Sem!Threads, Sem!TypeOK
<1>2. Cardinality(Posting \cup Taking) = Cardinality(Posting) + Cardinality(Taking)
  <2>1. Cardinality(Posting \cup Taking)
          = Cardinality(Posting) + Cardinality(Taking) - Cardinality(Posting \cap Taking)
    BY Finite, FS_Union
  <2>2. Cardinality(Posting \cap Taking) = 0
    BY <1>1, FS_EmptySet
  <2>3. Cardinality(Posting) \in Nat /\ Cardinality(Taking) \in Nat
    BY Finite, FS_CardinalityType
  <2> QED  BY <2>1, <2>2, <2>3
<1>3. Cardinality(Posting \cup Taking) <= Cardinality(Busy)
  BY <1>1, Finite, FS_Subset
<1>4. Cardinality(Posting) \in Nat /\ Cardinality(Taking) \in Nat /\ Cardinality(Busy) \in Nat
  BY Finite, CountStep, Zenon
<1> QED  BY SemCardinality, <1>2, <1>3, <1>4, NAssumption DEF Sem!TypeOK, Sem!PlacesConserved, SemDepthInv, Busy

\* The program starts in the invariant: all places are empty.
LEMMA SemInit == Sem!Init => SemIInv
<1> SUFFICES ASSUME Sem!Init PROVE SemIInv
  OBVIOUS
<1>1. Busy = {} /\ Posting = {} /\ Taking = {}
  BY DEF Sem!Init, Busy, Posting, Taking, Sem!At, Sem!Threads
<1> QED
  BY SemCardinality, <1>1, NAssumption, FS_EmptySet
  DEF Sem!Init, SemIInv, Sem!TypeOK, Sem!PlacesConserved, SemDepthInv, Busy

\* P: a thread takes a place out of a semaphore.
LEMMA PStep == ASSUME SemIInv, NEW t \in Sem!Threads,
                      (Sem!PEmpty(t) /\ t \in Producers) \/ (Sem!PFill(t) /\ t \in Consumers)
               PROVE  SemIInv'
<1> USE ThreadsAssumption, NAssumption DEF SemIInv, Sem!TypeOK, Sem!Threads, Sem!Goto, Sem!At
<1>1. Busy' = Busy \cup {t} /\ t \notin Busy
  BY DEF Sem!PEmpty, Sem!PFill, Busy
<1>2. Cardinality(Busy') = Cardinality(Busy) + 1 /\ Cardinality(Busy) \in Nat
  BY <1>1, Finite, CountStep, Zenon
<1>3. Posting' = Posting
  BY DEF Sem!PEmpty, Sem!PFill, Posting
<1>4. empty' \in Nat /\ fill' \in Nat
  BY DEF Sem!PEmpty, Sem!PFill
<1>5. Sem!PlacesConserved'
  BY SemCardinality, <1>2, <1>4 DEF Sem!PEmpty, Sem!PFill, Sem!PlacesConserved, Busy
<1>6. empty' \in 0..n /\ fill' \in 0..n
  BY SemCardinality, <1>2, <1>4, <1>5 DEF Sem!PlacesConserved, Busy
<1>7. CASE Sem!PEmpty(t) /\ t \in Producers
  <2>1. Taking' = Taking
    BY <1>7 DEF Sem!PEmpty, Taking
  <2> QED  BY <1>3, <1>5, <1>6, <1>7, <2>1 DEF Sem!PEmpty, SemDepthInv
<1>8. CASE Sem!PFill(t) /\ t \in Consumers
  <2>1. Taking' = Taking \cup {t} /\ t \notin Taking
    BY <1>8 DEF Sem!PFill, Taking
  <2>2. Cardinality(Taking') = Cardinality(Taking) + 1 /\ Cardinality(Taking) \in Nat
    BY <2>1, Finite, CountStep, Zenon
  <2>3. Cardinality(Posting) \in Nat
    BY Finite, CountStep, Zenon
  <2> QED  BY <1>3, <1>5, <1>6, <1>8, <2>2, <2>3 DEF Sem!PFill, SemDepthInv
<1> QED  BY <1>7, <1>8

\* printf: the output changes, the semaphores do not.
LEMMA PrintStep == ASSUME SemIInv, NEW t \in Sem!Threads,
                          (Sem!PrintOpen(t) /\ t \in Producers) \/ (Sem!PrintClose(t) /\ t \in Consumers)
                   PROVE  SemIInv'
<1> USE ThreadsAssumption, NAssumption DEF SemIInv, Sem!TypeOK, Sem!Threads, Sem!Goto, Sem!At
<1>1. Busy' = Busy
  BY DEF Sem!PrintOpen, Sem!PrintClose, Busy
<1>2. Sem!PlacesConserved'
  BY SemCardinality, <1>1, Zenon DEF Sem!PrintOpen, Sem!PrintClose, Sem!PlacesConserved, Busy
<1>3. Cardinality(Posting) \in Nat /\ Cardinality(Taking) \in Nat
  BY Finite, CountStep, Zenon
<1>4. CASE Sem!PrintOpen(t) /\ t \in Producers
  <2>1. Taking' = Taking /\ Posting' = Posting \cup {t} /\ t \notin Posting
    BY <1>4 DEF Sem!PrintOpen, Taking, Posting
  <2>2. Cardinality(Posting') = Cardinality(Posting) + 1
    BY <2>1, Finite, CountStep
  <2> QED  BY <1>2, <1>3, <1>4, <2>1, <2>2 DEF Sem!PrintOpen, SemDepthInv
<1>5. CASE Sem!PrintClose(t) /\ t \in Consumers
  <2>1. Posting' = Posting /\ Taking' = Taking \ {t} /\ t \in Taking
    BY <1>5 DEF Sem!PrintClose, Taking, Posting
  <2>2. Cardinality(Taking') = Cardinality(Taking) - 1
    BY <2>1, Finite, CountStep
  <2> QED  BY <1>2, <1>3, <1>5, <2>1, <2>2 DEF Sem!PrintClose, SemDepthInv
<1> QED  BY <1>4, <1>5

\* V: the thread passes its place on to the other semaphore.
LEMMA VStep == ASSUME SemIInv, NEW t \in Sem!Threads,
                      (Sem!VFill(t) /\ t \in Producers) \/ (Sem!VEmpty(t) /\ t \in Consumers)
               PROVE  SemIInv'
<1> USE ThreadsAssumption, NAssumption DEF SemIInv, Sem!TypeOK, Sem!Threads, Sem!Goto, Sem!At
<1>1. Busy' = Busy \ {t} /\ t \in Busy
  BY DEF Sem!VFill, Sem!VEmpty, Busy
<1>2. Cardinality(Busy') = Cardinality(Busy) - 1 /\ Cardinality(Busy) \in Nat
  BY <1>1, Finite, CountStep, Zenon
<1>3. Taking' = Taking
  BY DEF Sem!VFill, Sem!VEmpty, Taking
<1>4. empty' \in Nat /\ fill' \in Nat
  BY DEF Sem!VFill, Sem!VEmpty
<1>5. Sem!PlacesConserved'
  BY SemCardinality, <1>2, <1>4 DEF Sem!VFill, Sem!VEmpty, Sem!PlacesConserved, Busy
<1>6. empty' \in 0..n /\ fill' \in 0..n
  <2>1. Cardinality(Busy') \in Nat
    BY Finite, FS_CardinalityType
  <2> QED  BY SemCardinality, <2>1, <1>4, <1>5 DEF Sem!PlacesConserved, Busy
<1>7. CASE Sem!VFill(t) /\ t \in Producers
  <2>1. Posting' = Posting \ {t} /\ t \in Posting
    BY <1>7 DEF Sem!VFill, Posting
  <2>2. Cardinality(Posting') = Cardinality(Posting) - 1 /\ Cardinality(Posting) \in Nat
    BY <2>1, Finite, CountStep, Zenon
  <2>3. Cardinality(Taking) \in Nat
    BY Finite, CountStep, Zenon
  <2> QED  BY <1>3, <1>5, <1>6, <1>7, <2>2, <2>3 DEF Sem!VFill, SemDepthInv
<1>8. CASE Sem!VEmpty(t) /\ t \in Consumers
  <2>1. Posting' = Posting
    BY <1>8 DEF Sem!VEmpty, Posting
  <2> QED  BY <1>3, <1>5, <1>6, <1>8, <2>1 DEF Sem!VEmpty, SemDepthInv
<1> QED  BY <1>7, <1>8

\* Every step keeps the invariant.
LEMMA SemNext == SemIInv /\ [Sem!Next]_Sem!vars => SemIInv'
<1> SUFFICES ASSUME SemIInv, [Sem!Next]_Sem!vars PROVE SemIInv'
  OBVIOUS
<1>1. ASSUME NEW p \in Producers, Sem!producer(p) PROVE SemIInv'
  BY <1>1, PStep, PrintStep, VStep DEF Sem!producer, Sem!Threads
<1>2. ASSUME NEW c \in Consumers, Sem!consumer(c) PROVE SemIInv'
  BY <1>2, PStep, PrintStep, VStep DEF Sem!consumer, Sem!Threads
<1>3. CASE UNCHANGED Sem!vars
  BY SemCardinality, <1>3 DEF Sem!vars, SemIInv, Sem!TypeOK, Sem!PlacesConserved, SemDepthInv, Posting, Taking, Sem!At
<1> QED  BY <1>1, <1>2, <1>3 DEF Sem!Next

\* The inductive invariant holds in every reachable state.
THEOREM PcSemInvariant == Sem!Spec => []SemIInv
BY SemInit, SemNext, PTL DEF Sem!Spec

\* No place is lost or invented between the two semaphores of pc-sem.c,
\* whatever the number of threads.
THEOREM PcSemPlacesConserved == Sem!Spec => []Sem!PlacesConserved
<1>1. SemIInv => Sem!PlacesConserved
  BY DEF SemIInv
<1> QED  BY <1>1, PcSemInvariant, PTL

\* The producers and consumers of pc-sem.c never all block.
THEOREM PcSemSomeoneCanGo == Sem!Spec => []Sem!SomeoneCanGo
<1>1. ASSUME SemIInv, \A t \in Sem!Threads : pc[t] = "P", ~(empty > 0), ~(fill > 0) PROVE FALSE
  <2>1. Busy = {}
    BY <1>1 DEF Busy
  <2> QED  BY SemCardinality, <1>1, <2>1, FS_EmptySet, NAssumption DEF SemIInv, Sem!PlacesConserved, Sem!TypeOK, Busy
<1>2. SemIInv => Sem!SomeoneCanGo
  BY <1>1 DEF Sem!SomeoneCanGo
<1> QED  BY <1>2, PcSemInvariant, PTL

\* One step of pc-sem.c prints what pc-check.py accepts, or nothing.
LEMMA SemStream == ASSUME SemIInv, SemIInv', [Sem!Next]_Sem!vars PROVE [Stream!Next]_depth
<1>1. depth \in 0..n /\ depth' \in 0..n
  <2>1. depth \in 0..n
    BY DepthBound DEF SemIInv
  <2>2. (Sem!TypeOK /\ Sem!PlacesConserved /\ SemDepthInv => depth \in 0..n)'
    BY DepthBound, PTL
  <2> QED  BY <2>1, <2>2 DEF SemIInv
<1>2. depth' = depth \/ depth' = depth + 1 \/ depth' = depth - 1
  BY DEF Sem!Next, Sem!producer, Sem!consumer, Sem!vars, Sem!PEmpty, Sem!PrintOpen, Sem!VFill,
         Sem!PFill, Sem!PrintClose, Sem!VEmpty
<1> QED  BY <1>1, <1>2, NAssumption DEF Stream!Next, Stream!Open, Stream!Close

-----------------------------------------------------------------------------
(* philosopher.c *)

\* A fork is on the table exactly when it is in nobody's hand.
ForkInv == \A f \in Phil!Forks : locks[f] = 1 <=> \A id \in Phil!Ids : ~Phil!Holds(id, f)

\* The inductive invariant.
PhilIInv == Phil!TypeOK /\ Phil!OneHandPerFork /\ ForkInv

\* Forks are taken in ascending order (philosopher.c:8-10).
LEMMA ForkOrder ==
  ASSUME NEW id \in Phil!Ids
  PROVE  /\ Phil!First(id) \in Phil!Forks /\ Phil!Second(id) \in Phil!Forks
         /\ Phil!First(id) < Phil!Second(id)
<1>1. CASE id = N
  <2>1. Phil!rhs(id) = 0 /\ Phil!lhs(id) = N - 1
    BY <1>1, PhilosophersAssumption DEF Phil!rhs, Phil!lhs
  <2> QED  BY <1>1, <2>1, PhilosophersAssumption DEF Phil!First, Phil!Second, Phil!Forks
<1>2. CASE id # N
  <2>1. Phil!rhs(id) = id
    BY <1>2, PhilosophersAssumption DEF Phil!rhs, Phil!Ids
  <2>2. Phil!lhs(id) = id - 1
    BY <1>2, PhilosophersAssumption DEF Phil!lhs, Phil!Ids
  <2> QED  BY <1>2, <2>1, <2>2, PhilosophersAssumption
       DEF Phil!First, Phil!Second, Phil!Forks, Phil!Ids
<1> QED  BY <1>1, <1>2

\* A nonempty set of forks has a highest member.
LEMMA HighestFork == ASSUME NEW Z \in SUBSET Phil!Forks, Z # {}
                     PROVE  \E f \in Z : \A g \in Z : g <= f
<1> DEFINE R == {p \in Nat \X Nat : p[1] < p[2]}
<1> DEFINE T == {N - 1 - f : f \in Z}
<1>1. IsWellFoundedOn(R, Nat)
  BY NatLessThanWellFounded DEF OpToRel
<1>2. T \subseteq Nat /\ T # {}
  <2>1. \A f \in Z : N - 1 - f \in Nat
    BY PhilosophersAssumption DEF Phil!Forks
  <2>2. PICK f \in Z : TRUE
    OBVIOUS
  <2>3. N - 1 - f \in T
    OBVIOUS
  <2> QED  BY <2>1, <2>3
<1>3. PICK x \in T : \A y \in T : ~(<<y, x>> \in R)
  <2> HIDE DEF R, T
  <2> QED  BY <1>1, <1>2, WFMin, Zenon
<1>4. PICK f \in Z : x = N - 1 - f
  BY <1>3
<1>5. ASSUME NEW g \in Z PROVE g <= f
  <2>1. N - 1 - g \in T /\ N - 1 - g \in Nat /\ x \in Nat
    BY <1>2, <1>5
  <2>2. ~(N - 1 - g < x)
    BY <1>3, <2>1, Zenon
  <2> QED  BY <1>4, <2>2, PhilosophersAssumption DEF Phil!Forks
<1> QED  BY <1>5

\* The philosophers start in the invariant.
LEMMA PhilInit == Phil!Init => PhilIInv
BY DEF Phil!Init, PhilIInv, Phil!TypeOK, Phil!OneHandPerFork, ForkInv, Phil!Holds

\* A philosopher that takes a fork, or puts one down, is the one whose hand
\* changes, and no other hand does.
LEMMA PhilRun ==
  ASSUME PhilIInv, NEW id \in Phil!Ids, Phil!Tphilosopher(id)
  PROVE  PhilIInv'
<1> DEFINE a == Phil!First(id)
           b == Phil!Second(id)
<1>1. a \in Phil!Forks /\ b \in Phil!Forks /\ a # b
  <2>1. a \in Phil!Forks /\ b \in Phil!Forks /\ a < b
    BY ForkOrder
  <2> QED  BY <2>1, PhilosophersAssumption DEF Phil!Forks
<1>2. Phil!TypeOK
  BY DEF PhilIInv
<1>3. \A f \in Phil!Forks, c \in Phil!Ids : c # id => (Phil!Holds(c, f)' <=> Phil!Holds(c, f))
  BY <1>2 DEF Phil!Tphilosopher, Phil!PFirst, Phil!PSecond, Phil!VFirst, Phil!VSecond, Phil!Goto,
     Phil!Holds, Phil!TypeOK
<1> USE DEF Phil!Goto, Phil!TypeOK
<1>4. ASSUME NEW f \in Phil!Forks, locks[f] = 1, Phil!Holds(id, f)',
             locks' = [locks EXCEPT ![f] = 0],
             \A g \in Phil!Forks : g # f => (Phil!Holds(id, g)' <=> Phil!Holds(id, g)),
             Phil!TypeOK'
      PROVE  PhilIInv'
  BY <1>2, <1>3, <1>4 DEF PhilIInv, Phil!OneHandPerFork, ForkInv
<1>5. ASSUME NEW f \in Phil!Forks, Phil!Holds(id, f), ~Phil!Holds(id, f)',
             locks' = [locks EXCEPT ![f] = 1],
             \A g \in Phil!Forks : g # f => (Phil!Holds(id, g)' <=> Phil!Holds(id, g)),
             Phil!TypeOK'
      PROVE  PhilIInv'
  BY <1>2, <1>3, <1>5 DEF PhilIInv, Phil!OneHandPerFork, ForkInv
<1>6. CASE Phil!PFirst(id)
  <2>1. locks[a] = 1 /\ locks' = [locks EXCEPT ![a] = 0] /\ Phil!TypeOK'
    <3>1. locks[a] > 0 /\ locks' = [locks EXCEPT ![a] = locks[a] - 1]
      BY <1>6 DEF Phil!PFirst, Phil!P
    <3>2. locks[a] \in {0, 1}
      BY <1>1, <1>2
    <3>3. locks[a] = 1 /\ locks[a] - 1 = 0
      BY <3>1, <3>2
    <3>4. locks' = [locks EXCEPT ![a] = 0]
      BY <3>1, <3>3
    <3>5. Phil!TypeOK'
      BY <1>1, <1>2, <1>6, <3>4 DEF Phil!PFirst
    <3> QED  BY <3>3, <3>4, <3>5
  <2>2. /\ Phil!Holds(id, a)'
        /\ \A g \in Phil!Forks : g # a => (Phil!Holds(id, g)' <=> Phil!Holds(id, g))
    BY <1>1, <1>2, <1>6 DEF Phil!PFirst, Phil!Holds
  <2> QED  BY <1>1, <1>4, <2>1, <2>2, Zenon
<1>7. CASE Phil!PSecond(id)
  <2>1. locks[b] = 1 /\ locks' = [locks EXCEPT ![b] = 0] /\ Phil!TypeOK'
    <3>1. locks[b] > 0 /\ locks' = [locks EXCEPT ![b] = locks[b] - 1]
      BY <1>7 DEF Phil!PSecond, Phil!P
    <3>2. locks[b] \in {0, 1}
      BY <1>1, <1>2
    <3>3. locks[b] = 1 /\ locks[b] - 1 = 0
      BY <3>1, <3>2
    <3>4. locks' = [locks EXCEPT ![b] = 0]
      BY <3>1, <3>3
    <3>5. Phil!TypeOK'
      BY <1>1, <1>2, <1>7, <3>4 DEF Phil!PSecond
    <3> QED  BY <3>3, <3>4, <3>5
  <2>2. /\ Phil!Holds(id, b)'
        /\ \A g \in Phil!Forks : g # b => (Phil!Holds(id, g)' <=> Phil!Holds(id, g))
    BY <1>1, <1>2, <1>7 DEF Phil!PSecond, Phil!Holds
  <2> QED  BY <1>1, <1>4, <2>1, <2>2, Zenon
<1>8. CASE Phil!VFirst(id)
  <2>1. /\ Phil!Holds(id, a) /\ ~Phil!Holds(id, a)'
        /\ \A g \in Phil!Forks : g # a => (Phil!Holds(id, g)' <=> Phil!Holds(id, g))
    BY <1>1, <1>2, <1>8 DEF Phil!VFirst, Phil!Holds
  <2>2. locks[a] = 0
    BY <1>1, <1>2, <2>1 DEF PhilIInv, ForkInv
  <2>3. locks' = [locks EXCEPT ![a] = 1] /\ Phil!TypeOK'
    BY <1>1, <1>2, <1>8, <2>2 DEF Phil!VFirst, Phil!V
  <2> QED  BY <1>1, <1>5, <2>1, <2>3, Zenon
<1>9. CASE Phil!VSecond(id)
  <2>1. /\ Phil!Holds(id, b) /\ ~Phil!Holds(id, b)'
        /\ \A g \in Phil!Forks : g # b => (Phil!Holds(id, g)' <=> Phil!Holds(id, g))
    BY <1>1, <1>2, <1>9 DEF Phil!VSecond, Phil!Holds
  <2>2. locks[b] = 0
    BY <1>1, <1>2, <2>1 DEF PhilIInv, ForkInv
  <2>3. locks' = [locks EXCEPT ![b] = 1] /\ Phil!TypeOK'
    BY <1>1, <1>2, <1>9, <2>2 DEF Phil!VSecond, Phil!V
  <2> QED  BY <1>1, <1>5, <2>1, <2>3, Zenon
<1> QED  BY <1>6, <1>7, <1>8, <1>9 DEF Phil!Tphilosopher

\* Every step keeps the invariant.
LEMMA PhilNext == PhilIInv /\ [Phil!Next]_Phil!vars => PhilIInv'
<1> SUFFICES ASSUME PhilIInv, [Phil!Next]_Phil!vars PROVE PhilIInv'
  OBVIOUS
<1>1. CASE Phil!Next
  BY <1>1, PhilRun DEF Phil!Next
<1>2. CASE UNCHANGED Phil!vars
  BY <1>2 DEF Phil!vars, PhilIInv, Phil!TypeOK, Phil!OneHandPerFork, ForkInv, Phil!Holds
<1> QED  BY <1>1, <1>2

\* In the invariant one of the philosophers can go on: whoever holds the
\* highest fork that is taken does not wait for a higher one.
LEMMA PhilCanGo == PhilIInv => Phil!SomeoneCanGo
<1> SUFFICES ASSUME PhilIInv, ~Phil!SomeoneCanGo  PROVE FALSE
  OBVIOUS
<1> DEFINE Taken == {f \in Phil!Forks : locks[f] = 0}
<1>1. ASSUME NEW id \in Phil!Ids
      PROVE  \/ pc[id] = "P1" /\ Phil!First(id) \in Taken
             \/ pc[id] = "P2" /\ Phil!Second(id) \in Taken
  <2>1. Phil!First(id) \in Phil!Forks /\ Phil!Second(id) \in Phil!Forks
    BY <1>1, ForkOrder
  <2>2. locks[Phil!First(id)] \in {0, 1} /\ locks[Phil!Second(id)] \in {0, 1}
        /\ pc[id] \in {"P1", "P2", "V1", "V2"}
    BY <1>1, <2>1 DEF PhilIInv, Phil!TypeOK
  <2>3. ~Phil!CanGo(id)
    BY <1>1 DEF Phil!SomeoneCanGo
  <2> QED  BY <2>1, <2>2, <2>3 DEF Phil!CanGo
<1>2. Taken # {}
  <2>1. 1 \in Phil!Ids
    BY PhilosophersAssumption DEF Phil!Ids
  <2> QED  BY <1>1, <2>1
<1>3. PICK f \in Taken : \A g \in Taken : g <= f
  <2> HIDE DEF Taken
  <2> QED  BY <1>2, HighestFork, Zenon DEF Taken
<1>4. PICK id \in Phil!Ids : Phil!Holds(id, f)
  BY <1>3 DEF PhilIInv, ForkInv
<1>5. f = Phil!First(id) /\ Phil!Second(id) \in Taken
  BY <1>1, <1>4 DEF Phil!Holds
<1>6. Phil!Second(id) <= f /\ f < Phil!Second(id)
  BY <1>3, <1>5, ForkOrder
<1> QED  BY <1>5, <1>6, PhilosophersAssumption DEF Phil!Forks
-----------------------------------------------------------------------------
(* All of them, as the runs have them *)

AllIInv == /\ program \in {"pc.c", "pc-cv.c", "pc-sem.c", "philosopher.c"}
           /\ program = "pc.c" => MutexIInv
           /\ program = "pc-cv.c" => CvIInv
           /\ program = "pc-sem.c" => SemIInv
           /\ program = "philosopher.c" => PhilIInv
           /\ program # "pc-cv.c" => cv = {}

\* Whichever program is chosen starts in its invariant.
LEMMA AllInitIInv == AllInit => AllIInv
BY MutexInit, CvInit, SemInit, PhilInit DEF AllInit, AllIInv, NoMutex

\* A step of the family is a step of the program that was chosen.
LEMMA AllSteps == [AllNext]_all =>
                    /\ program' = program
                    /\ program = "pc.c" => [Mutex!Next]_Mutex!vars
                    /\ program = "pc-cv.c" => [Next]_vars
                    /\ program = "pc-sem.c" => [Sem!Next]_Sem!vars
                    /\ program = "philosopher.c" => [Phil!Next]_Phil!vars /\ depth' = depth
                    /\ program # "pc-cv.c" => cv' = cv
BY DEF AllNext, all, MutexStep, CvRun, CvSpurious, SemProducer, SemConsumer, PhilStep, Next,
       Sem!Next, vars, Mutex!vars, Sem!vars, Phil!vars

\* Every step keeps the invariant.
LEMMA AllNextIInv == AllIInv /\ [AllNext]_all => AllIInv'
BY AllSteps, MutexNext, CvNext, SemNext, PhilNext DEF AllIInv

\* The invariant of the program that runs holds in every reachable state.
THEOREM AllInvariant == AllSpec => []AllIInv
BY AllInitIInv, AllNextIInv, PTL DEF AllSpec

\* What the three programs keep count of agrees with the output: the counter
\* of pc.c and pc-cv.c whenever the mutex is free, the places of pc-sem.c
\* always, for every number of threads and every n.
THEOREM PcOutputIsAccountedFor == AllSpec => []OutputIsAccountedFor
<1>1. ASSUME AllIInv, program \in {"pc.c", "pc-cv.c"} PROVE Mutex!CountIsDepth
  BY <1>1 DEF AllIInv, MutexIInv, CvIInv, CvMutexInv, CvDepthInv, CvInside, TypeOK,
              Mutex!CountIsDepth
<1>2. AllIInv => OutputIsAccountedFor
  BY <1>1 DEF AllIInv, SemIInv, OutputIsAccountedFor
<1> QED  BY <1>2, AllInvariant, PTL

\* The threads are never all asleep: only those of pc-cv.c sleep, and its
\* broadcast loses no wakeup.
THEOREM PcNeverAllAsleep == AllSpec => []NeverAllAsleep
<1>1. AllIInv => NeverAllAsleep
  BY CvAwake, ThreadsAssumption DEF AllIInv, NeverAllAsleep, Threads
<1> QED  BY <1>1, AllInvariant, PTL

\* No fork of philosopher.c is in two hands and the philosophers never
\* deadlock, whatever their number.
THEOREM PcPhilosophersGoOn == AllSpec => []PhilosophersGoOn
<1>1. AllIInv => PhilosophersGoOn
  BY PhilCanGo DEF AllIInv, PhilIInv, PhilosophersGoOn
<1> QED  BY <1>1, AllInvariant, PTL

\* Whatever the three programs print passes pc-check.py: each of them
\* implements the stream of balanced parentheses.
THEOREM PcPassesPcCheck == AllSpec => PassesPcCheck
<1>1. AllInit => Stream!Init
  BY DEF AllInit, Mutex!Init, Init, Sem!Init, Stream!Init
<1>2. ASSUME AllIInv, AllIInv', [AllNext]_all PROVE [Stream!Next]_depth
  BY <1>2, AllSteps, MutexStream, CvStream, SemStream DEF AllIInv
<1> QED  BY <1>1, <1>2, AllInvariant, PTL DEF AllSpec, PassesPcCheck, Stream!Spec
=============================================================================
