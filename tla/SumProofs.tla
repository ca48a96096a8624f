----------------------------- MODULE SumProofs -----------------------------
(***************************************************************************)
(* Proofs about the programs that divide work among threads: the counters  *)
(* with and without a lock, the thread pool and the renderer, for every    *)
(* number of threads, increments, records and columns.  Each program has   *)
(* its own inductive invariant; the last section puts them together for    *)
(* the specification of MCSum, in which the initial state chooses the      *)
(* program.  Increments are counted as the elements of a set.              *)
(***************************************************************************)
EXTENDS MCSum, FiniteSetTheorems, TLAPS

-----------------------------------------------------------------------------
(* midterm-demo.c: the increments without a lock *)

RaceLocInv == \A t \in Threads : IF pc[t] = "done" THEN i[t] = N ELSE i[t] < N

AllDone == \A t \in Threads : pc[t] = "done"

FloorInv == /\ \A t \in Threads :
                 /\ i[t] >= 1 => sum >= 1
                 /\ pc[t] = "add" /\ i[t] >= 1 => reg[t] >= 1
                 /\ pc[t] = "store" => reg[t] >= 1
                 /\ pc[t] = "store" /\ i[t] >= 1 => reg[t] >= 2
            /\ AllDone /\ N > 1 => sum >= 2
            /\ main = "printed" => AllDone

CeilInv == /\ NeverTooMuch
           /\ \A t \in Threads :
                /\ pc[t] = "add" => reg[t] <= Cardinality(Stored)
                /\ pc[t] = "store" => reg[t] <= Cardinality(Stored) + 1

\* The inductive invariant.
RaceIInv == TypeOK /\ RaceLocInv /\ FloorInv /\ CeilInv

\* There are finitely many increments.
LEMMA StoredFinite == /\ IsFiniteSet(Stored) /\ Cardinality(Stored) \in Nat
                      /\ IsFiniteSet(Stored') /\ Cardinality(Stored') \in Nat
<1>1. IsFiniteSet(1..N)
  BY NAssumption, FS_Interval
<1>2. IsFiniteSet(Threads \X (1..N))
  BY <1>1, ThreadsAssumption, FS_Product, Zenon
<1>3. Stored \in SUBSET (Threads \X (1..N)) /\ Stored' \in SUBSET (Threads \X (1..N))
  BY DEF Stored
<1>4. IsFiniteSet(Stored) /\ IsFiniteSet(Stored')
  BY <1>2, <1>3, FS_Subset
<1> QED  BY <1>4, FS_CardinalityType

\* Nothing is stored and nothing is done at the start.
LEMMA RaceInit == Init => RaceIInv
<1> SUFFICES ASSUME Init PROVE RaceIInv
  OBVIOUS
<1> USE NAssumption DEF Init
<1>1. TypeOK /\ RaceLocInv
  BY DEF TypeOK, RaceLocInv
<1>2. FloorInv
  BY ThreadsAssumption DEF FloorInv, AllDone
<1>3. CeilInv
  BY StoredFinite DEF CeilInv, NeverTooMuch
<1> QED  BY <1>1, <1>2, <1>3 DEF RaceIInv

\* The steps of do_sum keep the invariant.
LEMMA DoSumIInv == ASSUME RaceIInv, NEW t \in Threads, do_sum(t) PROVE RaceIInv'
<1> USE NAssumption DEF RaceIInv, TypeOK, Goto
<1>1. CASE Load(t)
  <2>1. TypeOK' /\ RaceLocInv'
    BY <1>1 DEF Load, RaceLocInv
  <2>2. FloorInv'
    BY <1>1 DEF Load, FloorInv, AllDone
  <2>3. Stored' = Stored
    BY <1>1 DEF Load, Stored
  <2>4. CeilInv'
    BY <1>1, <2>3, StoredFinite DEF Load, CeilInv, NeverTooMuch
  <2> QED  BY <2>1, <2>2, <2>4
<1>2. CASE AddOne(t)
  <2>1. TypeOK' /\ RaceLocInv'
    BY <1>2 DEF AddOne, RaceLocInv
  <2>2. FloorInv'
    BY <1>2 DEF AddOne, FloorInv, AllDone
  <2>3. Stored' = Stored
    BY <1>2 DEF AddOne, Stored
  <2>4. CeilInv'
    BY <1>2, <2>3, StoredFinite DEF AddOne, CeilInv, NeverTooMuch
  <2> QED  BY <2>1, <2>2, <2>4
<1>3. CASE Store(t)
  <2>1. i[t] < N /\ i' = [i EXCEPT ![t] = i[t] + 1] /\ sum' = reg[t]
    BY <1>3 DEF Store, RaceLocInv
  <2>2. TypeOK' /\ RaceLocInv'
    BY <1>3, <2>1 DEF Store, RaceLocInv
  <2>3. FloorInv'
    <3>1. reg[t] >= 1 /\ (i[t] >= 1 => reg[t] >= 2)
      BY <1>3 DEF Store, FloorInv
    <3>2. AllDone' /\ N > 1 => i[t] >= 1
      BY <1>3, <2>1 DEF Store, AllDone
    <3>3. main' = main /\ ~AllDone
      BY <1>3 DEF Store, AllDone
    <3> QED  BY <1>3, <2>1, <3>1, <3>2, <3>3 DEF Store, FloorInv
  <2>4. Stored' = Stored \union {<<t, i[t] + 1>>} /\ <<t, i[t] + 1>> \notin Stored
    BY <2>1 DEF Stored
  <2>5. Cardinality(Stored') = Cardinality(Stored) + 1
    BY <2>4, StoredFinite, FS_AddElement
  <2>6. CeilInv'
    BY <1>3, <2>1, <2>5, StoredFinite DEF Store, CeilInv, NeverTooMuch
  <2> QED  BY <2>2, <2>3, <2>6
<1> QED  BY <1>1, <1>2, <1>3 DEF do_sum

\* Every step keeps the invariant.
LEMMA RaceNext == RaceIInv /\ [Next]_vars => RaceIInv'
<1> SUFFICES ASSUME RaceIInv, [Next]_vars PROVE RaceIInv'
  OBVIOUS
<1>1. ASSUME NEW t \in Threads, do_sum(t) PROVE RaceIInv'
  BY <1>1, DoSumIInv
<1>2. CASE Join
  BY <1>2 DEF Join, RaceIInv, TypeOK, RaceLocInv, FloorInv, CeilInv, AllDone, NeverTooMuch, Stored
<1>3. CASE UNCHANGED vars
  BY <1>3 DEF vars, RaceIInv, TypeOK, RaceLocInv, FloorInv, CeilInv, AllDone, NeverTooMuch, Stored
<1> QED  BY <1>1, <1>2, <1>3 DEF Next, Over


-----------------------------------------------------------------------------
(* sum-scalability.c: the spin lock *)

Incs == {p \in Threads \X (0..(Spin!n-1)) :
           \/ p[2] < made[p[1]]
           \/ p[2] = made[p[1]] /\ pc[p[1]] = "spin_unlock"}

\* What each location of Tsum implies.
SpinLocInv == \A t \in Threads :
                /\ Spin!InCS(t) => lock = 1
                /\ pc[t] \in {"spin_lock", "load", "store", "spin_unlock"} => made[t] < Spin!n
                /\ pc[t] = "store" => reg[t] = total
                /\ pc[t] = "done" => made[t] = Spin!n

SumInv == total = Cardinality(Incs)

SpinMainInv == /\ main \in {"assert", "exit"} => \A t \in Threads : pc[t] = "done"
               /\ main # "abort"

\* The inductive invariant.
SpinIInv == Spin!TypeOK /\ Spin!MutualExclusion /\ SpinLocInv /\ SumInv /\ SpinMainInv

\* The sizes of sets in SpinSum are those of this module.
LEMMA SpinCardinality == \A S : Spin!Cardinality(S) = Cardinality(S)
BY DEF Spin!Cardinality, Cardinality

\* N \div nthread is a natural number (sum-scalability.c:34 with nthread > 0).
LEMMA NTypes == Spin!nthread \in Nat \ {0} /\ Spin!n \in Nat
<1>1. Spin!nthread \in Nat \ {0}
  BY ThreadsAssumption, SpinCardinality, FS_CardinalityType, FS_EmptySet DEF Spin!nthread
<1> QED  BY <1>1, IncrementsAssumption DEF Spin!n

\* Incs is a finite set.
LEMMA IncsFinite == IsFiniteSet(Incs) /\ IsFiniteSet(Incs)'
<1>1. IsFiniteSet(0..(Spin!n-1))
  BY NTypes, FS_Interval
<1>2. IsFiniteSet(Threads \X (0..(Spin!n-1)))
  BY <1>1, ThreadsAssumption, FS_Product, Zenon
<1>3. Incs \in SUBSET (Threads \X (0..(Spin!n-1))) /\ Incs' \in SUBSET (Threads \X (0..(Spin!n-1)))
  BY DEF Incs
<1> QED  BY <1>2, <1>3, FS_Subset

\* The program starts in the invariant: nothing has been counted.
LEMMA SpinInit == Spin!Init => SpinIInv
<1> SUFFICES ASSUME Spin!Init PROVE SpinIInv
  OBVIOUS
<1>1. Spin!TypeOK
  BY NTypes DEF Spin!Init, Spin!TypeOK, Spin!Locs
<1>2. Spin!MutualExclusion /\ SpinLocInv /\ SpinMainInv
  BY DEF Spin!Init, Spin!MutualExclusion, SpinLocInv, SpinMainInv, Spin!InCS
<1>3. Incs = {}
  BY NTypes DEF Spin!Init, Incs
<1>4. SumInv
  BY <1>3, FS_EmptySet DEF SumInv, Spin!Init
<1> QED  BY <1>1, <1>2, <1>4 DEF SpinIInv

\* One step of one thread keeps the invariant.
LEMMA TsumIInv == ASSUME SpinIInv, NEW t \in Threads, Spin!Tsum(t) PROVE SpinIInv'
<1> USE NTypes DEF SpinIInv, Spin!TypeOK, Spin!Locs
<1>1. CASE Spin!For(t)
  <2>1. Spin!TypeOK' /\ Spin!MutualExclusion' /\ SpinLocInv' /\ SpinMainInv'
    BY <1>1 DEF Spin!For, Spin!Goto, Spin!MutualExclusion, SpinLocInv, SpinMainInv, Spin!InCS
  <2>2. Incs' = Incs
    BY <1>1 DEF Spin!For, Spin!Goto, Incs
  <2> QED  BY <1>1, <2>1, <2>2 DEF SumInv, Spin!For
<1>2. CASE Spin!SpinLock(t)
  <2>1. Spin!TypeOK' /\ Spin!MutualExclusion' /\ SpinLocInv' /\ SpinMainInv'
    BY <1>2 DEF Spin!SpinLock, Spin!Goto, Spin!MutualExclusion, SpinLocInv, SpinMainInv, Spin!InCS
  <2>2. Incs' = Incs
    BY <1>2 DEF Spin!SpinLock, Spin!Goto, Incs
  <2> QED  BY <1>2, <2>1, <2>2 DEF SumInv, Spin!SpinLock
<1>3. CASE Spin!Load(t)
  <2>1. Spin!TypeOK' /\ Spin!MutualExclusion' /\ SpinLocInv' /\ SpinMainInv'
    BY <1>3 DEF Spin!Load, Spin!Goto, Spin!MutualExclusion, SpinLocInv, SpinMainInv, Spin!InCS
  <2>2. Incs' = Incs
    BY <1>3 DEF Spin!Load, Spin!Goto, Incs
  <2> QED  BY <1>3, <2>1, <2>2 DEF SumInv, Spin!Load
<1>4. CASE Spin!Store(t)
  <2>1. Spin!TypeOK' /\ Spin!MutualExclusion' /\ SpinLocInv' /\ SpinMainInv'
    BY <1>4 DEF Spin!Store, Spin!Goto, Spin!MutualExclusion, SpinLocInv, SpinMainInv, Spin!InCS
  <2>2. Incs' = Incs \cup {<<t, made[t]>>} /\ <<t, made[t]>> \notin Incs
    BY <1>4 DEF Spin!Store, Spin!Goto, Incs, SpinLocInv
  <2>3. Cardinality(Incs') = Cardinality(Incs) + 1
    BY <2>2, IncsFinite, FS_AddElement
  <2>4. total' = total + 1
    BY <1>4 DEF Spin!Store, Spin!Goto, SpinLocInv
  <2> QED  BY <2>1, <2>3, <2>4 DEF SumInv
<1>5. CASE Spin!SpinUnlock(t)
  <2>1. Spin!TypeOK' /\ Spin!MutualExclusion' /\ SpinLocInv' /\ SpinMainInv'
    BY <1>5 DEF Spin!SpinUnlock, Spin!Goto, Spin!MutualExclusion, SpinLocInv, SpinMainInv, Spin!InCS
  <2>2. Incs' = Incs
    BY <1>5 DEF Spin!SpinUnlock, Spin!Goto, Incs
  <2> QED  BY <1>5, <2>1, <2>2 DEF SumInv, Spin!SpinUnlock
<1> QED  BY <1>1, <1>2, <1>3, <1>4, <1>5 DEF Spin!Tsum

\* When join returns, every increment has been counted.
LEMMA AllCounted == ASSUME SpinIInv, \A t \in Threads : pc[t] = "done"
                    PROVE  total = Spin!n * Spin!nthread
<1> USE NTypes DEF SpinIInv, Spin!TypeOK
<1>1. Incs = Threads \X (0..(Spin!n-1))
  BY DEF Incs, SpinLocInv
<1>2. IsFiniteSet(0..(Spin!n-1)) /\ Cardinality(0..(Spin!n-1)) = Spin!n
  BY FS_Interval
<1>3. Cardinality(Incs) = Spin!nthread * Spin!n
  BY <1>1, <1>2, ThreadsAssumption, FS_Product, SpinCardinality, ZenonT(40) DEF Spin!nthread
<1> QED  BY <1>3 DEF SumInv

\* Every step keeps the invariant.
LEMMA SpinNext == SpinIInv /\ [Spin!Next]_Spin!vars => SpinIInv'
<1> SUFFICES ASSUME SpinIInv, [Spin!Next]_Spin!vars PROVE SpinIInv'
  OBVIOUS
<1>1. ASSUME NEW t \in Threads, Spin!Tsum(t) PROVE SpinIInv'
  BY <1>1, TsumIInv
<1>2. CASE Spin!Join
  BY <1>2 DEF Spin!Join, SpinIInv, Spin!TypeOK, Spin!MutualExclusion, SpinLocInv, SumInv,
              SpinMainInv, Spin!InCS, Incs
<1>3. CASE Spin!Assert
  <2>1. total = Spin!n * Spin!nthread
    BY <1>3, AllCounted DEF Spin!Assert, SpinIInv, SpinMainInv
  <2> QED
    BY <1>3, <2>1 DEF Spin!Assert, SpinIInv, Spin!TypeOK, Spin!MutualExclusion, SpinLocInv,
                      SumInv, SpinMainInv, Spin!InCS, Incs
<1>4. CASE UNCHANGED Spin!vars
  BY <1>4 DEF Spin!vars, SpinIInv, Spin!TypeOK, Spin!MutualExclusion, SpinLocInv, SumInv,
              SpinMainInv, Spin!InCS, Incs
<1> QED  BY <1>1, <1>2, <1>3, <1>4 DEF Spin!Next, Spin!Over


-----------------------------------------------------------------------------
(* thread.h *)

PoolLocs == {"main", "pthread_create", "++tptr", "join", "pthread_join", "exited", "abort"}

\* The records that create has filled
Filled == IF mpc \in {"pthread_create", "++tptr"} THEN tptr ELSE tptr - 1

PoolTypeOK == /\ id \in [Pool!Slots -> Nat]
              /\ status \in [Pool!Slots -> {"T_FREE", "T_LIVE", "T_DEAD"}]
              /\ entry \in [Pool!Slots -> Entries \union {NoEntry}]
              /\ tptr \in 1..(Records + 1)
              /\ wanted \in Seq(Entries)
              /\ DOMAIN runs = Pool!Slots
              /\ thread \in [Pool!Slots -> {"none", "start", "entry", "done", "joined"}]
              /\ mpc \in PoolLocs
              /\ slot \in 1..(Records + 1)

\* A filled record stays as it is but for its status, and the threads are
\* those of the filled records.
RecordInv == /\ Len(wanted) = Filled /\ Filled <= Records
             /\ \A k \in Pool!Slots : k <= Filled => id[k] = k /\ entry[k] = wanted[k]
             /\ \A k \in Pool!Slots : k > Filled <=> status[k] = "T_FREE"
             /\ \A k \in Pool!Slots : status[k] = "T_DEAD" <=> thread[k] = "joined"
             /\ \A k \in Pool!Slots : thread[k] = "none" <=>
                                          k > Filled \/ (mpc = "pthread_create" /\ k = tptr)
             /\ \A k \in Pool!Slots : runs[k] = IF thread[k] \in {"none", "start"} THEN << >>
                                                ELSE <<k, wanted[k]>>

JoinInv == /\ mpc = "pthread_join" => slot \in Pool!Slots /\ status[slot] = "T_LIVE"
           /\ mpc \in {"join", "pthread_join"} =>
                \A k \in Pool!Slots : k < slot => thread[k] \in {"none", "joined"}
           /\ mpc = "exited" => \A k \in Pool!Slots : thread[k] \in {"none", "joined"}

\* The inductive invariant
PoolIInv == PoolTypeOK /\ RecordInv /\ JoinInv

\* The pool starts in the invariant: no thread has been created.
LEMMA PoolInit == Pool!Init => PoolIInv
BY RecordsAssumption
DEF Pool!Init, PoolIInv, PoolTypeOK, RecordInv, JoinInv, Filled, PoolLocs, Pool!Slots

\* Every step of main and of every wrapper keeps the invariant.
LEMMA PoolNext == PoolIInv /\ [Pool!Next]_Pool!vars => PoolIInv'
<1> SUFFICES ASSUME PoolIInv, [Pool!Next]_Pool!vars PROVE PoolIInv'
  OBVIOUS
<1> USE RecordsAssumption DEF PoolIInv, Pool!Goto, Pool!poolVars
<1>1. ASSUME NEW fn \in Entries, Pool!Fill(fn) PROVE PoolIInv'
  <2>1. /\ mpc = "main" /\ mpc' = "pthread_create" /\ tptr \in Pool!Slots /\ tptr' = tptr
        /\ id' = [id EXCEPT ![tptr] = tptr]
        /\ status' = [status EXCEPT ![tptr] = "T_LIVE"]
        /\ entry' = [entry EXCEPT ![tptr] = fn]
        /\ wanted' = Append(wanted, fn)
        /\ UNCHANGED <<runs, thread, slot>>
    BY <1>1 DEF Pool!Fill, PoolTypeOK, Pool!Slots
  <2>2. Filled = tptr - 1 /\ Filled' = tptr /\ tptr \in Nat /\ tptr <= Records
    BY <2>1 DEF Filled, PoolTypeOK, Pool!Slots
  <2>3. /\ wanted' \in Seq(Entries) /\ Len(wanted') = tptr /\ wanted'[tptr] = fn
        /\ \A k \in Pool!Slots : k < tptr => wanted'[k] = wanted[k]
    BY <2>1, <2>2 DEF PoolTypeOK, RecordInv, Pool!Slots
  <2>4. PoolTypeOK'
    <3>1. id' \in [Pool!Slots -> Nat] /\ status' \in [Pool!Slots -> {"T_FREE", "T_LIVE", "T_DEAD"}]
          /\ entry' \in [Pool!Slots -> Entries \union {NoEntry}]
      BY <2>1, <2>2 DEF PoolTypeOK
    <3>2. mpc' \in PoolLocs
      BY <2>1 DEF PoolLocs
    <3> QED  BY <2>1, <2>3, <3>1, <3>2, Zenon DEF PoolTypeOK
  <2>5. RecordInv'
    <3>1. /\ Len(wanted') = Filled' /\ Filled' <= Records
      BY <2>2, <2>3
    <3>2. \A k \in Pool!Slots : k <= Filled' => id'[k] = k /\ entry'[k] = wanted'[k]
      BY <2>1, <2>2, <2>3 DEF PoolTypeOK, RecordInv, Pool!Slots
    <3>3. \A k \in Pool!Slots : k > Filled' <=> status'[k] = "T_FREE"
      BY <2>1, <2>2 DEF PoolTypeOK, RecordInv, Pool!Slots
    <3>4. \A k \in Pool!Slots : status'[k] = "T_DEAD" <=> thread'[k] = "joined"
      BY <2>1, <2>2 DEF PoolTypeOK, RecordInv, Pool!Slots
    <3>5. \A k \in Pool!Slots : thread'[k] = "none" <=>
                                  k > Filled' \/ (mpc' = "pthread_create" /\ k = tptr')
      BY <2>1, <2>2 DEF PoolTypeOK, RecordInv, Pool!Slots
    <3>6. \A k \in Pool!Slots : runs'[k] = IF thread'[k] \in {"none", "start"} THEN << >>
                                                ELSE <<k, wanted'[k]>>
      BY <2>1, <2>2, <2>3 DEF PoolTypeOK, RecordInv, Pool!Slots
    <3> QED  BY <3>1, <3>2, <3>3, <3>4, <3>5, <3>6 DEF RecordInv
  <2>6. JoinInv'
    BY <2>1 DEF JoinInv
  <2> QED  BY <2>4, <2>5, <2>6
<1>2. CASE Pool!OutOfSlots
  <2>1. Filled' = Filled
    BY <1>2 DEF Pool!OutOfSlots, Filled
  <2> QED  BY <1>2, <2>1 DEF Pool!OutOfSlots, PoolTypeOK, RecordInv, JoinInv, PoolLocs
<1>3. CASE Pool!PthreadCreate
  <2>1. Filled = tptr /\ Filled' = tptr /\ tptr \in Pool!Slots
    BY <1>3 DEF Pool!PthreadCreate, Filled, RecordInv, PoolTypeOK, Pool!Slots
  <2>2. PoolTypeOK'
    BY <1>3, <2>1 DEF Pool!PthreadCreate, PoolTypeOK, PoolLocs
  <2>3. RecordInv'
    BY <1>3, <2>1 DEF Pool!PthreadCreate, PoolTypeOK, RecordInv, Pool!Slots
  <2>4. JoinInv'
    BY <1>3 DEF Pool!PthreadCreate, JoinInv
  <2> QED  BY <2>2, <2>3, <2>4
<1>4. CASE Pool!Advance
  <2>1. Filled = tptr /\ Filled' = tptr /\ tptr' = tptr + 1 /\ tptr \in Pool!Slots
    BY <1>4 DEF Pool!Advance, Filled, RecordInv, PoolTypeOK, Pool!Slots
  <2>2. PoolTypeOK'
    BY <1>4, <2>1 DEF Pool!Advance, PoolTypeOK, PoolLocs, Pool!Slots
  <2>3. RecordInv'
    BY <1>4, <2>1 DEF Pool!Advance, PoolTypeOK, RecordInv
  <2>4. JoinInv'
    BY <1>4 DEF Pool!Advance, JoinInv
  <2> QED  BY <2>2, <2>3, <2>4
<1>5. ASSUME NEW k \in Pool!Slots, Pool!CallEntry(k) PROVE PoolIInv'
  <2>1. Filled' = Filled /\ k <= Filled /\ id[k] = k /\ entry[k] = wanted[k]
    BY <1>5 DEF Pool!CallEntry, Filled, RecordInv, PoolTypeOK, Pool!Slots
  <2>2. PoolTypeOK'
    BY <1>5 DEF Pool!CallEntry, PoolTypeOK
  <2>3. RecordInv'
    BY <1>5, <2>1, ZenonT(40) DEF Pool!CallEntry, PoolTypeOK, RecordInv
  <2>4. JoinInv'
    BY <1>5 DEF Pool!CallEntry, PoolTypeOK, JoinInv
  <2> QED  BY <2>2, <2>3, <2>4
<1>6. ASSUME NEW k \in Pool!Slots, Pool!EntryReturns(k) PROVE PoolIInv'
  <2>1. Filled' = Filled
    BY <1>6 DEF Pool!EntryReturns, Filled
  <2>2. PoolTypeOK'
    BY <1>6 DEF Pool!EntryReturns, PoolTypeOK
  <2>3. RecordInv'
    BY <1>6, <2>1 DEF Pool!EntryReturns, PoolTypeOK, RecordInv
  <2>4. JoinInv'
    BY <1>6 DEF Pool!EntryReturns, PoolTypeOK, JoinInv
  <2> QED  BY <2>2, <2>3, <2>4
<1>7. CASE Pool!CallJoin \/ Pool!PassBy \/ Pool!SeesLive \/ Pool!JoinReturns
  <2>1. /\ \/ mpc = "main" /\ mpc' = "join" /\ slot' = 1
           \/ /\ mpc = "join" /\ mpc' = "join" /\ slot' = slot + 1
              /\ slot <= Records /\ status[slot] # "T_LIVE"
           \/ /\ mpc = "join" /\ mpc' = "pthread_join" /\ slot' = slot
              /\ slot <= Records /\ status[slot] = "T_LIVE"
           \/ mpc = "join" /\ mpc' \in {"main", "exited"} /\ slot' = slot /\ slot > Records
        /\ UNCHANGED <<id, status, entry, tptr, wanted, runs, thread>>
    BY <1>7, Zenon DEF Pool!CallJoin, Pool!PassBy, Pool!SeesLive, Pool!JoinReturns
  <2>2. Filled' = Filled
    BY <2>1 DEF Filled
  <2>3. PoolTypeOK'
    <3>1. slot' \in 1..(Records + 1)
      BY <2>1 DEF PoolTypeOK, Pool!Slots
    <3>2. mpc' \in PoolLocs
      BY <2>1 DEF PoolLocs
    <3> QED  BY <2>1, <3>1, <3>2, Zenon DEF PoolTypeOK
  <2>4. RecordInv'
    BY <2>1, <2>2 DEF RecordInv
  <2>5. JoinInv'
    <3>1. slot \in Pool!Slots /\ status[slot] # "T_LIVE" => thread[slot] \in {"none", "joined"}
      BY <2>1 DEF RecordInv, PoolTypeOK, Pool!Slots, Filled
    <3>2. /\ slot \in Nat \ {0} /\ (slot <= Records => slot \in Pool!Slots)
          /\ \A k \in Pool!Slots : k \in Nat \ {0} /\ k <= Records
      BY DEF PoolTypeOK, Pool!Slots
    <3>3. mpc' = "pthread_join" => slot' \in Pool!Slots /\ status'[slot'] = "T_LIVE"
      BY <2>1, <3>2
    <3>4. \A k \in Pool!Slots :
            mpc' \in {"join", "pthread_join"} /\ k < slot' => thread'[k] \in {"none", "joined"}
      BY <2>1, <3>1, <3>2 DEF JoinInv
    <3>5. mpc' = "exited" => \A k \in Pool!Slots : thread'[k] \in {"none", "joined"}
      BY <2>1, <3>2 DEF JoinInv
    <3> QED  BY <3>3, <3>4, <3>5 DEF JoinInv
  <2> QED  BY <2>3, <2>4, <2>5
<1>8. CASE Pool!PthreadJoin
  <2>1. /\ mpc = "pthread_join" /\ mpc' = "join" /\ thread[slot] = "done" /\ slot \in Pool!Slots
        /\ thread' = [thread EXCEPT ![slot] = "joined"]
        /\ status' = [status EXCEPT ![slot] = "T_DEAD"]
        /\ slot' = slot + 1
        /\ UNCHANGED <<id, entry, tptr, wanted, runs>>
    BY <1>8 DEF Pool!PthreadJoin, JoinInv
  <2>2. Filled' = Filled
    BY <2>1 DEF Filled
  <2>3. PoolTypeOK'
    BY <2>1 DEF PoolTypeOK, PoolLocs, Pool!Slots
  <2>4. RecordInv'
    BY <2>1, <2>2 DEF RecordInv, PoolTypeOK
  <2>5. JoinInv'
    BY <2>1 DEF JoinInv, PoolTypeOK, Pool!Slots
  <2> QED  BY <2>3, <2>4, <2>5
<1>9. CASE UNCHANGED Pool!vars
  <2>1. Filled' = Filled
    BY <1>9 DEF Pool!vars, Filled
  <2> QED  BY <1>9, <2>1, SMTT(20) DEF Pool!vars, PoolTypeOK, RecordInv, JoinInv
<1> QED
  BY <1>1, <1>2, <1>3, <1>4, <1>5, <1>6, <1>7, <1>8, <1>9
  DEF Pool!Next, Pool!create, Pool!join, Pool!wrapper, Pool!Over

\* The invariant says that every thread has its own record and that cleanup
\* joins each thread once and leaves none.
LEMMA PoolIsSafe == PoolIInv => Pool!OwnRecord /\ Pool!JoinedOnce /\ Pool!NobodyLeft
<1> SUFFICES ASSUME PoolIInv PROVE Pool!OwnRecord /\ Pool!JoinedOnce /\ Pool!NobodyLeft
  OBVIOUS
<1>1. Pool!OwnRecord
  BY Zenon DEF PoolIInv, RecordInv, Pool!OwnRecord
<1>2. Pool!JoinedOnce
  <2>1. ASSUME mpc = "pthread_join" PROVE thread[slot] \in {"start", "entry", "done"}
    <3>1. slot \in Pool!Slots /\ status[slot] = "T_LIVE"
      BY <2>1 DEF PoolIInv, JoinInv
    <3>2. thread[slot] \notin {"none", "joined"}
      BY <2>1, <3>1 DEF PoolIInv, RecordInv
    <3> QED  BY <3>1, <3>2 DEF PoolIInv, PoolTypeOK
  <2> QED  BY <2>1 DEF Pool!JoinedOnce
<1>3. Pool!NobodyLeft
  BY DEF PoolIInv, JoinInv, Pool!NobodyLeft
<1> QED  BY <1>1, <1>2, <1>3

-----------------------------------------------------------------------------
(* mandelbrot.c *)

\* The workers that have counted themselves
Counted == {t \in Man!Workers : at[t] = "end"}

ManTypeOK == /\ NT \in 0..Width
             /\ x \in SUBSET Nat
             /\ col \in [Man!Workers -> 0..Width]
             /\ load \in [Man!Workers -> Nat]
             /\ done \in Nat
             /\ at \in [0..NT -> {"while", "fopen", "for", "done++", "end"}]
             /\ at[0] \in {"while", "fopen", "end"}
             /\ \A t \in Man!Workers : at[t] \in {"for", "done++", "end"}

\* Lost increments only make done smaller.
CountInv == /\ done <= Cardinality(Counted)
            /\ \A t \in Man!Workers : at[t] = "done++" => load[t] <= Cardinality(Counted)

\* The columns of worker t, which counts from 1
Columns(t) == {c \in 0..(Width - 1) : Man!belongs(c, t - 1)}

ColumnInv == /\ \A t \in Man!Workers : at[t] # "for" => col[t] = Width
             /\ \A c : c \in x <=> \E t \in Man!Workers : c \in Columns(t) /\ c < col[t]

ShownInv == /\ at[0] # "while" => \A t \in Man!Workers : at[t] = "end"
            /\ image # << >> => at[0] = "end" /\ image = <<Man!display(2)>>

\* The inductive invariant
ManIInv == ManTypeOK /\ CountInv /\ ColumnInv /\ ShownInv

\* There are finitely many workers.
LEMMA ManFinite == ASSUME ManTypeOK
                   PROVE  /\ IsFiniteSet(Man!Workers) /\ Cardinality(Man!Workers) = NT
                          /\ Counted \in SUBSET Man!Workers
                          /\ IsFiniteSet(Counted) /\ Cardinality(Counted) \in Nat
<1>1. IsFiniteSet(Man!Workers) /\ Cardinality(Man!Workers) = NT
  BY FS_Interval, WidthAssumption DEF ManTypeOK, Man!Workers
<1>2. Counted \in SUBSET Man!Workers
  BY DEF Counted
<1> QED  BY <1>1, <1>2, FS_Subset, FS_CardinalityType

\* done reaches NT only when every worker is through.
LEMMA DoneMeansAll == ASSUME ManIInv, done = NT PROVE \A t \in Man!Workers : at[t] = "end"
<1>1. ManTypeOK /\ done <= Cardinality(Counted)
  BY DEF ManIInv, CountInv
<1>2. /\ IsFiniteSet(Man!Workers) /\ Cardinality(Man!Workers) = NT
      /\ Counted \in SUBSET Man!Workers /\ Cardinality(Counted) \in Nat
  BY <1>1, ManFinite
<1>3. Cardinality(Counted) <= NT
  BY <1>2, FS_Subset
<1>4. Cardinality(Counted) = Cardinality(Man!Workers)
  BY <1>1, <1>2, <1>3 DEF ManTypeOK
<1>5. Counted = Man!Workers
  BY <1>2, <1>4, FS_Subset
<1> QED  BY <1>5 DEF Counted

\* The renderer starts in the invariant: no column is rendered.
LEMMA ManInit == Man!Init => ManIInv
<1> SUFFICES ASSUME Man!Init PROVE ManIInv
  OBVIOUS
<1> USE WidthAssumption DEF Man!Init, Man!Workers, Man!Tdisplay
<1>1. ManTypeOK
  BY DEF ManTypeOK
<1>2. CountInv
  BY <1>1, ManFinite DEF CountInv
<1>3. ColumnInv
  BY DEF ColumnInv, Columns
<1>4. ShownInv
  BY DEF ShownInv
<1> QED  BY <1>1, <1>2, <1>3, <1>4 DEF ManIInv

\* One step of one worker keeps the invariant.
LEMMA ManWorkerIInv == ASSUME ManIInv, NEW t \in Man!Workers, Man!Tworker(t) PROVE ManIInv'
<1> USE DEF ManIInv, Man!Goto
<1>1. /\ t \in 1..NT /\ t \in 0..NT /\ t # 0 /\ NT \in Nat /\ at[0] = "while"
      /\ Width \in Nat /\ col[t] \in 0..Width
  <2>1. at[t] # "end"
    BY DEF Man!Tworker, Man!Render, Man!Load, Man!Store
  <2> QED  BY <2>1, WidthAssumption DEF Man!Workers, ManTypeOK, ShownInv
<1>2. CASE Man!Render(t)
  <2>1. /\ at[t] = "for" /\ at' = at /\ col[t] < Width /\ col' = [col EXCEPT ![t] = col[t] + 1]
        /\ x' = (IF Man!belongs(col[t], t - 1) THEN x \union {col[t]} ELSE x)
        /\ UNCHANGED <<NT, load, done, image>>
    <3>1. /\ at' = [at EXCEPT ![t] = "for"] /\ at[t] = "for"
          /\ at \in [0..NT -> {"while", "fopen", "for", "done++", "end"}]
      BY <1>2 DEF Man!Render, ManTypeOK
    <3>2. at' = at
      BY <3>1
    <3> QED  BY <1>2, <3>1, <3>2 DEF Man!Render
  <2>2. Man!Workers' = Man!Workers /\ Counted' = Counted /\ \A s : Columns(s)' = Columns(s)
    BY <2>1 DEF Man!Workers, Counted, Columns, Man!belongs
  <2>3. ManTypeOK'
    <3>1. col' \in [Man!Workers -> 0..Width]
      BY <1>1, <2>1 DEF ManTypeOK
    <3>2. x' \in SUBSET Nat
      <4>1. x' = x \/ x' = x \union {col[t]}
        BY <2>1, Zenon
      <4>2. col[t] \in Nat /\ x \in SUBSET Nat
        BY <1>1 DEF ManTypeOK
      <4> QED  BY <4>1, <4>2, Zenon
    <3> QED  BY <2>1, <2>2, <3>1, <3>2, Zenon DEF ManTypeOK
  <2>4. CountInv'
    BY <2>1, <2>2 DEF CountInv
  <2>5. ColumnInv'
    <3>1. \A s \in Man!Workers : at'[s] # "for" => col'[s] = Width
      BY <2>1 DEF ColumnInv, ManTypeOK
    <3>2. /\ col'[t] = col[t] + 1 /\ \A s \in Man!Workers : s # t => col'[s] = col[s]
          /\ \A s \in Man!Workers : col[s] \in Nat
      BY <2>1 DEF ManTypeOK
    <3>3. \A c : c \in Columns(t) => c \in Nat
      BY DEF Columns
    <3>4. \A c : c \in Columns(t) /\ c < col'[t] <=>
                  c \in Columns(t) /\ (c < col[t] \/ c = col[t])
      BY <1>1, <3>2, <3>3
    <3>5. Man!belongs(col[t], t - 1) <=> col[t] \in Columns(t)
      BY <1>1, <2>1 DEF Columns
    <3>6. \A c : c \in x' <=> \E s \in Man!Workers : c \in Columns(s) /\ c < col'[s]
      <4>1. \A c : c \in x' <=> c \in x \/ (c = col[t] /\ c \in Columns(t))
        BY <2>1, <3>5
      <4>2. \A c : c \in x <=> \E s \in Man!Workers : c \in Columns(s) /\ c < col[s]
        BY DEF ColumnInv
      <4>3. ASSUME NEW c, c \in x' PROVE \E s \in Man!Workers : c \in Columns(s) /\ c < col'[s]
        BY <3>2, <3>4, <4>1, <4>2, <4>3
      <4>4. ASSUME NEW c, NEW s \in Man!Workers, c \in Columns(s), c < col'[s] PROVE c \in x'
        BY <3>2, <3>4, <4>1, <4>2, <4>4
      <4> QED  BY <4>3, <4>4
    <3> QED  BY <2>2, <3>1, <3>6 DEF ColumnInv
  <2>6. ShownInv'
    BY <1>1, <2>1, <2>2 DEF ShownInv
  <2> QED  BY <2>3, <2>4, <2>5, <2>6
<1>3. CASE Man!Load(t)
  <2>1. /\ at[t] = "for" /\ at' = [at EXCEPT ![t] = "done++"] /\ col[t] = Width
        /\ load' = [load EXCEPT ![t] = done]
        /\ UNCHANGED <<NT, x, col, done, image>>
    BY <1>3 DEF Man!Load
  <2>2. Man!Workers' = Man!Workers /\ Counted' = Counted /\ \A s : Columns(s)' = Columns(s)
    BY <1>1, <2>1 DEF Man!Workers, Counted, Columns, Man!belongs, ManTypeOK
  <2>3. ManTypeOK'
    BY <1>1, <2>1, <2>2 DEF ManTypeOK
  <2>4. CountInv'
    BY <1>1, <2>1, <2>2, SMTT(20) DEF CountInv, ManTypeOK
  <2>5. ColumnInv'
    BY <1>1, <2>1, <2>2 DEF ColumnInv, ManTypeOK
  <2>6. ShownInv'
    BY <1>1, <2>1, <2>2 DEF ShownInv, ManTypeOK
  <2> QED  BY <2>3, <2>4, <2>5, <2>6
<1>4. CASE Man!Store(t)
  <2>1. /\ at[t] = "done++" /\ at' = [at EXCEPT ![t] = "end"] /\ done' = load[t] + 1
        /\ UNCHANGED <<NT, x, col, load, image>>
    BY <1>4 DEF Man!Store
  <2>2. Man!Workers' = Man!Workers /\ \A s : Columns(s)' = Columns(s)
    BY <2>1 DEF Man!Workers, Columns, Man!belongs
  <2>3. Counted' = Counted \union {t} /\ t \notin Counted
    BY <1>1, <2>1, <2>2 DEF Counted, ManTypeOK, Man!Workers
  <2>4. Cardinality(Counted') = Cardinality(Counted) + 1 /\ Cardinality(Counted) \in Nat
    BY <2>3, ManFinite, FS_AddElement, Zenon
  <2>5. ManTypeOK'
    BY <1>1, <2>1, <2>2 DEF ManTypeOK
  <2>6. CountInv'
    BY <1>1, <2>1, <2>2, <2>4, SMTT(20) DEF CountInv, ManTypeOK, Man!Workers
  <2>7. ColumnInv'
    BY <1>1, <2>1, <2>2, SMTT(20) DEF ColumnInv, ManTypeOK
  <2>8. ShownInv'
    BY <1>1, <2>1, <2>2, SMTT(20) DEF ShownInv, ManTypeOK
  <2> QED  BY <2>5, <2>6, <2>7, <2>8
<1> QED  BY <1>2, <1>3, <1>4 DEF Man!Tworker

\* Every step keeps the invariant.
LEMMA ManNext == ManIInv /\ [Man!Next]_Man!vars => ManIInv'
<1> SUFFICES ASSUME ManIInv, [Man!Next]_Man!vars PROVE ManIInv'
  OBVIOUS
<1>1. ASSUME NEW t \in Man!Workers, Man!Tworker(t) PROVE ManIInv'
  BY <1>1, ManWorkerIInv
<1>2. ASSUME Man!Break \/ Man!WriteImage \/ UNCHANGED Man!vars PROVE ManIInv'
  <2>1. /\ \/ at[0] = "while" /\ at' = [at EXCEPT ![0] = "fopen"] /\ done = NT /\ image' = image
           \/ at[0] = "fopen" /\ at' = [at EXCEPT ![0] = "end"] /\ image' = <<Man!display(2)>>
           \/ at' = at /\ image' = image
        /\ UNCHANGED <<NT, x, col, load, done>>
    BY <1>2 DEF Man!Break, Man!WriteImage, Man!vars, Man!Goto, Man!Tdisplay
  <2>2. /\ NT \in Nat /\ Man!Workers' = Man!Workers
        /\ \A s : Columns(s)' = Columns(s)
        /\ \A t \in Man!Workers : t \in 0..NT /\ t # 0 /\ at'[t] = at[t]
        /\ Man!display(2)' = Man!display(2)
    BY <2>1 DEF Man!Workers, Columns, Man!belongs, Man!display, ManIInv, ManTypeOK
  <2>3. Counted' = Counted
    BY <2>2 DEF Counted
  <2>4. ManTypeOK'
    BY <2>1, <2>2 DEF ManIInv, ManTypeOK
  <2>5. CountInv' /\ ColumnInv'
    BY <2>1, <2>2, <2>3 DEF ManIInv, CountInv, ColumnInv
  <2>6. ShownInv'
    <3>1. done = NT => \A t \in Man!Workers : at[t] = "end"
      BY DoneMeansAll
    <3>2. at'[0] \in {"while", "fopen", "end"}
      BY <2>4 DEF ManTypeOK
    <3>3. 0 \in 0..NT
      BY <2>2
    <3> QED  BY <2>1, <2>2, <3>1, <3>2, <3>3 DEF ManIInv, ShownInv, ManTypeOK
  <2> QED  BY <2>4, <2>5, <2>6 DEF ManIInv
<1> QED  BY <1>1, <1>2 DEF Man!Next, Man!Display

\* The columns below n * d are those whose quotient by d is below n.
LEMMA Quotients == ASSUME NEW c \in Nat, NEW d \in Nat \ {0}, NEW n0 \in Nat
                   PROVE  /\ c \div d \in Nat
                          /\ c \div d < n0 <=> c < n0 * d
<1> DEFINE q == c \div d
<1>1. q \in Nat /\ q * d <= c /\ c < (q + 1) * d
  OBVIOUS
<1> HIDE DEF q
<1>2. ASSUME q < n0 PROVE c < n0 * d
  <2>1. (q + 1) * d <= n0 * d
    BY <1>1, <1>2
  <2> QED  BY <1>1, <2>1
<1>3. ASSUME q >= n0 PROVE c >= n0 * d
  <2>1. n0 * d <= q * d
    BY <1>1, <1>3
  <2> QED  BY <1>1, <2>1
<1> QED  BY <1>1, <1>2, <1>3 DEF q

\* The file has those columns that display writes and that belong to a worker.
LEMMA ManImage == ManIInv => Man!ImageIsComplete
<1> DEFINE Rendered == IF NT = 0 THEN {} ELSE 0..(NT * (Width \div NT) - 1)
<1> SUFFICES ASSUME ManIInv, image # << >>
             PROVE  image[1] = {c \in Rendered : c % 2 = 0}
  BY Zenon DEF Man!ImageIsComplete
<1>1. image = <<Man!display(2)>> /\ \A t \in Man!Workers : at[t] = "end"
  BY DEF ManIInv, ShownInv
<1>2. \A t \in Man!Workers : col[t] = Width
  BY <1>1 DEF ManIInv, ColumnInv
<1>3. \A c : c \in x <=> \E t \in Man!Workers : c \in Columns(t) /\ c < Width
  BY <1>2 DEF ManIInv, ColumnInv
<1>4. NT \in 0..Width /\ Width \in Nat
  BY WidthAssumption DEF ManIInv, ManTypeOK
<1>5. ASSUME NT = 0 PROVE x = Rendered
  <2>1. x = {}
    BY <1>3, <1>5 DEF Man!Workers
  <2> QED  BY <1>5, <2>1
<1>6. ASSUME NT # 0 PROVE x = Rendered
  <2> DEFINE d == Width \div NT
  <2>1. d \in Nat \ {0} /\ NT * d <= Width /\ NT \in Nat \ {0}
    BY <1>4, <1>6
  <2>2. \A c, t : Man!belongs(c, t) <=> c \div d = t
    BY DEF Man!belongs
  <2> HIDE DEF d
  <2>3. ASSUME NEW c, c \in x PROVE c \in 0..(NT * d - 1)
    <3>1. PICK t \in Man!Workers : c \in Columns(t)
      BY <1>3, <2>3
    <3>2. c \in Nat /\ c \div d = t - 1 /\ t - 1 < NT
      BY <1>4, <2>2, <3>1 DEF Columns, Man!Workers
    <3>3. c < NT * d
      BY <2>1, <3>2, Quotients
    <3> QED  BY <2>1, <3>2, <3>3
  <2>4. ASSUME NEW c \in 0..(NT * d - 1) PROVE c \in x
    <3>1. c \in Nat /\ c < NT * d /\ c < Width /\ NT * d \in Nat
      BY <1>4, <2>1
    <3>2. c \div d \in Nat /\ c \div d < NT
      BY <2>1, <3>1, Quotients
    <3>3. (c \div d) + 1 \in Man!Workers
      BY <2>1, <3>2 DEF Man!Workers
    <3>4. c \in Columns((c \div d) + 1)
      BY <1>4, <2>2, <3>1, <3>2 DEF Columns
    <3> QED  BY <1>3, <3>1, <3>3, <3>4
  <2>5. x = 0..(NT * d - 1)
    BY <2>3, <2>4, Zenon
  <2> QED  BY <1>6, <2>5 DEF d
<1>7. x = Rendered
  BY <1>5, <1>6
<1>8. image[1] = Man!display(2)
  BY <1>1
<1> QED  BY <1>7, <1>8, Zenon DEF Man!display

-----------------------------------------------------------------------------
(* All of them, as the run has them *)

AllIInv ==
  /\ program \in {"unlocked", "spin", "pool", "mandelbrot"}
  /\ program = "unlocked" => RaceIInv
  /\ program # "unlocked" => sum = 0 /\ main # "printed"
  /\ program = "spin" => SpinIInv
  /\ program = "pool" => PoolIInv
  /\ program = "mandelbrot" => ManIInv

\* Whichever program is chosen starts in its invariant.
LEMMA AllInitIInv == AllInit => AllIInv
<1> SUFFICES ASSUME AllInit PROVE AllIInv
  OBVIOUS
<1>1. /\ program \in {"unlocked", "spin", "pool", "mandelbrot"}
      /\ program = "unlocked" => Init
      /\ program = "spin" => Spin!Init /\ sum = 0
      /\ program \notin {"unlocked", "spin"} => Init
      /\ program = "pool" => Pool!Init
      /\ program = "mandelbrot" => Man!Init
  BY Zenon DEF AllInit
<1>2. program # "unlocked" => sum = 0 /\ main # "printed"
  BY <1>1 DEF Init, Spin!Init
<1> QED  BY <1>1, <1>2, RaceInit, SpinInit, PoolInit, ManInit DEF AllIInv

\* A step of the family is a step of the program that was chosen.
LEMMA AllSteps ==
  [AllNext]_all =>
    /\ program' = program
    /\ program = "unlocked" => [Next]_vars
    /\ program # "unlocked" => sum' = sum
    /\ program \notin {"unlocked", "spin"} => main' = main
    /\ program = "spin" => [Spin!Next]_Spin!vars
    /\ program = "pool" => [Pool!Next]_Pool!vars
    /\ program = "mandelbrot" => [Man!Next]_Man!vars
<1>1. CASE UNCHANGED all
  BY <1>1 DEF all, spinVars, poolVars, manVars, vars, Spin!vars, Pool!vars, Pool!poolVars, Man!vars
<1>2. CASE AllNext
  BY <1>1, <1>2 DEF AllNext, Unlocked, Spinning, Pooling, InMan, ImageShownForEver, vars
<1> QED  BY <1>1, <1>2

\* Every step keeps the invariant.
LEMMA AllNextIInv == AllIInv /\ [AllNext]_all => AllIInv'
<1> SUFFICES ASSUME AllIInv, [AllNext]_all PROVE AllIInv'
  OBVIOUS
<1>1. /\ program' = program
      /\ program = "unlocked" => RaceIInv'
      /\ program = "spin" => SpinIInv'
      /\ program = "pool" => PoolIInv'
      /\ program = "mandelbrot" => ManIInv'
  BY AllSteps, RaceNext, SpinNext, PoolNext, ManNext DEF AllIInv
<1>2. program # "unlocked" => sum' = 0 /\ main' # "printed"
  BY <1>1, AllSteps DEF AllIInv, SpinIInv, Spin!TypeOK
<1> QED  BY <1>1, <1>2 DEF AllIInv

\* The invariant of the program that runs holds in every reachable state.
THEOREM SumInvariant == AllSpec => []AllIInv
BY AllInitIInv, AllNextIInv, PTL DEF AllSpec

\* However many threads run do_sum, with however many increments each, the
\* racing counter never runs ahead of the increments that were stored, and
\* what is printed is at least 2 if each makes two or more.
THEOREM SumUpdatesLostWithinBounds == AllSpec => []UpdatesLostWithinBounds
<1>1. AllIInv => UpdatesLostWithinBounds
  BY StoredFinite, SMTT(20)
  DEF AllIInv, RaceIInv, CeilInv, FloorInv, NeverTooMuch, AtLeastTwo, UpdatesLostWithinBounds
<1> QED  BY <1>1, SumInvariant, PTL

\* The spin lock of thread-sync.h lets at most one thread in, and
\* assert(sum == n * nthread) of sum-scalability.c never fails, whatever the
\* number of threads and of increments.
THEOREM SumSpinLockWorks == AllSpec => []SpinLockWorks
<1>1. AllIInv => SpinLockWorks
  BY DEF AllIInv, SpinIInv, SpinMainInv, Spin!AssertHolds, SpinLockWorks
<1> QED  BY <1>1, SumInvariant, PTL

\* However many records the pool has and however its functions are called:
\* every thread runs what it was created for, and cleanup joins no thread
\* twice and leaves none.
THEOREM SumPoolWorks == AllSpec => []PoolWorks
<1>1. AllIInv => PoolWorks
  BY PoolIsSafe DEF AllIInv, PoolWorks
<1> QED  BY <1>1, SumInvariant, PTL

\* Whatever the width of the image and the number of threads, the file that
\* mandelbrot.c writes has all the columns rendered that display writes and
\* that belong to a thread.
THEOREM SumImageIsComplete == AllSpec => []ImageIsComplete
<1>1. AllIInv => ImageIsComplete
  BY ManImage DEF AllIInv, ImageIsComplete
<1> QED  BY <1>1, SumInvariant, PTL
=============================================================================
