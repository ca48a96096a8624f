--------------------------- MODULE MidtermProofs ---------------------------
(***************************************************************************)
(* Proofs about the midterm programs that add up the numbers on stdin, for *)
(* every number of threads and of slots and everything that may be on      *)
(* stdin.  Each program has its own inductive invariant, in which sum, the *)
(* numbers in the hands of threads and those still to be read make up the  *)
(* total; the last section puts them together for the specification of     *)
(* MCMidterm.                                                              *)
(*                                                                         *)
(* Nothing is added up by recursion: a sum is the number of its units.     *)
(***************************************************************************)
EXTENDS MCMidterm, FiniteSetTheorems, TLAPS

-----------------------------------------------------------------------------
(* Sums of natural numbers *)

\* There are v units of the number v.
LEMMA ColumnSize == ASSUME NEW k, NEW v \in Nat
                    PROVE  IsFiniteSet({k} \X (1..v)) /\ Cardinality({k} \X (1..v)) = v
<1>1. IsFiniteSet(1..v) /\ Cardinality(1..v) = v
  BY FS_Interval
<1>2. IsFiniteSet({k}) /\ Cardinality({k}) = 1
  BY FS_Singleton
<1> QED  BY <1>1, <1>2, FS_Product

\* A sum of finitely many natural numbers is a natural number.
LEMMA UnitsFinite == ASSUME NEW D, IsFiniteSet(D), NEW g \in [D -> Nat]
                     PROVE  IsFiniteSet(Units(g)) /\ Sum(g) \in Nat
<1> DEFINE T == {{k} \X (1..g[k]) : k \in D}
           h == [k \in D |-> {k} \X (1..g[k])]
<1>1. h \in Surjection(D, T)
  BY Zenon DEF Surjection
<1>2. IsFiniteSet(T)
  BY <1>1, FS_Surjection
<1>3. \A k \in D : IsFiniteSet({k} \X (1..g[k]))
  BY ColumnSize, Zenon
<1>4. IsFiniteSet(UNION T)
  BY <1>2, <1>3, FS_UNION, Zenon
<1>5. Units(g) = UNION T
  BY DEF Units
<1> QED  BY <1>4, <1>5, FS_CardinalityType DEF Sum

\* Disjoint finite sets have together as many elements as one and the other.
LEMMA DisjointUnion == ASSUME NEW S, NEW T, IsFiniteSet(S), IsFiniteSet(T), S \intersect T = {}
                       PROVE  Cardinality(S \union T) = Cardinality(S) + Cardinality(T)
<1>1. Cardinality(S) \in Nat /\ Cardinality(T) \in Nat
  BY FS_CardinalityType
<1>2. Cardinality(S \union T) = Cardinality(S) + Cardinality(T) - Cardinality(S \intersect T)
  BY FS_Union
<1> QED  BY <1>1, <1>2, FS_EmptySet

\* When one of the numbers changes, the sum changes by as much.
LEMMA SumUpdate == ASSUME NEW D, IsFiniteSet(D), NEW g \in [D -> Nat], NEW h \in [D -> Nat],
                          NEW k \in D, \A j \in D : j # k => h[j] = g[j]
                   PROVE  Sum(h) = Sum(g) - g[k] + h[k]
<1> DEFINE Rest == Units(g) \ ({k} \X (1..g[k]))
<1>1. /\ Units(g) = Rest \union ({k} \X (1..g[k]))
      /\ Rest \intersect ({k} \X (1..g[k])) = {}
  BY DEF Units
<1>2. /\ Units(h) = Rest \union ({k} \X (1..h[k]))
      /\ Rest \intersect ({k} \X (1..h[k])) = {}
  <2>1. \A u : u \in Rest <=> \E j \in D : j # k /\ u \in {j} \X (1..g[j])
    BY DEF Units
  <2>2. \A u : u \in Units(h) <=> \E j \in D : u \in {j} \X (1..h[j])
    BY DEF Units
  <2> QED  BY <2>1, <2>2
<1>3. IsFiniteSet(Rest) /\ Cardinality(Rest) \in Nat
  BY UnitsFinite, FS_Difference, FS_CardinalityType, Zenon
<1>4. \A v \in Nat : IsFiniteSet({k} \X (1..v)) /\ Cardinality({k} \X (1..v)) = v
  BY ColumnSize, Zenon
<1>5. ASSUME NEW v \in Nat, Rest \intersect ({k} \X (1..v)) = {}
      PROVE  Cardinality(Rest \union ({k} \X (1..v))) = Cardinality(Rest) + v
  <2>1. IsFiniteSet({k} \X (1..v)) /\ Cardinality({k} \X (1..v)) = v
    BY <1>4
  <2> QED  BY <1>3, <1>5, <2>1, DisjointUnion
<1>6. Sum(g) = Cardinality(Rest) + g[k]
  BY <1>1, <1>5 DEF Sum
<1>7. Sum(h) = Cardinality(Rest) + h[k]
  BY <1>2, <1>5 DEF Sum
<1> QED  BY <1>3, <1>6, <1>7

\* Zeros add up to zero.
LEMMA SumZero == ASSUME NEW D, NEW g \in [D -> Nat], \A k \in D : g[k] = 0
                 PROVE  Sum(g) = 0
<1>1. Units(g) = {}
  BY DEF Units
<1> QED  BY <1>1, FS_EmptySet DEF Sum

\* What the units of a sequence of numbers are.
LEMMA UnitsOf == \A s \in Seq(Nat) : \A u :
                    u \in Units(s) <=> \E k \in 1..Len(s) : \E j \in 1..s[k] : u = <<k, j>>
BY DEF Units

\* The sum of a sequence is its first number and the sum of the others.
LEMMA SumCons == ASSUME NEW s \in Seq(Nat), NEW t \in Seq(Nat), Len(s) = Len(t) + 1,
                        \A k \in 1..Len(t) : t[k] = s[k + 1]
                 PROVE  Sum(s) = s[1] + Sum(t) /\ Sum(t) \in Nat
<1> DEFINE First == {1} \X (1..s[1])
           Rest == Units(s) \ First
           shift == [u \in Units(t) |-> <<u[1] + 1, u[2]>>]
<1>1. /\ Len(t) \in Nat /\ Len(s) = Len(t) + 1
      /\ \A k \in 1..Len(t) : t[k] = s[k + 1] /\ t[k] \in Nat
      /\ s[1] \in Nat
      /\ \A k \in 1..Len(s) : s[k] \in Nat
  OBVIOUS
<1>2. ASSUME NEW u
      PROVE  u \in Units(t) <=> \E k \in 1..Len(t) : \E j \in 1..s[k + 1] : u = <<k, j>>
  <2>1. ASSUME u \in Units(t)
        PROVE  \E k \in 1..Len(t) : \E j \in 1..s[k + 1] : u = <<k, j>>
    <3>1. PICK k \in DOMAIN t : u \in {k} \X (1..t[k])
      BY <2>1, Zenon DEF Units
    <3>2. PICK j \in 1..t[k] : u = <<k, j>>
      BY <3>1
    <3>3. DOMAIN t = 1..Len(t)
      OBVIOUS
    <3>4. k \in 1..Len(t) /\ t[k] = s[k + 1]
      BY <1>1, <3>3, Zenon
    <3>5. j \in 1..s[k + 1]
      BY <3>4, Zenon
    <3> QED  BY <3>2, <3>4, <3>5, Zenon
  <2>2. ASSUME NEW k \in 1..Len(t), NEW j \in 1..s[k + 1], u = <<k, j>>
        PROVE  u \in Units(t)
    BY <1>1, <2>2, UnitsOf, Zenon
  <2> QED  BY <2>1, <2>2
<1>3. ASSUME NEW u
      PROVE  u \in Rest <=> \E k \in 1..Len(t) : \E j \in 1..s[k + 1] : u = <<k + 1, j>>
  <2>1. ASSUME u \in Rest
        PROVE  \E k \in 1..Len(t) : \E j \in 1..s[k + 1] : u = <<k + 1, j>>
    <3>1. PICK k \in DOMAIN s : u \in {k} \X (1..s[k])
      BY <2>1, Zenon DEF Units
    <3>2. PICK j \in 1..s[k] : u = <<k, j>>
      BY <3>1
    <3>3. k # 1
      BY <1>1, <2>1, <3>2
    <3>4. k - 1 \in 1..Len(t) /\ (k - 1) + 1 = k
      BY <1>1, <3>3
    <3> QED  BY <3>2, <3>4
  <2>2. ASSUME NEW k \in 1..Len(t), NEW j \in 1..s[k + 1], u = <<k + 1, j>>
        PROVE  u \in Rest
    <3>1. k + 1 \in 1..Len(s) /\ k + 1 # 1
      BY <1>1
    <3>2. u \in Units(s)
      BY <2>2, <3>1, UnitsOf, Zenon
    <3> QED  BY <2>2, <3>1, <3>2
  <2> QED  BY <2>1, <2>2
<1>4. shift \in Bijection(Units(t), Rest)
  <2>1. ASSUME NEW u \in Units(t)
        PROVE  /\ u[1] \in Nat /\ u = <<u[1], u[2]>>
               /\ shift[u] = <<u[1] + 1, u[2]>>
               /\ shift[u] \in Rest
    <3>1. PICK k \in 1..Len(t) : \E j \in 1..s[k + 1] : u = <<k, j>>
      BY <1>2
    <3>2. PICK j \in 1..s[k + 1] : u = <<k, j>>
      BY <3>1
    <3>3. shift[u] = <<k + 1, j>>
      BY <3>2
    <3>4. shift[u] \in Rest
      BY <1>3, <3>3
    <3> QED  BY <1>1, <3>2, <3>3, <3>4
  <2>2. ASSUME NEW u \in Units(t), NEW v \in Units(t), shift[u] = shift[v]
        PROVE  u = v
    <3>1. <<u[1] + 1, u[2]>> = <<v[1] + 1, v[2]>> /\ u[1] \in Nat /\ v[1] \in Nat
      BY <2>1, <2>2, Zenon
    <3>2. <<u[1], u[2]>> = <<v[1], v[2]>>
      BY <3>1
    <3> QED  BY <2>1, <3>2, Zenon
  <2>3. ASSUME NEW w \in Rest PROVE \E u \in Units(t) : shift[u] = w
    <3>1. PICK k \in 1..Len(t) : \E j \in 1..s[k + 1] : w = <<k + 1, j>>
      BY <1>3
    <3>2. PICK j \in 1..s[k + 1] : w = <<k + 1, j>>
      BY <3>1
    <3>3. <<k, j>> \in Units(t)
      BY <1>2
    <3>4. shift[<<k, j>>] = w
      BY <3>2, <3>3
    <3> QED  BY <3>3, <3>4, Zenon
  <2>4. shift \in [Units(t) -> Rest]
    BY <2>1
  <2>5. shift \in Injection(Units(t), Rest)
    BY <2>2, <2>4, Zenon DEF Injection, IsInjective
  <2> QED  BY <2>3, <2>4, <2>5, Zenon DEF Bijection, Surjection
<1>5. IsFiniteSet(Units(t)) /\ Sum(t) \in Nat
  <2>1. t \in [1..Len(t) -> Nat]
    BY <1>1
  <2>2. IsFiniteSet(1..Len(t))
    BY FS_Interval, <1>1
  <2> QED  BY <2>1, <2>2, UnitsFinite, Zenon
<1>6. IsFiniteSet(Rest) /\ Cardinality(Rest) = Sum(t)
  BY <1>4, <1>5, FS_Bijection DEF Sum, ExistsBijection
<1>7. Units(s) = Rest \union First /\ Rest \intersect First = {}
  <2>1. ASSUME NEW u \in First PROVE u \in Units(s)
    <3>1. PICK j \in 1..s[1] : u = <<1, j>>
      OBVIOUS
    <3>2. 1 \in 1..Len(s)
      BY <1>1
    <3> QED  BY <3>1, <3>2, UnitsOf
  <2> QED  BY <2>1
<1>8. IsFiniteSet(First) /\ Cardinality(First) = s[1]
  BY <1>1, ColumnSize, Zenon
<1>9. Cardinality(Rest \union First) = Cardinality(Rest) + Cardinality(First)
  BY <1>6, <1>7, <1>8, DisjointUnion, Zenon
<1>10. Sum(s) = Sum(t) + s[1]
  BY <1>6, <1>7, <1>8, <1>9, Zenon DEF Sum
<1> QED  BY <1>1, <1>5, <1>10

\* What Head takes from a sequence is missing from the sum of its tail.
LEMMA SumTail == ASSUME NEW s \in Seq(Nat), s # << >>
                 PROVE  Sum(s) = Head(s) + Sum(Tail(s)) /\ Sum(Tail(s)) \in Nat
<1>1. /\ Tail(s) \in Seq(Nat) /\ Len(s) = Len(Tail(s)) + 1 /\ Head(s) = s[1]
      /\ \A k \in 1..Len(Tail(s)) : Tail(s)[k] = s[k + 1]
  OBVIOUS
<1> QED  BY <1>1, SumCons, Zenon

\* What is pushed on a sequence is added to its sum.
LEMMA SumPush == ASSUME NEW s \in Seq(Nat), NEW v \in Nat
                 PROVE  Sum(<<v>> \o s) = v + Sum(s)
<1>1. /\ <<v>> \o s \in Seq(Nat) /\ Len(<<v>> \o s) = Len(s) + 1 /\ (<<v>> \o s)[1] = v
      /\ \A k \in 1..Len(s) : s[k] = (<<v>> \o s)[k + 1]
  OBVIOUS
<1> QED  BY <1>1, SumCons, Zenon

\* The sum of a sequence of natural numbers is a natural number.
LEMMA SeqSumType == \A s \in Seq(Nat) : Sum(s) \in Nat
<1> SUFFICES ASSUME NEW s \in Seq(Nat) PROVE Sum(s) \in Nat
  OBVIOUS
<1>1. s \in [1..Len(s) -> Nat] /\ Len(s) \in Nat
  OBVIOUS
<1>2. IsFiniteSet(1..Len(s))
  BY <1>1, FS_Interval
<1> QED  BY <1>1, <1>2, UnitsFinite

\* Nothing adds up to zero.
LEMMA SumEmpty == Sum(<< >>) = 0
<1>1. << >> \in [{} -> Nat]
  OBVIOUS
<1> QED  BY <1>1, SumZero, Zenon

-----------------------------------------------------------------------------
(* midterm-v2.c *)

V2Held == [t \in Threads |-> IF pc[t] \in {"read", "done"} THEN 0 ELSE x[t]]

V2TypeOK == /\ input \in Seq(Nat)
            /\ sum \in Nat
            /\ sum_lk \in SUBSET Threads
            /\ reg \in [Threads -> Nat]
            /\ x \in [Threads -> Nat]
            /\ pc \in [Threads -> {"read", "sum_lock", "sum_load", "sum_store", "done"}]
            /\ main \in {"join", "printed"}

V2LockInv == /\ \A s, t \in sum_lk : s = t
             /\ \A t \in Threads : t \in sum_lk <=> pc[t] \in {"sum_load", "sum_store"}
             /\ \A t \in Threads : pc[t] = "sum_store" => reg[t] = sum

V2DoneInv == /\ \A t \in Threads : pc[t] = "done" => input = << >>
             /\ main = "printed" => \A t \in Threads : pc[t] = "done"

V2Total == sum + Sum(input) + Sum(V2Held) = Sum(Input)

\* The inductive invariant
V2IInv == V2TypeOK /\ V2LockInv /\ V2DoneInv /\ V2Total

\* The invariant says that nothing is lost.
LEMMA V2TotalIs == Total = Sum(Input) /\ (NothingLost <=> V2Total)
<1>1. Total = Sum(Input)
  <2>1. [k \in DOMAIN Input |-> Input[k]] = Input
    BY InputAssumption
  <2> QED  BY <2>1 DEF Total, f
<1> QED  BY <1>1 DEF NothingLost, V2Total, V2Held, f

\* What the threads hold are natural numbers, and finitely many.
LEMMA V2HeldType == ASSUME V2TypeOK PROVE V2Held \in [Threads -> Nat] /\ Sum(V2Held) \in Nat
<1>1. V2Held \in [Threads -> Nat]
  BY DEF V2TypeOK, V2Held
<1> QED  BY <1>1, ThreadsAssumption, UnitsFinite

\* midterm-v2.c starts in the invariant: all numbers are on stdin.
LEMMA V2Init == Init => V2IInv
<1> SUFFICES ASSUME Init PROVE V2IInv
  OBVIOUS
<1> USE DEF Init, SumInit
<1>1. V2TypeOK
  BY InputAssumption DEF V2TypeOK
<1>2. V2LockInv /\ V2DoneInv
  BY DEF V2LockInv, V2DoneInv
<1>3. Sum(V2Held) = 0
  <2>1. V2Held \in [Threads -> Nat] /\ \A t \in Threads : V2Held[t] = 0
    BY DEF V2Held
  <2> QED  BY <2>1, SumZero
<1>4. V2Total
  BY <1>3, SeqSumType, InputAssumption DEF V2Total
<1> QED  BY <1>1, <1>2, <1>4 DEF V2IInv

\* scanf moves a number from stdin to a thread.
LEMMA V2ReadIInv == ASSUME V2IInv, NEW t \in Threads, Read(t) PROVE V2IInv'
<1> USE DEF V2IInv, Goto, sumVars
<1>1. V2TypeOK'
  <2>1. CASE input # << >>
    <3>1. Head(input) \in Nat /\ Tail(input) \in Seq(Nat)
      BY <2>1 DEF V2TypeOK
    <3> QED  BY <2>1, <3>1, Zenon DEF V2TypeOK, Read
  <2>2. CASE input = << >>
    BY <2>2 DEF V2TypeOK, Read
  <2> QED  BY <2>1, <2>2
<1>2. V2LockInv' /\ V2DoneInv'
  BY Zenon DEF V2TypeOK, Read, V2LockInv, V2DoneInv
<1>3. V2Held \in [Threads -> Nat] /\ Sum(V2Held) \in Nat
  BY V2HeldType
<1>4. V2Held' \in [Threads -> Nat] /\ \A s \in Threads : s # t => V2Held'[s] = V2Held[s]
  BY <1>1 DEF V2Held, Read, V2TypeOK
<1>5. Sum(V2Held') = Sum(V2Held) - V2Held[t] + V2Held'[t]
  BY <1>3, <1>4, ThreadsAssumption, SumUpdate
<1>6. V2Held[t] = 0
  BY DEF V2Held, Read
<1>7. CASE input # << >>
  <2>1. V2Held'[t] = Head(input) /\ Head(input) \in Nat /\ input' = Tail(input) /\ sum' = sum
    BY <1>7 DEF V2Held, Read, V2TypeOK
  <2>2. Sum(input) = Head(input) + Sum(input') /\ Sum(input') \in Nat
    BY <1>7, <2>1, SumTail DEF V2TypeOK
  <2>3. sum \in Nat
    BY DEF V2TypeOK
  <2>4. V2Total'
    BY <1>3, <1>5, <1>6, <2>1, <2>2, <2>3 DEF V2Total
  <2> QED  BY <1>1, <1>2, <2>4
<1>8. CASE input = << >>
  <2>1. V2Held'[t] = 0 /\ input' = input /\ sum' = sum
    BY <1>8 DEF V2Held, Read, V2TypeOK
  <2>2. V2Total'
    BY <1>3, <1>5, <1>6, <2>1 DEF V2Total
  <2> QED  BY <1>1, <1>2, <2>2
<1> QED  BY <1>7, <1>8

\* sum += res moves a number from a thread to sum, because nobody else stores
\* between the load and the store.
LEMMA V2AddIInv == ASSUME V2IInv, NEW t \in Threads, AddToSum(t) PROVE V2IInv'
<1> USE DEF V2IInv, Goto, SumLock, SumLoad, SumStore, f
<1>1. V2TypeOK' /\ V2LockInv' /\ V2DoneInv'
  <2>1. V2TypeOK'
    <3>1. sum_lk \ {t} \in SUBSET Threads /\ {t} \in SUBSET Threads
      BY DEF V2TypeOK
    <3>2. reg[t] + x[t] \in Nat
      BY DEF V2TypeOK
    <3>3. CASE Goto(t, "sum_lock", "sum_load") /\ SumLock(t)
      BY <3>1, <3>3 DEF V2TypeOK, AddToSum
    <3>4. CASE Goto(t, "sum_load", "sum_store") /\ SumLoad(t)
      BY <3>4 DEF V2TypeOK, AddToSum
    <3>5. CASE Goto(t, "sum_store", "read") /\ SumStore(t, f(x[t]))
      BY <3>1, <3>2, <3>5 DEF V2TypeOK, AddToSum
    <3> QED  BY <3>3, <3>4, <3>5 DEF AddToSum
  <2>2. V2LockInv'
    BY DEF V2TypeOK, AddToSum, V2LockInv
  <2>3. V2DoneInv'
    BY DEF V2TypeOK, AddToSum, V2DoneInv
  <2> QED  BY <2>1, <2>2, <2>3
<1>2. V2Held \in [Threads -> Nat] /\ Sum(V2Held) \in Nat /\ Sum(input) \in Nat
  BY V2HeldType, SeqSumType DEF V2TypeOK
<1>3. V2Held' \in [Threads -> Nat] /\ \A s \in Threads : s # t => V2Held'[s] = V2Held[s]
  BY <1>1 DEF V2Held, AddToSum, V2TypeOK
<1>4. Sum(V2Held') = Sum(V2Held) - V2Held[t] + V2Held'[t]
  BY <1>2, <1>3, ThreadsAssumption, SumUpdate
<1>5. CASE pc[t] = "sum_store"
  <2>1. V2Held[t] = x[t] /\ V2Held'[t] = 0 /\ sum' = sum + x[t]
    BY <1>5, Zenon DEF V2Held, AddToSum, V2TypeOK, V2LockInv
  <2>2. V2Total'
    BY <1>2, <1>4, <2>1 DEF V2Total, AddToSum, V2TypeOK
  <2> QED  BY <1>1, <2>2
<1>6. CASE pc[t] # "sum_store"
  <2>1. V2Held'[t] = V2Held[t] /\ sum' = sum
    BY <1>6 DEF V2Held, AddToSum, V2TypeOK
  <2>2. V2Total'
    BY <1>2, <1>3, <1>4, <2>1 DEF V2Total, AddToSum, V2TypeOK
  <2> QED  BY <1>1, <2>2
<1> QED  BY <1>5, <1>6

\* Every step keeps the invariant.
LEMMA V2Next == V2IInv /\ [Next]_vars => V2IInv'
<1> SUFFICES ASSUME V2IInv, [Next]_vars PROVE V2IInv'
  OBVIOUS
<1>1. ASSUME NEW t \in Threads, handler(t) PROVE V2IInv'
  BY <1>1, V2ReadIInv, V2AddIInv DEF handler
<1>2. CASE Join
  BY <1>2 DEF Join, sumVars, V2IInv, V2TypeOK, V2LockInv, V2DoneInv, V2Total, V2Held
<1>3. CASE UNCHANGED vars
  BY <1>3 DEF vars, sumVars, V2IInv, V2TypeOK, V2LockInv, V2DoneInv, V2Total, V2Held
<1> QED  BY <1>1, <1>2, <1>3 DEF Next, Over

\* When main has joined all threads, every number has been added.
LEMMA V2Prints == V2IInv => NothingLost /\ PrintsTotal
<1> SUFFICES ASSUME V2IInv PROVE NothingLost /\ PrintsTotal
  OBVIOUS
<1>1. NothingLost
  BY V2TotalIs DEF V2IInv
<1>2. ASSUME main = "printed" PROVE sum = Total
  <2>1. input = << >> /\ \A t \in Threads : pc[t] = "done"
    BY <1>2, ThreadsAssumption DEF V2IInv, V2DoneInv
  <2>2. Sum(V2Held) = 0
    <3>1. V2Held \in [Threads -> Nat] /\ \A t \in Threads : V2Held[t] = 0
      BY <2>1, V2HeldType DEF V2IInv, V2Held
    <3> QED  BY <3>1, SumZero
  <2>3. sum \in Nat /\ V2Total
    BY DEF V2IInv, V2TypeOK
  <2> QED  BY <2>1, <2>2, <2>3, SumEmpty, V2TotalIs DEF V2Total
<1> QED  BY <1>1, <1>2 DEF PrintsTotal

-----------------------------------------------------------------------------
(* midterm-v1.c *)

\* Sums in midterm-v1.c are those of this module.
LEMMA V1Sums == \A P, I, g : V1(P, I)!Sum(g) = Sum(g)
BY DEF V1!Sum, V1!Units, V1!Cardinality, Sum, Units, Cardinality

Busy == {"lock_item", "push", "sum_lock", "sum_load", "sum_store"}
V1Locs == Busy \union {"read", "lock_eof", "eof", "last_broadcast", "broadcast", "done",
                        "lock", "while", "wait"}
V1Held(P) == [t \in P \union Consumers |-> IF pc[t] \in Busy THEN x[t] ELSE 0]

V1TypeOK(P) == /\ input \in Seq(Nat)
               /\ buffer \in Seq(Nat)
               /\ sum \in Nat
               /\ reg \in [Consumers -> Nat]
               /\ x \in [P \union Consumers -> Nat]
               /\ pc \in [P \union Consumers -> V1Locs]

V1LockInv == /\ \A s, t \in sum_lk : s = t
             /\ \A c \in Consumers : c \in sum_lk <=> pc[c] \in {"sum_load", "sum_store"}
             /\ \A c \in Consumers : pc[c] = "sum_store" => reg[c] = sum

V1EofInv(P) == /\ \A p \in P :
                    /\ pc[p] \notin {"while", "sum_lock", "sum_load", "sum_store"}
                    /\ pc[p] \in {"lock_eof", "eof", "last_broadcast", "done"} => input = << >>
               /\ (\A p \in P : pc[p] \in {"last_broadcast", "done"}) => buffer = << >>
               /\ main = "printed" => \A t \in P \union Consumers : pc[t] = "done"

V1Total(P, I) == sum + Sum(input) + Sum(buffer) + Sum(V1Held(P)) = Sum(I)

\* The inductive invariant
V1IInv(P, I) == V1TypeOK(P) /\ V1LockInv /\ V1EofInv(P) /\ V1Total(P, I)

\* What the threads hold are natural numbers, and finitely many.
LEMMA V1HeldType == ASSUME CONSTANT P, P \subseteq Producers, V1TypeOK(P)
                    PROVE  /\ V1Held(P) \in [P \union Consumers -> Nat] /\ Sum(V1Held(P)) \in Nat
                           /\ IsFiniteSet(P \union Consumers)
<1>1. V1Held(P) \in [P \union Consumers -> Nat]
  BY DEF V1TypeOK, V1Held
<1>2. IsFiniteSet(P \union Consumers)
  BY ProducersAssumption, FS_Subset, FS_Union, Zenon
<1> QED  BY <1>1, <1>2, UnitsFinite

\* The invariant says that nothing is lost.
LEMMA V1TotalIs == ASSUME CONSTANT P, CONSTANT I, P \subseteq Producers, I \in Seq(Nat),
                          V1IInv(P, I)
                   PROVE  /\ V1(P, I)!Total = Sum(I)
                          /\ V1(P, I)!NothingLost
<1>1. V1(P, I)!Total = Sum(I)
  <2>1. [k \in DOMAIN I |-> I[k]] = I
    OBVIOUS
  <2> QED  BY <2>1, V1Sums DEF V1!Total, V1!f
<1>2. [t \in V1(P, I)!Runners |-> V1(P, I)!Held(t)] = V1Held(P)
  BY DEF V1Held, V1!Runners, V1!Held, V1!f, Busy
<1>3. V1(P, I)!Outstanding = Sum(input) + Sum(buffer) + Sum(V1Held(P))
  BY <1>2, V1Sums DEF V1!Outstanding
<1>4. Sum(input) \in Nat /\ Sum(buffer) \in Nat /\ sum \in Nat /\ V1Total(P, I)
      /\ Sum(V1Held(P)) \in Nat
  BY SeqSumType, V1HeldType, Zenon DEF V1IInv, V1TypeOK
<1> QED  BY <1>1, <1>3, <1>4 DEF V1!NothingLost, V1Total

\* What a step of thread t does to the sum of the numbers in hand, by whether t
\* has a number before it and after it.
LEMMA V1Move == ASSUME CONSTANT P, P \subseteq Producers, V1TypeOK(P), V1TypeOK(P)',
                       NEW t \in P \union Consumers,
                       \A s \in P \union Consumers : s # t => pc'[s] = pc[s] /\ x'[s] = x[s]
                PROVE  /\ Sum(V1Held(P)) \in Nat
                       /\ pc[t] \notin Busy /\ pc'[t] \notin Busy =>
                            Sum(V1Held(P))' = Sum(V1Held(P))
                       /\ pc[t] \in Busy /\ pc'[t] \in Busy /\ x'[t] = x[t] =>
                            Sum(V1Held(P))' = Sum(V1Held(P))
                       /\ pc[t] \notin Busy /\ pc'[t] \in Busy =>
                            Sum(V1Held(P))' = Sum(V1Held(P)) + x'[t]
                       /\ pc[t] \in Busy /\ pc'[t] \notin Busy =>
                            Sum(V1Held(P))' = Sum(V1Held(P)) - x[t]
<1>1. /\ V1Held(P) \in [P \union Consumers -> Nat] /\ Sum(V1Held(P)) \in Nat
      /\ IsFiniteSet(P \union Consumers)
  BY V1HeldType
<1>2. V1Held(P)' \in [P \union Consumers -> Nat]
  BY DEF V1TypeOK, V1Held
<1>3. \A s \in P \union Consumers : s # t => V1Held(P)'[s] = V1Held(P)[s]
  BY DEF V1Held
<1>4. /\ V1Held(P)[t] = (IF pc[t] \in Busy THEN x[t] ELSE 0)
      /\ V1Held(P)'[t] = (IF pc'[t] \in Busy THEN x'[t] ELSE 0)
  BY DEF V1Held
<1>5. Sum(V1Held(P)') = Sum(V1Held(P)) - V1Held(P)[t] + V1Held(P)'[t]
  BY <1>1, <1>2, <1>3, SumUpdate
<1>6. x[t] \in Nat /\ x'[t] \in Nat
  BY DEF V1TypeOK
<1> QED  BY <1>1, <1>4, <1>5, <1>6

\* midterm-v1.c starts in the invariant: all numbers are on stdin.
LEMMA V1Init == ASSUME CONSTANT P, CONSTANT I, P \subseteq Producers, P # {}, I \in Seq(Nat),
                       V1(P, I)!Init
                PROVE  V1IInv(P, I)
<1> USE DEF V1!Init, V1!SumInit, V1!Runners
<1>1. V1TypeOK(P)
  BY DEF V1TypeOK, V1Locs
<1>2. V1LockInv /\ V1EofInv(P)
  BY DEF V1LockInv, V1EofInv
<1>3. Sum(V1Held(P)) = 0
  <2>1. V1Held(P) \in [P \union Consumers -> Nat] /\ \A t \in P \union Consumers : V1Held(P)[t] = 0
    BY DEF V1Held, Busy
  <2> QED  BY <2>1, SumZero
<1>4. V1Total(P, I)
  BY <1>3, SeqSumType, SumEmpty DEF V1Total
<1> QED  BY <1>1, <1>2, <1>4 DEF V1IInv

\* A step of a producer keeps the invariant.
LEMMA V1ProducerIInv == ASSUME CONSTANT P, CONSTANT I, P \subseteq Producers, V1IInv(P, I),
                               NEW p \in P, V1(P, I)!producer(p)
                        PROVE  V1IInv(P, I)'
<1> USE ProducersAssumption DEF V1IInv, V1!Goto, V1!sumVars, V1!Take, V1!Free, V1!Release
<1>1. /\ input \in Seq(Nat) /\ buffer \in Seq(Nat) /\ sum \in Nat /\ x[p] \in Nat
      /\ Sum(input) \in Nat /\ Sum(buffer) \in Nat
  BY SeqSumType DEF V1TypeOK
<1>2. CASE V1(P, I)!Read(p) /\ input # << >>
  <2>1. Head(input) \in Nat /\ Tail(input) \in Seq(Nat)
    BY <1>1, <1>2
  <2>2. V1TypeOK(P)'
    <3>1. /\ pc' = [pc EXCEPT ![p] = "lock_item"] /\ x' = [x EXCEPT ![p] = Head(input)]
          /\ input' = Tail(input) /\ UNCHANGED <<buffer, sum, reg>>
      BY <1>2 DEF V1!Read
    <3>2. pc' \in [P \union Consumers -> V1Locs]
      BY <3>1 DEF V1TypeOK, V1Locs, Busy
    <3>3. x' \in [P \union Consumers -> Nat]
      BY <2>1, <3>1 DEF V1TypeOK
    <3> QED  BY <2>1, <3>1, <3>2, <3>3, Zenon DEF V1TypeOK
  <2>3. V1LockInv' /\ V1EofInv(P)'
    BY <1>2, Zenon DEF V1!Read, V1TypeOK, V1LockInv, V1EofInv
  <2>4. Sum(V1Held(P))' = Sum(V1Held(P)) + Head(input) /\ Sum(V1Held(P)) \in Nat
    <3>1. /\ \A s \in P \union Consumers : s # p => pc'[s] = pc[s] /\ x'[s] = x[s]
          /\ pc[p] \notin Busy /\ pc'[p] \in Busy /\ x'[p] = Head(input)
      BY <1>2 DEF V1!Read, V1TypeOK, Busy
    <3> QED  BY <2>2, <3>1, V1Move
  <2>5. Sum(input) = Head(input) + Sum(input') /\ Sum(input') \in Nat
    BY <1>1, <1>2, SumTail, Zenon DEF V1!Read
  <2>6. V1Total(P, I)'
    <3>1. sum' = sum /\ Sum(buffer)' = Sum(buffer)
      BY <1>2 DEF V1!Read
    <3>2. sum \in Nat /\ Sum(buffer) \in Nat /\ Head(input) \in Nat
      BY <1>1, <2>1
    <3> QED  BY <2>4, <2>5, <3>1, <3>2 DEF V1Total
  <2> QED  BY <2>2, <2>3, <2>6
<1>3. CASE V1(P, I)!Push(p)
  <2>1. <<x[p]>> \o buffer \in Seq(Nat)
    BY <1>1
  <2>2. V1TypeOK(P)'
    BY <1>3, <2>1 DEF V1!Push, V1TypeOK, V1Locs, Busy
  <2>3. V1LockInv' /\ V1EofInv(P)'
    BY <1>3 DEF V1!Push, V1TypeOK, V1LockInv, V1EofInv
  <2>4. Sum(V1Held(P))' = Sum(V1Held(P)) - x[p] /\ Sum(V1Held(P)) \in Nat
    <3>1. /\ \A s \in P \union Consumers : s # p => pc'[s] = pc[s] /\ x'[s] = x[s]
          /\ pc[p] \in Busy /\ pc'[p] \notin Busy
      BY <1>3 DEF V1!Push, V1TypeOK, Busy
    <3> QED  BY <2>2, <3>1, V1Move
  <2>5. Sum(buffer') = x[p] + Sum(buffer)
    BY <1>1, <1>3, SumPush DEF V1!Push
  <2>6. V1Total(P, I)'
    <3>1. sum' = sum /\ Sum(input)' = Sum(input)
      BY <1>3, Zenon DEF V1!Push
    <3>2. sum + Sum(input) + Sum(buffer) + Sum(V1Held(P)) = Sum(I)
      BY Zenon DEF V1Total
    <3>3. sum' + Sum(input)' + Sum(buffer)' + Sum(V1Held(P))' = Sum(I)
      BY <1>1, <2>4, <2>5, <3>1, <3>2
    <3> QED  BY <3>3, Zenon DEF V1Total
  <2> QED  BY <2>2, <2>3, <2>6
<1>4. CASE \/ V1(P, I)!Read(p) /\ input = << >>
           \/ V1(P, I)!LockProducer(p) \/ V1(P, I)!DeclareEof(p)
           \/ V1(P, I)!TryAgain(p) \/ V1(P, I)!Broadcast(p)
  <2> USE DEF V1!Read, V1!LockProducer, V1!DeclareEof, V1!TryAgain, V1!Broadcast
  <2>1. V1TypeOK(P)'
    BY <1>4, Zenon DEF V1TypeOK, V1Locs, Busy
  <2>2. V1LockInv'
    BY <1>4, Zenon DEF V1TypeOK, V1LockInv
  <2>3. V1EofInv(P)'
    BY <1>4, Zenon DEF V1TypeOK, V1EofInv
  <2>4. Sum(V1Held(P))' = Sum(V1Held(P))
    <3>1. /\ \A s \in P \union Consumers : s # p => pc'[s] = pc[s] /\ x'[s] = x[s]
          /\ x'[p] = x[p] /\ (pc'[p] \in Busy <=> pc[p] \in Busy)
      BY <1>4 DEF V1TypeOK, Busy
    <3> QED  BY <1>1, <2>1, <3>1, V1Move, Zenon
  <2>5. V1Total(P, I)'
    BY <1>4, <2>4 DEF V1Total
  <2> QED  BY <2>1, <2>2, <2>3, <2>5
<1> QED  BY <1>2, <1>3, <1>4 DEF V1!producer

\* A step of a consumer keeps the invariant.
LEMMA V1ConsumerIInv == ASSUME CONSTANT P, CONSTANT I, P \subseteq Producers, V1IInv(P, I),
                               NEW c \in Consumers, V1(P, I)!consumer(c)
                        PROVE  V1IInv(P, I)'
<1> USE ProducersAssumption DEF V1IInv, V1!Goto, V1!sumVars, V1!Take, V1!Free, V1!Release
<1>1. /\ input \in Seq(Nat) /\ buffer \in Seq(Nat) /\ sum \in Nat /\ x[c] \in Nat
      /\ Sum(input) \in Nat /\ Sum(buffer) \in Nat /\ c \notin P /\ reg[c] \in Nat
  BY SeqSumType DEF V1TypeOK
<1>2. CASE V1(P, I)!Pop(c)
  <2>1. Head(buffer) \in Nat /\ Tail(buffer) \in Seq(Nat)
    BY <1>1, <1>2 DEF V1!Pop
  <2>2. V1TypeOK(P)'
    BY <1>2, <2>1 DEF V1!Pop, V1TypeOK, V1Locs, Busy
  <2>3. V1LockInv' /\ V1EofInv(P)'
    <3>1. V1LockInv'
      BY <1>2 DEF V1!Pop, V1TypeOK, V1LockInv
    <3>2. V1EofInv(P)'
      BY <1>1, <1>2 DEF V1!Pop, V1TypeOK, V1EofInv
    <3> QED  BY <3>1, <3>2
  <2>4. Sum(V1Held(P))' = Sum(V1Held(P)) + Head(buffer) /\ Sum(V1Held(P)) \in Nat
    <3>1. /\ \A s \in P \union Consumers : s # c => pc'[s] = pc[s] /\ x'[s] = x[s]
          /\ pc[c] \notin Busy /\ pc'[c] \in Busy /\ x'[c] = Head(buffer)
      BY <1>2 DEF V1!Pop, V1TypeOK, Busy
    <3> QED  BY <2>2, <3>1, V1Move
  <2>5. Sum(buffer) = Head(buffer) + Sum(buffer') /\ Sum(buffer') \in Nat
    BY <1>1, <1>2, SumTail DEF V1!Pop
  <2>6. V1Total(P, I)'
    <3>1. sum' = sum /\ Sum(input)' = Sum(input)
      BY <1>2, Zenon DEF V1!Pop
    <3>2. sum + Sum(input) + Sum(buffer) + Sum(V1Held(P)) = Sum(I)
      BY Zenon DEF V1Total
    <3>3. sum' + Sum(input)' + Sum(buffer)' + Sum(V1Held(P))' = Sum(I)
      BY <1>1, <2>1, <2>4, <2>5, <3>1, <3>2
    <3> QED  BY <3>3, Zenon DEF V1Total
  <2> QED  BY <2>2, <2>3, <2>6
<1>3. CASE V1(P, I)!AddToSum(c) /\ pc[c] = "sum_store"
  <2> USE DEF V1!AddToSum, V1!SumStore, V1!f
  <2>1. reg[c] = sum /\ sum' = sum + x[c] /\ sum_lk' = sum_lk \ {c}
    BY <1>3 DEF V1LockInv
  <2>2. V1TypeOK(P)'
    <3>1. sum' \in Nat
      BY <1>1, <2>1
    <3>2. /\ pc' = [pc EXCEPT ![c] = "lock"]
          /\ UNCHANGED <<input, buffer, reg, x>>
      BY <1>3
    <3>3. pc' \in [P \union Consumers -> V1Locs]
      BY <3>2 DEF V1TypeOK, V1Locs
    <3> QED  BY <3>1, <3>2, <3>3, Zenon DEF V1TypeOK
  <2>3. V1LockInv'
    BY <1>3, <2>1 DEF V1TypeOK, V1LockInv
  <2>4. V1EofInv(P)'
    BY <1>1, <1>3, Zenon DEF V1TypeOK, V1EofInv
  <2>5. Sum(V1Held(P))' = Sum(V1Held(P)) - x[c] /\ Sum(V1Held(P)) \in Nat
    <3>1. /\ \A s \in P \union Consumers : s # c => pc'[s] = pc[s] /\ x'[s] = x[s]
          /\ pc[c] \in Busy /\ pc'[c] \notin Busy
      BY <1>3 DEF V1TypeOK, Busy
    <3> QED  BY <2>2, <3>1, V1Move
  <2>6. V1Total(P, I)'
    <3>1. Sum(input)' = Sum(input) /\ Sum(buffer)' = Sum(buffer)
      BY <1>3
    <3>2. sum \in Nat /\ Sum(input) \in Nat /\ Sum(buffer) \in Nat /\ x[c] \in Nat
      BY <1>1
    <3>3. sum' = sum + x[c]
      BY <2>1
    <3> HIDE DEF V1!AddToSum, V1!SumStore, V1!f
    <3> QED  BY <2>5, <3>1, <3>2, <3>3 DEF V1Total
  <2> QED  BY <2>2, <2>3, <2>4, <2>6
<1>4. CASE V1(P, I)!AddToSum(c) /\ pc[c] # "sum_store"
  <2> USE DEF V1!AddToSum, V1!SumLock, V1!SumLoad
  <2>1. V1TypeOK(P)'
    BY <1>1, <1>4, ZenonT(40) DEF V1TypeOK, V1Locs, Busy
  <2>2. V1LockInv'
    BY <1>4 DEF V1TypeOK, V1LockInv
  <2>3. V1EofInv(P)'
    BY <1>1, <1>4, Zenon DEF V1TypeOK, V1EofInv
  <2>4. Sum(V1Held(P))' = Sum(V1Held(P))
    <3>1. /\ \A s \in P \union Consumers : s # c => pc'[s] = pc[s] /\ x'[s] = x[s]
          /\ x'[c] = x[c] /\ pc'[c] \in Busy /\ pc[c] \in Busy
      BY <1>4 DEF V1TypeOK, Busy
    <3> QED  BY <1>1, <2>1, <3>1, V1Move, Zenon
  <2>5. V1Total(P, I)'
    BY <1>4, <2>4 DEF V1Total
  <2> QED  BY <2>1, <2>2, <2>3, <2>5
<1>5. CASE \/ V1(P, I)!LockConsumer(c) \/ V1(P, I)!CondWait(c)
           \/ V1(P, I)!Return(c) \/ V1(P, I)!Break(c)
  <2> USE DEF V1!LockConsumer, V1!CondWait, V1!Return, V1!Break
  <2>1. V1TypeOK(P)'
    BY <1>5, Zenon DEF V1TypeOK, V1Locs, Busy
  <2>2. V1LockInv'
    BY <1>5 DEF V1TypeOK, V1LockInv
  <2>3. V1EofInv(P)'
    BY <1>1, <1>5, Zenon DEF V1TypeOK, V1EofInv
  <2>4. Sum(V1Held(P))' = Sum(V1Held(P))
    <3>1. /\ \A s \in P \union Consumers : s # c => pc'[s] = pc[s] /\ x'[s] = x[s]
          /\ x'[c] = x[c] /\ pc'[c] \notin Busy /\ pc[c] \notin Busy
      BY <1>5 DEF V1TypeOK, Busy
    <3> QED  BY <1>1, <2>1, <3>1, V1Move, Zenon
  <2>5. V1Total(P, I)'
    BY <1>5, <2>4 DEF V1Total
  <2> QED  BY <2>1, <2>2, <2>3, <2>5
<1> QED  BY <1>2, <1>3, <1>4, <1>5 DEF V1!consumer

\* Every step keeps the invariant.
LEMMA V1Next == ASSUME CONSTANT P, CONSTANT I, P \subseteq Producers, V1IInv(P, I),
                       V1(P, I)!Next \/ UNCHANGED V1(P, I)!vars
                PROVE  V1IInv(P, I)'
<1>1. ASSUME NEW p \in P, V1(P, I)!producer(p) PROVE V1IInv(P, I)'
  BY <1>1, V1ProducerIInv
<1>2. ASSUME NEW c \in Consumers, V1(P, I)!consumer(c) PROVE V1IInv(P, I)'
  BY <1>2, V1ConsumerIInv
<1> USE DEF V1IInv, V1TypeOK, V1LockInv, V1EofInv, V1Total, V1Held
<1>3. ASSUME NEW c \in Consumers, V1(P, I)!Spurious(c) PROVE V1IInv(P, I)'
  BY <1>3 DEF V1!Spurious, V1!sumVars
<1>4. CASE V1(P, I)!Join
  BY <1>4 DEF V1!Join, V1!sumVars, V1!Runners
<1>5. CASE UNCHANGED V1(P, I)!vars
  BY <1>5 DEF V1!vars, V1!sumVars
<1> QED  BY <1>1, <1>2, <1>3, <1>4, <1>5, Zenon DEF V1!Next, V1!Over

\* When main has joined all threads, every number has been added.
LEMMA V1Prints == ASSUME CONSTANT P, CONSTANT I, P \subseteq Producers, P # {}, I \in Seq(Nat),
                         V1IInv(P, I)
                  PROVE  V1(P, I)!NothingLost /\ V1(P, I)!PrintsTotal
<1>1. V1(P, I)!NothingLost /\ V1(P, I)!Total = Sum(I)
  BY V1TotalIs
<1>2. ASSUME main = "printed" PROVE sum = Sum(I)
  <2>1. input = << >> /\ buffer = << >> /\ \A t \in P \union Consumers : pc[t] = "done"
    BY <1>2 DEF V1IInv, V1EofInv
  <2>2. Sum(V1Held(P)) = 0
    <3>1. V1Held(P) \in [P \union Consumers -> Nat]
      BY V1HeldType, Zenon DEF V1IInv
    <3>2. \A t \in P \union Consumers : V1Held(P)[t] = 0
      BY <2>1 DEF V1Held, Busy
    <3> QED  BY <3>1, <3>2, SumZero
  <2>3. sum \in Nat /\ V1Total(P, I)
    BY DEF V1IInv, V1TypeOK
  <2> QED  BY <2>1, <2>2, <2>3, SumEmpty DEF V1Total
<1> QED  BY <1>1, <1>2 DEF V1!PrintsTotal

-----------------------------------------------------------------------------
(* midterm-tle.c *)

\* Sums in midterm-tle.c are those of this module.
LEMMA TleSums == \A g : Tle!Sum(g) = Sum(g)
BY DEF Tle!Sum, Tle!Units, Tle!Cardinality, Sum, Units, Cardinality

Adding == {"sum_lock", "sum_load", "sum_store"}
TleLocs == Adding \union {"none", "lock", "free", "broadcast"}
TleMainLocs == {"read", "lock", "while", "wait", "pthread_create", "join", "pthread_join",
                "printed"}

\* What the thread in a slot has still to add, or will have once it is started
TleHeld == [k \in Tle!Slots |-> IF pc[k] \in Adding \/ (mpc = "pthread_create" /\ index = k)
                               THEN arg[k] ELSE 0]
\* What main has read and not put in a slot yet
TleRead == IF mpc \in {"lock", "while", "wait"} THEN x ELSE 0

TleTypeOK == /\ input \in Seq(Nat)
             /\ sum \in Nat
             /\ reg \in [Tle!Slots -> Nat]
             /\ arg \in [Tle!Slots -> Nat]
             /\ status \in [Tle!Slots -> {"T_FREE", "T_LIVE", "T_DEAD"}]
             /\ pc \in [Tle!Slots -> TleLocs]
             /\ mpc \in TleMainLocs
             /\ x \in Nat
             /\ index \in Nat \ {0}

TleLockInv == /\ \A s, t \in sum_lk : s = t
              /\ \A k \in Tle!Slots : k \in sum_lk <=> pc[k] \in {"sum_load", "sum_store"}
              /\ \A k \in Tle!Slots : pc[k] = "sum_store" => reg[k] = sum
              /\ \A k \in Tle!Slots : pc[k] \in {"free", "broadcast"} => tpool_lk = {k}
              /\ mpc = "while" => tpool_lk = {Tle!Main}

TleSlotInv == /\ \A k \in Tle!Slots : status[k] # "T_LIVE" => pc[k] \in {"none", "broadcast"}
              /\ mpc = "pthread_create" => /\ index \in Tle!Slots /\ pc[index] = "none"
                                              /\ status[index] = "T_LIVE"
              /\ mpc \in {"join", "pthread_join", "printed"} =>
                   /\ input = << >>
                   /\ \A k \in Tle!Slots : k < index => pc[k] \in {"none", "broadcast"}
              /\ mpc = "pthread_join" => index \in Tle!Slots
              /\ mpc = "printed" => index > NTHREAD

TleTotal == sum + Sum(input) + Sum(TleHeld) + TleRead = Sum(Input)

\* The inductive invariant
TleIInv == TleTypeOK /\ TleLockInv /\ TleSlotInv /\ TleTotal

\* What is in the slots are natural numbers, and finitely many.
LEMMA TleHeldType == ASSUME TleTypeOK
                     PROVE  /\ TleHeld \in [Tle!Slots -> Nat] /\ Sum(TleHeld) \in Nat
                            /\ IsFiniteSet(Tle!Slots) /\ TleRead \in Nat
<1>1. TleHeld \in [Tle!Slots -> Nat] /\ TleRead \in Nat
  BY DEF TleTypeOK, TleHeld, TleRead
<1>2. IsFiniteSet(Tle!Slots)
  BY NTHREADAssumption, FS_Interval DEF Tle!Slots
<1> QED  BY <1>1, <1>2, UnitsFinite

\* What a step does to the sum of the numbers in the slots when it concerns one
\* of them.
LEMMA TleMove == ASSUME TleTypeOK, TleTypeOK', NEW k \in Tle!Slots,
                        \A j \in Tle!Slots : j # k => TleHeld'[j] = TleHeld[j]
                 PROVE  Sum(TleHeld)' = Sum(TleHeld) - TleHeld[k] + TleHeld'[k]
<1>1. TleHeld \in [Tle!Slots -> Nat] /\ IsFiniteSet(Tle!Slots)
  BY TleHeldType
<1>2. TleHeld' \in [Tle!Slots -> Nat]
  BY DEF TleTypeOK, TleHeld
<1> QED  BY <1>1, <1>2, SumUpdate

\* midterm-tle.c starts in the invariant: all numbers are on stdin.
LEMMA TleInit == Tle!Init => TleIInv
<1> SUFFICES ASSUME Tle!Init PROVE TleIInv
  OBVIOUS
<1> USE DEF Tle!Init, Tle!SumInit
<1>1. TleTypeOK
  BY InputAssumption DEF TleTypeOK, TleLocs, TleMainLocs
<1>2. TleLockInv /\ TleSlotInv
  BY DEF TleLockInv, TleSlotInv
<1>3. Sum(TleHeld) = 0
  <2>1. TleHeld \in [Tle!Slots -> Nat] /\ \A k \in Tle!Slots : TleHeld[k] = 0
    BY DEF TleHeld, Adding
  <2> QED  BY <2>1, SumZero
<1>4. TleTotal
  BY <1>3, SeqSumType, InputAssumption DEF TleTotal, TleRead
<1> QED  BY <1>1, <1>2, <1>4 DEF TleIInv

\* A step of the thread in a slot keeps the invariant.
LEMMA TleWrapperIInv == ASSUME TleIInv, NEW k \in Tle!Slots, Tle!wrapper(k) PROVE TleIInv'
<1> USE DEF TleIInv, Tle!Goto, Tle!sumVars, Tle!poolVars, Tle!mainVars
<1>1. /\ sum \in Nat /\ reg[k] \in Nat /\ arg[k] \in Nat /\ Sum(input) \in Nat
      /\ Sum(TleHeld) \in Nat /\ TleRead \in Nat
  BY SeqSumType, TleHeldType DEF TleTypeOK
<1>2. CASE Tle!AddToSum(k) /\ pc[k] = "sum_store"
  <2>1. /\ reg[k] = sum /\ sum' = sum + arg[k] /\ sum_lk' = sum_lk \ {k}
        /\ pc' = [pc EXCEPT ![k] = "lock"]
        /\ UNCHANGED <<input, reg, arg, status, tpool_lk, mpc, x, index>>
    BY <1>2 DEF Tle!AddToSum, Tle!SumStore, Tle!f, TleLockInv
  <2>2. TleTypeOK'
    <3>1. sum' \in Nat
      BY <1>1, <2>1, SMTT(20)
    <3>2. pc' \in [Tle!Slots -> TleLocs]
      BY <2>1 DEF TleTypeOK, TleLocs
    <3> QED  BY <2>1, <3>1, <3>2 DEF TleTypeOK
  <2>3. TleLockInv'
    <3>1. \A j \in Tle!Slots : j # k => pc'[j] = pc[j] /\ pc[j] \notin {"sum_load", "sum_store"}
      BY <1>2, <2>1 DEF TleTypeOK, TleLockInv
    <3>2. pc'[k] = "lock"
      BY <2>1 DEF TleTypeOK
    <3> QED  BY <2>1, <3>1, <3>2 DEF TleLockInv
  <2>4. TleSlotInv'
    BY <1>2, <2>1 DEF TleTypeOK, TleSlotInv
  <2>5. Sum(TleHeld)' = Sum(TleHeld) - arg[k]
    <3>1. \A j \in Tle!Slots : j # k => TleHeld'[j] = TleHeld[j]
      BY <2>1 DEF TleHeld, TleTypeOK
    <3>2. TleHeld[k] = arg[k] /\ TleHeld'[k] = 0
      BY <1>2, <2>1 DEF TleHeld, TleTypeOK, Adding, TleSlotInv
    <3>3. Sum(TleHeld)' = Sum(TleHeld) - TleHeld[k] + TleHeld'[k]
      BY <2>2, <3>1, TleMove
    <3> QED  BY <1>1, <3>2, <3>3
  <2>6. TleTotal'
    <3>1. Sum(input)' = Sum(input) /\ TleRead' = TleRead /\ sum' = sum + arg[k]
      BY <2>1 DEF TleRead
    <3> QED  BY <1>1, <2>5, <3>1 DEF TleTotal
  <2> QED  BY <2>2, <2>3, <2>4, <2>6
<1>3. CASE Tle!AddToSum(k) /\ pc[k] # "sum_store"
  <2>1. /\ \/ /\ sum_lk = {} /\ sum_lk' = {k} /\ reg' = reg
              /\ pc[k] = "sum_lock" /\ pc'[k] = "sum_load"
           \/ /\ sum_lk' = sum_lk /\ reg' = [reg EXCEPT ![k] = sum]
              /\ pc[k] = "sum_load" /\ pc'[k] = "sum_store"
        /\ pc' = [pc EXCEPT ![k] = pc'[k]]
        /\ UNCHANGED <<input, sum, arg, status, tpool_lk, mpc, x, index>>
    BY <1>3 DEF Tle!AddToSum, Tle!SumLock, Tle!SumLoad, TleTypeOK
  <2>2. TleTypeOK'
    BY <2>1, ZenonT(40) DEF TleTypeOK, TleLocs, Adding
  <2>3. TleLockInv'
    <3>1. \A j \in Tle!Slots : j # k => pc'[j] = pc[j]
      BY <2>1 DEF TleTypeOK
    <3>2. CASE pc[k] = "sum_lock"
      <4>1. \A j \in Tle!Slots : pc[j] \notin {"sum_load", "sum_store"}
        BY <2>1, <3>2 DEF TleLockInv
      <4> QED  BY <2>1, <3>1, <3>2, <4>1 DEF TleLockInv
    <3>3. CASE pc[k] = "sum_load"
      <4>1. reg'[k] = sum' /\ \A j \in Tle!Slots : j # k => pc[j] # "sum_store"
        BY <2>1, <3>3 DEF TleLockInv, TleTypeOK
      <4> QED  BY <2>1, <3>1, <3>3, <4>1 DEF TleLockInv
    <3> QED  BY <2>1, <3>2, <3>3
  <2>4. TleSlotInv'
    BY <2>1, Zenon DEF TleTypeOK, TleSlotInv
  <2>5. TleHeld' = TleHeld
    BY <2>1 DEF TleHeld, TleTypeOK, Adding
  <2>6. TleTotal'
    BY <2>1, <2>5 DEF TleTotal, TleRead
  <2> QED  BY <2>2, <2>3, <2>4, <2>6
<1>4. CASE Tle!LockTpool(k) \/ Tle!FreeSlot(k) \/ Tle!BroadcastUnlock(k)
  <2>1. /\ \/ /\ pc[k] = "lock" /\ pc'[k] = "free" /\ tpool_lk = {} /\ tpool_lk' = {k}
              /\ status' = status
           \/ /\ pc[k] = "free" /\ pc'[k] = "broadcast" /\ tpool_lk' = tpool_lk
              /\ status' = [status EXCEPT ![k] = "T_FREE"]
           \/ /\ pc[k] = "broadcast" /\ pc'[k] = "none" /\ tpool_lk' = tpool_lk \ {k}
              /\ status' = status
        /\ pc' = [pc EXCEPT ![k] = pc'[k]]
        /\ UNCHANGED <<input, sum, sum_lk, reg, arg, mpc, x, index>>
    BY <1>4 DEF Tle!LockTpool, Tle!FreeSlot, Tle!BroadcastUnlock, TleTypeOK
  <2>2. TleTypeOK'
    BY <2>1, Zenon DEF TleTypeOK, TleLocs
  <2>3. TleLockInv'
    <3>1. \A j \in Tle!Slots : j # k => pc'[j] = pc[j]
      BY <2>1 DEF TleTypeOK
    <3>2. \A j \in Tle!Slots : j # k => pc[j] \notin {"free", "broadcast"}
      BY <2>1 DEF TleLockInv
    <3>3. mpc # "while"
      BY <2>1 DEF TleLockInv, Tle!Main, Tle!Slots
    <3> QED  BY <2>1, <3>1, <3>2, <3>3 DEF TleLockInv
  <2>4. TleSlotInv'
    BY <2>1, Zenon DEF TleTypeOK, TleSlotInv
  <2>5. TleHeld' = TleHeld
    BY <2>1 DEF TleHeld, TleTypeOK, Adding
  <2>6. TleTotal'
    BY <2>1, <2>5 DEF TleTotal, TleRead
  <2> QED  BY <2>2, <2>3, <2>4, <2>6
<1> QED  BY <1>2, <1>3, <1>4 DEF Tle!wrapper

\* A step of main keeps the invariant.
LEMMA TleMainIInv == ASSUME TleIInv, Tle!main PROVE TleIInv'
<1> USE DEF TleIInv, Tle!MainGoto, Tle!sumVars, Tle!poolVars
<1>1. /\ sum \in Nat /\ Sum(input) \in Nat /\ Sum(TleHeld) \in Nat /\ TleRead \in Nat
      /\ x \in Nat
  BY SeqSumType, TleHeldType DEF TleTypeOK
<1>2. CASE Tle!Read /\ input # << >>
  <2>1. /\ Head(input) \in Nat /\ Tail(input) \in Seq(Nat)
        /\ Sum(input) = Head(input) + Sum(Tail(input)) /\ Sum(Tail(input)) \in Nat
    <3>1. input \in Seq(Nat) /\ input # << >>
      BY <1>2 DEF TleTypeOK
    <3>2. Head(input) \in Nat /\ Tail(input) \in Seq(Nat)
      BY <3>1
    <3> QED  BY <3>1, <3>2, SumTail, Zenon
  <2>2. TleTypeOK'
    <3>1. /\ mpc' = "lock" /\ x' = Head(input) /\ input' = Tail(input) /\ index' = 1
          /\ UNCHANGED <<sum, reg, arg, status, pc>>
      BY <1>2 DEF Tle!Read
    <3>2. mpc' \in TleMainLocs /\ x' \in Nat /\ input' \in Seq(Nat) /\ index' \in Nat \ {0}
      BY <2>1, <3>1 DEF TleMainLocs
    <3> QED  BY <3>1, <3>2, Zenon DEF TleTypeOK
  <2>3. TleLockInv' /\ TleSlotInv'
    BY <1>2 DEF Tle!Read, TleTypeOK, TleLockInv, TleSlotInv
  <2>4. TleHeld' = TleHeld
    BY <1>2 DEF Tle!Read, TleHeld
  <2>5. TleRead = 0 /\ TleRead' = Head(input) /\ input' = Tail(input) /\ sum' = sum
    BY <1>2 DEF Tle!Read, TleRead
  <2>6. TleTotal'
    <3>1. /\ sum' = sum /\ TleRead = 0 /\ TleRead' = Head(input)
          /\ Sum(input)' = Sum(Tail(input)) /\ Sum(TleHeld)' = Sum(TleHeld)
      BY <2>4, <2>5
    <3>2. sum + Sum(input) + Sum(TleHeld) + TleRead = Sum(Input)
      BY DEF TleTotal
    <3>3. /\ sum \in Nat /\ Sum(TleHeld) \in Nat /\ Head(input) \in Nat
          /\ Sum(input) = Head(input) + Sum(Tail(input)) /\ Sum(Tail(input)) \in Nat
      BY <1>1, <2>1
    <3>4. sum + Sum(Tail(input)) + Sum(TleHeld) + Head(input) = Sum(Input)
      <4> HIDE DEF TleIInv
      <4> QED  BY <3>1, <3>2, <3>3
    <3> QED  BY <3>1, <3>4 DEF TleTotal
  <2> QED  BY <2>2, <2>3, <2>6
<1>3. CASE Tle!TakeSlot
  <2>1. PICK k \in Tle!Slots : /\ Tle!IsFreeIndex(k)
                               /\ index' = k
                               /\ arg' = [arg EXCEPT ![k] = x]
                               /\ status' = [status EXCEPT ![k] = "T_LIVE"]
    BY <1>3, Zenon DEF Tle!TakeSlot
  <2>2. pc[k] = "none" /\ k \in Nat \ {0}
    <3>1. k \in Nat \ {0}
      BY NTHREADAssumption DEF Tle!Slots
    <3>2. pc[k] # "broadcast"
      BY <1>3, <3>1 DEF TleLockInv, Tle!TakeSlot, Tle!Main
    <3>3. pc[k] \in {"none", "broadcast"}
      BY <2>1 DEF Tle!IsFreeIndex, TleSlotInv
    <3> QED  BY <3>1, <3>2, <3>3
  <2>3. TleTypeOK'
    BY <1>3, <2>1, <2>2 DEF Tle!TakeSlot, TleTypeOK, TleMainLocs
  <2>4. TleLockInv'
    <3>1. /\ mpc = "while" /\ mpc' = "pthread_create" /\ tpool_lk' = {}
          /\ UNCHANGED <<sum, sum_lk, reg, pc>>
      BY <1>3 DEF Tle!TakeSlot
    <3>2. \A j \in Tle!Slots : pc[j] \notin {"free", "broadcast"}
      BY <3>1, NTHREADAssumption DEF TleLockInv, Tle!Main, Tle!Slots
    <3> QED  BY <3>1, <3>2 DEF TleLockInv
  <2>5. TleSlotInv'
    BY <1>3, <2>1, <2>2 DEF Tle!TakeSlot, TleTypeOK, TleSlotInv
  <2>6. Sum(TleHeld)' = Sum(TleHeld) + x
    <3>1. \A j \in Tle!Slots : j # k => TleHeld'[j] = TleHeld[j]
      BY <1>3, <2>1 DEF Tle!TakeSlot, TleHeld, TleTypeOK
    <3>2. TleHeld[k] = 0 /\ TleHeld'[k] = x
      BY <1>3, <2>1, <2>2 DEF Tle!TakeSlot, TleHeld, TleTypeOK, Adding
    <3>3. Sum(TleHeld)' = Sum(TleHeld) - TleHeld[k] + TleHeld'[k]
      BY <2>3, <3>1, TleMove
    <3> QED  BY <1>1, <3>2, <3>3
  <2>7. TleRead = x /\ TleRead' = 0 /\ input' = input /\ sum' = sum
    BY <1>3 DEF Tle!TakeSlot, TleRead
  <2>8. TleTotal'
    BY <1>1, <2>6, <2>7 DEF TleTotal
  <2> QED  BY <2>3, <2>4, <2>5, <2>8
<1>4. CASE Tle!PthreadCreate
  <2>1. TleTypeOK'
    BY <1>4, Zenon DEF Tle!PthreadCreate, TleTypeOK, TleMainLocs, TleLocs, Adding
  <2>2. TleLockInv' /\ TleSlotInv'
    BY <1>4 DEF Tle!PthreadCreate, TleTypeOK, TleLockInv, TleSlotInv
  <2>3. TleHeld' = TleHeld
    BY <1>4 DEF Tle!PthreadCreate, TleHeld, TleTypeOK, TleSlotInv, Adding
  <2>4. TleTotal'
    BY <1>4, <2>3 DEF Tle!PthreadCreate, TleTotal, TleRead
  <2> QED  BY <2>1, <2>2, <2>4
<1>5. CASE Tle!PthreadJoin
  <2>1. /\ mpc = "pthread_join" /\ mpc' = "join" /\ pc[index] = "none"
        /\ status' = [status EXCEPT ![index] = "T_DEAD"] /\ index' = index + 1
        /\ UNCHANGED <<input, sum, sum_lk, reg, arg, tpool_lk, pc, x>>
    BY <1>5 DEF Tle!PthreadJoin
  <2>2. TleTypeOK'
    <3>1. mpc' \in TleMainLocs /\ index' \in Nat \ {0}
      BY <2>1 DEF TleTypeOK, TleMainLocs
    <3>2. status' \in [Tle!Slots -> {"T_FREE", "T_LIVE", "T_DEAD"}]
      BY <2>1, Zenon DEF TleTypeOK
    <3> QED  BY <2>1, <3>1, <3>2, Zenon DEF TleTypeOK
  <2>3. TleLockInv'
    BY <2>1 DEF TleLockInv
  <2>4. TleSlotInv'
    <3>1. \A k \in Tle!Slots : k < index' => pc[k] \in {"none", "broadcast"}
      BY <2>1, NTHREADAssumption DEF TleTypeOK, TleSlotInv, Tle!Slots
    <3>2. \A k \in Tle!Slots : status'[k] # "T_LIVE" => pc[k] \in {"none", "broadcast"}
      BY <2>1 DEF TleTypeOK, TleSlotInv
    <3> QED  BY <2>1, <3>1, <3>2 DEF TleSlotInv
  <2>5. TleHeld' = TleHeld
    BY <2>1 DEF TleHeld
  <2>6. TleTotal'
    BY <2>1, <2>5 DEF TleTotal, TleRead
  <2> QED  BY <2>2, <2>3, <2>4, <2>6
<1>6. CASE (Tle!Read /\ input = << >>) \/ Tle!PassBy \/ Tle!SeesLive \/ Tle!PrintSum
  <2>1. /\ \/ mpc = "read" /\ mpc' = "join" /\ index' = 1 /\ input = << >>
           \/ /\ mpc = "join" /\ mpc' = "join" /\ index' = index + 1
              /\ index \in Tle!Slots /\ status[index] # "T_LIVE"
           \/ mpc = "join" /\ mpc' = "pthread_join" /\ index' = index /\ index \in Tle!Slots
           \/ mpc = "join" /\ mpc' = "printed" /\ index' = index /\ index > NTHREAD
        /\ UNCHANGED <<input, sum, sum_lk, reg, arg, status, tpool_lk, pc, x>>
    BY <1>6 DEF Tle!Read, Tle!PassBy, Tle!SeesLive, Tle!PrintSum
  <2>2. TleTypeOK'
    BY <2>1 DEF TleTypeOK, TleMainLocs
  <2>3. TleLockInv'
    BY <2>1 DEF TleLockInv
  <2>4. TleSlotInv'
    <3>1. \A k \in Tle!Slots : k < index' => pc[k] \in {"none", "broadcast"}
      <4>1. \A k \in Tle!Slots : k \in Nat \ {0}
        BY NTHREADAssumption DEF Tle!Slots
      <4>2. index \in Nat
        BY DEF TleTypeOK
      <4>3. CASE mpc = "read"
        BY <2>1, <4>1, <4>3
      <4>4. CASE mpc = "join"
        <5>1. \A k \in Tle!Slots : k < index => pc[k] \in {"none", "broadcast"}
          BY <4>4 DEF TleSlotInv
        <5>2. index' = index + 1 => pc[index] \in {"none", "broadcast"}
          BY <2>1, <4>2, <4>4 DEF TleSlotInv
        <5> QED  BY <2>1, <4>1, <4>2, <4>4, <5>1, <5>2
      <4> QED  BY <2>1, <4>3, <4>4
    <3> QED  BY <2>1, <3>1 DEF TleSlotInv
  <2>5. TleHeld' = TleHeld
    BY <2>1 DEF TleHeld
  <2>6. TleTotal'
    BY <2>1, <2>5 DEF TleTotal, TleRead
  <2> QED  BY <2>2, <2>3, <2>4, <2>6
<1>7. CASE Tle!LockCreate \/ Tle!CondWait \/ Tle!Return
  <2>1. /\ \/ mpc \in {"lock", "wait"} /\ mpc' = "while" /\ tpool_lk = {} /\ tpool_lk' = {Tle!Main}
           \/ mpc = "while" /\ mpc' = "wait" /\ tpool_lk' = {}
        /\ UNCHANGED <<input, sum, sum_lk, reg, arg, status, pc, x, index>>
    BY <1>7 DEF Tle!LockCreate, Tle!CondWait, Tle!Return
  <2>2. TleTypeOK'
    BY <2>1 DEF TleTypeOK, TleMainLocs
  <2>3. TleLockInv'
    <3>1. \A k \in Tle!Slots : pc[k] \notin {"free", "broadcast"}
      BY <2>1, NTHREADAssumption DEF TleLockInv, Tle!Main, Tle!Slots
    <3> QED  BY <2>1, <3>1 DEF TleLockInv
  <2>4. TleSlotInv'
    BY <2>1 DEF TleSlotInv
  <2>5. TleHeld' = TleHeld
    BY <2>1 DEF TleHeld
  <2>6. TleTotal'
    BY <2>1, <2>5 DEF TleTotal, TleRead
  <2> QED  BY <2>2, <2>3, <2>4, <2>6
<1> QED  BY <1>2, <1>3, <1>4, <1>5, <1>6, <1>7 DEF Tle!main, Tle!create, Tle!join

\* Every step keeps the invariant.
LEMMA TleNext == TleIInv /\ [Tle!Next]_Tle!vars => TleIInv'
<1> SUFFICES ASSUME TleIInv, [Tle!Next]_Tle!vars PROVE TleIInv'
  OBVIOUS
<1>1. ASSUME NEW k \in Tle!Slots, Tle!wrapper(k) PROVE TleIInv'
  BY <1>1, TleWrapperIInv
<1>2. CASE Tle!main
  BY <1>2, TleMainIInv
<1> USE DEF TleIInv, TleTypeOK, TleLockInv, TleSlotInv, TleTotal, TleHeld, TleRead
<1>3. CASE Tle!Spurious
  BY <1>3 DEF Tle!Spurious, Tle!sumVars, Tle!mainVars
<1>4. CASE UNCHANGED Tle!vars
  BY <1>4 DEF Tle!vars, Tle!sumVars, Tle!poolVars, Tle!mainVars
<1> QED  BY <1>1, <1>2, <1>3, <1>4 DEF Tle!Next, Tle!Over

\* No slot is used twice at a time, and when main has passed all slots every
\* number has been added.
LEMMA TlePrints == TleIInv => Tle!SlotsNotShared /\ Tle!PrintsTotal
<1> SUFFICES ASSUME TleIInv PROVE Tle!SlotsNotShared /\ Tle!PrintsTotal
  OBVIOUS
<1>1. Tle!SlotsNotShared
  BY DEF TleIInv, TleSlotInv, Tle!SlotsNotShared
<1>2. ASSUME mpc = "printed" PROVE sum = Sum(Input)
  <2>1. input = << >> /\ \A k \in Tle!Slots : pc[k] \notin Adding
    <3>1. \A k \in Tle!Slots : k < index
      BY <1>2, NTHREADAssumption DEF TleIInv, TleTypeOK, TleSlotInv, Tle!Slots
    <3> QED  BY <1>2, <3>1 DEF TleIInv, TleSlotInv, Adding
  <2>2. Sum(TleHeld) = 0
    <3>1. TleHeld \in [Tle!Slots -> Nat] /\ \A k \in Tle!Slots : TleHeld[k] = 0
      BY <1>2, <2>1, TleHeldType DEF TleIInv, TleHeld
    <3> QED  BY <3>1, SumZero
  <2>3. sum \in Nat /\ TleTotal /\ TleRead = 0
    BY <1>2 DEF TleIInv, TleTypeOK, TleRead
  <2> QED  BY <2>1, <2>2, <2>3, SumEmpty DEF TleTotal
<1>3. Tle!Total = Sum(Input)
  <2>1. [k \in DOMAIN Input |-> Input[k]] = Input
    BY InputAssumption
  <2> QED  BY <2>1, TleSums DEF Tle!Total, Tle!f
<1> QED  BY <1>1, <1>2, <1>3 DEF Tle!PrintsTotal

-----------------------------------------------------------------------------
(* All of them, as the run has them *)

AllIInv ==
  /\ program \in {"v2", "v1", "v1, one producer", "tle"}
  /\ program = "v2" => V2IInv
  /\ program = "v1" => V1IInv(Producers, Few)
  /\ program = "v1, one producer" => V1IInv({p1}, Input)
  /\ program = "tle" => TleIInv

\* Whichever program is chosen starts in its invariant.
LEMMA AllInitIInv == AllInit => AllIInv
<1> SUFFICES ASSUME AllInit PROVE AllIInv
  OBVIOUS
<1>1. /\ program \in {"v2", "v1", "v1, one producer", "tle"}
      /\ program = "v2" => Init
      /\ program = "v1" => V1(Producers, Few)!Init
      /\ program = "v1, one producer" => V1({p1}, Input)!Init
      /\ program = "tle" => Tle!Init
  BY Zenon DEF AllInit
<1>2. program = "v1" => V1IInv(Producers, Few)
  BY <1>1, V1Init, ProducersAssumption, InputAssumption
<1>3. program = "v1, one producer" => V1IInv({p1}, Input)
  BY <1>1, V1Init, ProducersAssumption, InputAssumption
<1> QED  BY <1>1, <1>2, <1>3, V2Init, TleInit DEF AllIInv

\* A step of the family is a step of the program that was chosen.
LEMMA AllSteps ==
  [AllNext]_all =>
    /\ program' = program
    /\ program = "v2" => [Next]_vars
    /\ program = "v1" => V1(Producers, Few)!Next \/ UNCHANGED V1(Producers, Few)!vars
    /\ program = "v1, one producer" => V1({p1}, Input)!Next \/ UNCHANGED V1({p1}, Input)!vars
    /\ program = "tle" => [Tle!Next]_Tle!vars
<1>1. CASE UNCHANGED all
  BY <1>1 DEF all, v1Vars, tleVars, vars, sumVars, V1!vars, V1!sumVars, Tle!vars, Tle!sumVars,
              Tle!poolVars, Tle!mainVars
<1>2. CASE AllNext
  BY <1>2, Zenon DEF AllNext, InV2, InV1, InTle
<1> QED  BY <1>1, <1>2

\* Every step keeps the invariant.
LEMMA AllNextIInv == AllIInv /\ [AllNext]_all => AllIInv'
<1> SUFFICES ASSUME AllIInv, [AllNext]_all PROVE AllIInv'
  OBVIOUS
<1>1. program' = program /\ (program = "v2" => V2IInv') /\ (program = "tle" => TleIInv')
  BY AllSteps, V2Next, TleNext DEF AllIInv
<1>2. program = "v1" => V1IInv(Producers, Few)'
  BY AllSteps, V1Next, ProducersAssumption DEF AllIInv
<1>3. program = "v1, one producer" => V1IInv({p1}, Input)'
  BY AllSteps, V1Next, ProducersAssumption DEF AllIInv
<1> QED  BY <1>1, <1>2, <1>3 DEF AllIInv

\* The invariant of the program that runs holds in every reachable state.
THEOREM MidtermInvariant == AllSpec => []AllIInv
BY AllInitIInv, AllNextIInv, PTL DEF AllSpec

\* For every number of threads and of slots and everything that may be on
\* stdin, the midterm programs lose no number and add none twice, and print
\* the sum of all of stdin if they print; midterm-tle.c does not start a
\* thread in a slot that still has one.
THEOREM MidtermNoNumberLost == AllSpec => []NoNumberLost
<1>1. ASSUME AllIInv PROVE NoNumberLost
  <2>1. program = "v1" => V1(Producers, Few)!NothingLost /\ V1(Producers, Few)!PrintsTotal
    BY <1>1, V1Prints, ProducersAssumption, InputAssumption DEF AllIInv
  <2>2. program = "v1, one producer" =>
          V1({p1}, Input)!NothingLost /\ V1({p1}, Input)!PrintsTotal
    BY <1>1, V1Prints, ProducersAssumption, InputAssumption DEF AllIInv
  <2>3. /\ program = "v2" => NothingLost /\ PrintsTotal
        /\ program = "tle" => Tle!SlotsNotShared /\ Tle!PrintsTotal
    BY <1>1, V2Prints, TlePrints DEF AllIInv
  <2> QED  BY <2>1, <2>2, <2>3 DEF NoNumberLost
<1> QED  BY <1>1, MidtermInvariant, PTL
=============================================================================
