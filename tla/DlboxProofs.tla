---------------------------- MODULE DlboxProofs ----------------------------
(***************************************************************************)
(* Proofs about the loader of .dl files, for all files and lengths of its  *)
(* arrays that the assumptions of MCLoading allow: dlbox.c links well.     *)
(*                                                                         *)
(* The invariant says what an unfinished call of dlopen has done: the      *)
(* calls are nested as the files need each other, and what a call has      *)
(* passed is done but for the library that the next call opens.  In well   *)
(* linked files no file needs itself, so a library that is skipped as      *)
(* loaded is not one that is still open.                                   *)
(***************************************************************************)
EXTENDS MCLoading, TLAPS

\* A file needs itself.
LEMMA NeededSelf == ASSUME NEW p \in DOMAIN files  PROVE p \in Dl!Needed(p)
  BY DEF Dl!Needed

\* What is needed is there.
LEMMA NeededIn == ASSUME NEW p, NEW q \in Dl!Needed(p)  PROVE q \in DOMAIN files
  BY DEF Dl!Needed

\* What a needed file loads is needed.
LEMMA NeededLoads ==
  ASSUME Dl!WellLinked, NEW p, NEW q \in Dl!Needed(p)
  PROVE  Dl!Loads(q) \subseteq Dl!Needed(p)
<1> SUFFICES ASSUME NEW l \in Dl!Loads(q), NEW C \in SUBSET DOMAIN files,
                    p \in C, \A r \in C : Dl!Loads(r) \subseteq C
             PROVE  l \in C
  BY NeededIn DEF Dl!Needed, Dl!WellLinked
<1>1. q \in C
  BY DEF Dl!Needed
<1> QED  BY <1>1

\* What a file needs is the file itself or needed by something it loads.
LEMMA NeededSplit ==
  ASSUME Dl!WellLinked, NEW p \in DOMAIN files, NEW r \in Dl!Needed(p), r # p
  PROVE  \E l \in Dl!Loads(p) : r \in Dl!Needed(l)
<1> DEFINE C == {p} \union {q \in DOMAIN files : \E l \in Dl!Loads(p) : q \in Dl!Needed(l)}
<1>1. C \in SUBSET DOMAIN files /\ p \in C
  OBVIOUS
<1>2. ASSUME NEW q \in C, NEW x \in Dl!Loads(q)  PROVE x \in C
  <2>1. q \in DOMAIN files /\ x \in DOMAIN files
    BY <1>1, <1>2 DEF Dl!WellLinked
  <2>2. CASE q = p
    BY <1>2, <2>1, <2>2, NeededSelf
  <2>3. CASE q # p
    <3>1. PICK l \in Dl!Loads(p) : q \in Dl!Needed(l)
      BY <2>3
    <3>2. x \in Dl!Needed(l)
      BY <1>2, <3>1, NeededLoads
    <3> QED  BY <2>1, <3>1, <3>2
  <2> QED  BY <2>2, <2>3
<1>3. r \in C
  BY <1>1, <1>2, Zenon DEF Dl!Needed
<1> QED  BY <1>3
-----------------------------------------------------------------------------
\* the names that have been exported
Known == {syms[k].name : k \in DOMAIN syms}
\* Everything that q needs has been exported.
Done(q) == \A r \in Dl!Needed(q) : Dl!Exports(r) \subseteq Known
\* the file that call d of dlopen reads
File(d) == maps[stack[d].h]
\* its record j
Rec(d, j) == files[File(d)][j]

\* A call is nested in calls of files that need its file.
Nested == \A d, e \in DOMAIN stack : d <= e => File(e) \in Dl!Needed(File(d))

\* Call d has dealt with record x: the symbol is known, the library done, or
\* being opened by the next call.
Met(d, x) == /\ x.type = "#" => x.name \in Known
             /\ x.type = "+" => Done(x.name) \/ (d < Len(stack) /\ x.name = File(d + 1))

\* The records that a call has passed have been dealt with.
Passed == \A d \in DOMAIN stack : \A j \in DOMAIN files[File(d)] :
            j < stack[d].sym => Met(d, Rec(d, j))

\* A library that is registered is done or being opened.
LibsOpened == \A k \in DOMAIN libs : /\ libs[k] \in DOMAIN files
                                     /\ Done(libs[k]) \/ \E d \in DOMAIN stack : File(d) = libs[k]

\* the types of the variables of dlbox.c
DlType == /\ IsFiniteSet(DOMAIN files)
          /\ \A p \in DOMAIN files : files[p] \in Seq(Record)
          /\ argv \in Seq(Strings) /\ path \in Nat \ {0}
          /\ maps \in Seq(DOMAIN files)
          /\ stack \in Seq([h : Nat, sym : Nat \ {0}])
          /\ \A d \in DOMAIN stack : stack[d].h \in DOMAIN maps
          /\ libs \in Seq(Strings) /\ Len(libs) <= LIBS
          /\ syms \in Seq([name : Strings, addr : Nat \X Nat]) /\ Len(syms) <= SYMS

\* A library has one slot.
Distinct == \A j, k \in DOMAIN libs : libs[j] = libs[k] => j = k

\* An import is bound to the first slot of its name.
Bound == \A b \in bound : \E k \in DOMAIN syms : /\ syms[k] = b
                                                 /\ \A j \in 1..(k - 1) : syms[j].name # b.name

\* p has a slot of libs
InLibs(p) == \E k \in DOMAIN libs : libs[k] = p
\* how often main has been given p
Given(p) == Dl!Count(SubSeq(argv, 1, path - 1), p)
\* A file is mapped as often as it was given to main, and once more if it is a
\* library.
Counted == \A p \in DOMAIN files : /\ Dl!Count(maps, p) \in Nat /\ Given(p) \in Nat
                                   /\ Dl!Count(maps, p) <= Given(p) + 1
                                   /\ ~InLibs(p) => Dl!Count(maps, p) <= Given(p)

\* the inductive invariant of dlbox.c
DlInv == /\ DlType /\ Distinct /\ Bound /\ Counted /\ Dl!NoAbort
         /\ status # "abort" /\ Dl!WellLinked => Nested /\ Passed /\ LibsOpened

\* Count counts.
LEMMA CountIs == \A s, p : Dl!Count(s, p) = Cardinality({k \in DOMAIN s : s[k] = p})
  BY DEF Dl!Count, Dl!Cardinality, Cardinality

\* The elements of a sequence have the indices from 1 to its length.
LEMMA Indices == ASSUME NEW S, NEW s \in Seq(S)
                 PROVE  Len(s) \in Nat /\ DOMAIN s = 1..Len(s) /\ \A k \in DOMAIN s : s[k] \in S
  OBVIOUS

\* A sequence that is not empty has a last element.
LEMMA Last == ASSUME NEW S, NEW s \in Seq(S), s # << >>
              PROVE  Len(s) \in Nat \ {0} /\ Len(s) \in DOMAIN s /\ s[Len(s)] \in S
  OBVIOUS

\* A prefix of a sequence has its first elements.
LEMMA Prefix ==
  ASSUME NEW S, NEW s \in Seq(S), NEW m \in Nat, m <= Len(s)
  PROVE  /\ SubSeq(s, 1, m) \in Seq(S) /\ Len(SubSeq(s, 1, m)) = m
         /\ DOMAIN SubSeq(s, 1, m) = 1..m /\ \A d \in 1..m : SubSeq(s, 1, m)[d] = s[d]
<1>1. PICK t : t = SubSeq(s, 1, m)
  BY Zenon
<1>2. t \in Seq(S) /\ Len(t) = m
  BY <1>1
<1>3. \A d \in 1..m : t[d] = s[d]
  BY <1>1
<1>4. DOMAIN t = 1..m
  BY <1>2, <1>3
<1> QED  BY <1>1, <1>2, <1>3, <1>4

\* A prefix grows by one element.
LEMMA PrefixMore ==
  ASSUME NEW S, NEW s \in Seq(S), NEW m \in Nat \ {0}, m <= Len(s)
  PROVE  SubSeq(s, 1, m) = Append(SubSeq(s, 1, m - 1), s[m])
<1>1. PICK t, u : t = SubSeq(s, 1, m) /\ u = SubSeq(s, 1, m - 1)
  BY Zenon
<1>2. t \in Seq(S) /\ Len(t) = m /\ \A d \in 1..m : t[d] = s[d]
  BY <1>1, Prefix
<1>3. u \in Seq(S) /\ Len(u) = m - 1 /\ \A d \in 1..(m - 1) : u[d] = s[d]
  BY <1>1, Prefix
<1>4. s[m] \in S
  OBVIOUS
<1>5. PICK v : v = Append(u, s[m])
  BY Zenon
<1>6. v \in Seq(S) /\ Len(v) = m /\ \A d \in 1..m : v[d] = s[d]
  BY <1>3, <1>4, <1>5
<1>7. t = v
  BY <1>2, <1>6
<1> QED  BY <1>1, <1>5, <1>7

\* The invariant is what was to be shown: one definition for each name, and no
\* assertion that fails without a reason.
LEMMA DlImplies == DlInv => Dl!OneDefinition /\ Dl!NoAbort
<1> SUFFICES ASSUME DlInv  PROVE Dl!OneDefinition
  BY DEF DlInv
<1>1. ASSUME NEW b \in bound, NEW c \in bound, b.name = c.name  PROVE b.addr = c.addr
  <2>1. PICK j \in DOMAIN syms : syms[j] = b /\ \A m \in 1..(j - 1) : syms[m].name # b.name
    BY DEF DlInv, Bound
  <2>2. PICK k \in DOMAIN syms : syms[k] = c /\ \A m \in 1..(k - 1) : syms[m].name # c.name
    BY DEF DlInv, Bound
  <2>3. DOMAIN syms = 1..Len(syms) /\ Len(syms) \in Nat
    BY Indices, Zenon DEF DlInv, DlType
  <2>4. j = k
    BY <1>1, <2>1, <2>2, <2>3
  <2> QED  BY <2>1, <2>2, <2>4
<1>2. ASSUME NEW p \in DOMAIN files
      PROVE  Dl!Count(maps, p) <= 1 + Dl!Count(SubSeq(argv, 1, path - 1), p)
  BY DEF DlInv, Counted, Given
<1> QED  BY <1>1, <1>2 DEF Dl!OneDefinition

\* What has been exported stays exported: slots of syms are never given up.
LEMMA DoneStays ==
  ASSUME files' = files, Known \subseteq Known', NEW q, Done(q)
  PROVE  Done(q)'
<1>1. Dl!Needed(q)' = Dl!Needed(q)
  BY DEF Dl!Needed, Dl!Loads
<1>2. \A r : Dl!Exports(r)' = Dl!Exports(r)
  BY DEF Dl!Exports
<1> QED  BY <1>1, <1>2 DEF Done

\* The files do not change while they are loaded.
LEMMA LinkedStays == ASSUME files' = files  PROVE Dl!WellLinked' <=> Dl!WellLinked
  BY DEF Dl!WellLinked, Dl!Needed, Dl!Loads, Dl!Exports

\* A step that changes nothing in the tables keeps how the files are linked.
LEMMA LinksStay ==
  ASSUME UNCHANGED <<files, maps, stack, libs, syms>>, Nested, Passed, LibsOpened
  PROVE  (Nested /\ Passed /\ LibsOpened)'
<1>1. Known' = Known
  BY DEF Known
<1>2. \A q : Done(q) => Done(q)'
  BY <1>1, DoneStays
<1>3. \A d : File(d)' = File(d)
  BY DEF File
<1>4. \A d, j : Rec(d, j)' = Rec(d, j)
  BY <1>3 DEF Rec
<1>5. \A q : Dl!Needed(q)' = Dl!Needed(q)
  BY DEF Dl!Needed, Dl!Loads
<1>6. Nested'
  BY <1>3, <1>5 DEF Nested
<1>7. LibsOpened'
  BY <1>2, <1>3 DEF LibsOpened
<1>8. ASSUME NEW d, NEW x, Met(d, x)  PROVE Met(d, x)'
  BY <1>1, <1>2, <1>3, <1>8 DEF Met
<1>9. ASSUME NEW d \in DOMAIN stack', NEW j \in (DOMAIN files[File(d)])', j < stack'[d].sym
      PROVE  Met(d, Rec(d, j))'
  <2>1. d \in DOMAIN stack /\ j \in DOMAIN files[File(d)] /\ j < stack[d].sym
    BY <1>3, <1>9
  <2>2. PICK x : x = Rec(d, j) /\ x = Rec(d, j)'
    BY <1>4
  <2>3. Met(d, x)
    BY <2>1, <2>2, Zenon DEF Passed
  <2>4. Met(d, x)'
    BY <1>8, <2>3
  <2> QED  BY <2>2, <2>4 DEF Met
<1>10. Passed'
  BY <1>9 DEF Passed
<1> QED  BY <1>6, <1>7, <1>10

\* The innermost call of dlopen is at a record of a file that is mapped.
LEMMA AtTop ==
  ASSUME DlType, stack # << >>
  PROVE  LET n == Len(stack)
         IN  /\ n \in Nat \ {0} /\ DOMAIN stack = 1..n /\ n \in DOMAIN stack
             /\ \A d \in 1..n : /\ stack[d].h \in Nat /\ stack[d].sym \in Nat \ {0}
                                /\ stack[d].h \in DOMAIN maps
                                /\ File(d) \in DOMAIN files /\ files[File(d)] \in Seq(Record)
             /\ Dl!f = stack[n] /\ Dl!symtab = files[File(n)]
             /\ Dl!name = files[File(n)][stack[n].sym].name
<1> DEFINE n == Len(stack)
<1>1. stack \in Seq([h : Nat, sym : Nat \ {0}]) /\ maps \in Seq(DOMAIN files)
  BY DEF DlType
<1>2. n \in Nat \ {0} /\ DOMAIN stack = 1..n /\ n \in DOMAIN stack
  BY <1>1, Last, Indices, Zenon
<1>3. \A h \in DOMAIN maps : maps[h] \in DOMAIN files
  BY <1>1, Indices, Zenon
<1>4. ASSUME NEW d \in 1..n
      PROVE  /\ stack[d].h \in Nat /\ stack[d].sym \in Nat \ {0} /\ stack[d].h \in DOMAIN maps
             /\ File(d) \in DOMAIN files /\ files[File(d)] \in Seq(Record)
  <2>1. stack[d] \in [h : Nat, sym : Nat \ {0}]
    BY <1>1, <1>2, Indices, Zenon
  <2>2. stack[d].h \in DOMAIN maps
    BY <1>2, Zenon DEF DlType
  <2>3. File(d) \in DOMAIN files
    BY <1>3, <2>2 DEF File
  <2>4. files[File(d)] \in Seq(Record)
    BY <2>3 DEF DlType
  <2> QED  BY <2>1, <2>2, <2>3, <2>4
<1>5. Dl!f = stack[n] /\ Dl!symtab = files[File(n)]
  BY DEF Dl!f, Dl!symtab, File
<1>6. Dl!name = files[File(n)][stack[n].sym].name
  BY <1>5, Zenon DEF Dl!name
<1> QED  BY <1>2, <1>4, <1>5, <1>6, Zenon

\* In the switch of dlopen (dlbox.c:117-123) there is such a record, of the type
\* of the case that is taken.
LEMMA AtRecord ==
  ASSUME DlType, NEW type, Dl!Case(type)
  PROVE  LET n == Len(stack)
             p == File(n)
             k == stack[n].sym
         IN  /\ k \in DOMAIN files[p] /\ files[p][k].type = type /\ Dl!name \in Strings
             /\ stack # << >> /\ status = "run"
<1> DEFINE n == Len(stack)
           p == File(n)
           k == stack[n].sym
<1>1. stack # << >> /\ status = "run"
  BY DEF Dl!Case
<1>2. /\ n \in 1..n /\ k \in Nat \ {0} /\ files[p] \in Seq(Record) /\ Dl!f = stack[n]
      /\ Dl!symtab = files[p] /\ Dl!name = files[p][k].name
  BY <1>1, AtTop
<1>3. k <= Len(files[p]) /\ files[p][k].type = type
  BY <1>2 DEF Dl!Case
<1>4. k \in DOMAIN files[p]
  BY <1>2, <1>3
<1>5. files[p][k] \in Record
  BY <1>2, <1>4
<1>6. Dl!name \in Strings
  BY <1>2, <1>5 DEF Record
<1> QED  BY <1>1, <1>3, <1>4, <1>6

\* The loop goes on to the next record in the innermost call and in no other.
LEMMA AdvancedIs ==
  ASSUME DlType, stack # << >>
  PROVE  LET n == Len(stack)
         IN  /\ Dl!Advanced \in Seq([h : Nat, sym : Nat \ {0}]) /\ Len(Dl!Advanced) = n
             /\ DOMAIN Dl!Advanced = 1..n
             /\ \A d \in 1..n : Dl!Advanced[d].h = stack[d].h
             /\ \A d \in 1..(n - 1) : Dl!Advanced[d] = stack[d]
             /\ Dl!Advanced[n].sym = stack[n].sym + 1
<1>1. PICK n \in Nat \ {0} : n = Len(stack)
  BY AtTop, Zenon
<1>2. /\ DOMAIN stack = 1..n /\ Dl!f = stack[n] /\ stack[n].h \in Nat /\ stack[n].sym \in Nat \ {0}
      /\ stack \in Seq([h : Nat, sym : Nat \ {0}])
  BY <1>1, AtTop DEF DlType
<1>3. Dl!Advanced = [stack EXCEPT ![n] = [h |-> stack[n].h, sym |-> stack[n].sym + 1]]
  BY <1>1, <1>2 DEF Dl!Advanced
<1>4. [h |-> stack[n].h, sym |-> stack[n].sym + 1] \in [h : Nat, sym : Nat \ {0}]
  BY <1>2
<1> HIDE DEF Dl!Advanced
<1>5. Dl!Advanced \in Seq([h : Nat, sym : Nat \ {0}]) /\ Len(Dl!Advanced) = n
  BY <1>1, <1>2, <1>3, <1>4
<1>6. DOMAIN Dl!Advanced = 1..n
  BY <1>2, <1>3
<1>7. \A d \in 1..(n - 1) : Dl!Advanced[d] = stack[d]
  BY <1>2, <1>3
<1>8. Dl!Advanced[n] = [h |-> stack[n].h, sym |-> stack[n].sym + 1]
  BY <1>2, <1>3
<1>9. \A d \in 1..n : Dl!Advanced[d].h = stack[d].h
  BY <1>7, <1>8
<1> QED  BY <1>1, <1>5, <1>6, <1>7, <1>8, <1>9

\* A record is passed that opens nothing: the calls are nested as before, and it
\* is one more record whose symbol or library is known.
LEMMA AdvanceLinks ==
  ASSUME DlType, NEW type, Dl!Case(type), stack' = Dl!Advanced,
         files' = files, maps' = maps, libs' = libs, Known \subseteq Known',
         Nested, Passed, LibsOpened, NEW s, s = Dl!name,
         type = "#" => s \in Known', type = "+" => Done(s)'
  PROVE  (Nested /\ Passed /\ LibsOpened)'
<1>1. PICK n \in Nat \ {0} : n = Len(stack)
  BY AtRecord, AtTop
<1>2. /\ DOMAIN stack = 1..n
      /\ \A d \in 1..n : /\ stack[d].sym \in Nat \ {0} /\ stack[d].h \in DOMAIN maps
                         /\ files[File(d)] \in Seq(Record)
      /\ Dl!name = Rec(n, stack[n].sym).name
  BY <1>1, AtRecord, AtTop DEF Rec
<1>3. /\ DOMAIN stack' = 1..n /\ Len(stack') = n /\ \A d \in 1..n : stack'[d].h = stack[d].h
      /\ \A d \in 1..(n - 1) : stack'[d] = stack[d]
      /\ stack'[n].sym = stack[n].sym + 1
  BY <1>1, AtRecord, AdvancedIs
<1>4. \A d \in 1..n : File(d)' = File(d)
  BY <1>3 DEF File
<1>5. \A q : Dl!Needed(q)' = Dl!Needed(q)
  BY DEF Dl!Needed, Dl!Loads
<1>6. Nested'
  BY <1>2, <1>3, <1>4, <1>5 DEF Nested
<1>7. \A q : Done(q) => Done(q)'
  BY DoneStays
<1>8. LibsOpened'
  BY <1>2, <1>3, <1>4, <1>7 DEF LibsOpened
<1>9. ASSUME NEW d \in 1..n, NEW x, Met(d, x)  PROVE Met(d, x)'
  <2>1. d < n => d + 1 \in 1..n
    OBVIOUS
  <2>2. d < n => File(d + 1)' = File(d + 1)
    BY <1>4, <2>1
  <2> QED  BY <1>1, <1>3, <1>7, <1>9, <2>2 DEF Met
<1>10. ASSUME NEW d \in DOMAIN stack', NEW j \in (DOMAIN files[File(d)])', j < stack'[d].sym
       PROVE  Met(d, Rec(d, j))'
  <2>1. d \in 1..n /\ File(d)' = File(d)
    BY <1>3, <1>4
  <2>2. PICK x : x = Rec(d, j) /\ x = Rec(d, j)'
    BY <2>1 DEF Rec
  <2>3. j \in DOMAIN files[File(d)] /\ files[File(d)] \in Seq(Record)
    BY <1>2, <1>10, <2>1
  <2>4. j \in Nat
    BY <2>3
  <2>5. Met(d, x)'
    <3>1. CASE j < stack[d].sym
      <4>1. Met(d, x)
        BY <1>2, <2>1, <2>2, <2>3, <3>1, Zenon DEF Passed
      <4> QED  BY <1>9, <2>1, <4>1
    <3>2. CASE ~ j < stack[d].sym
      <4>1. d = n
        BY <1>1, <1>3, <1>10, <2>1, <3>2
      <4>2. PICK k \in Nat : k = stack[n].sym
        BY <1>1, <1>2
      <4>3. j < k + 1 /\ ~ j < k
        BY <1>3, <1>10, <3>2, <4>1, <4>2
      <4>4. j = k
        BY <2>4, <4>3
      <4>5. x.type = type /\ x.name = s
        BY <1>1, <1>2, <2>2, <4>1, <4>2, <4>4, AtRecord, Zenon DEF Rec
      <4> QED  BY <4>5 DEF Met
    <3> QED  BY <3>1, <3>2
  <2> QED  BY <2>2, <2>5 DEF Met
<1>11. Passed'
  BY <1>10 DEF Passed
<1> QED  BY <1>6, <1>8, <1>11

\* dlload opens a library (dlbox.c:172-182): the call for it is nested in the
\* call that is at the LOAD, and the library counts as being opened.
LEMMA PushLinks ==
  ASSUME DlType, Dl!Case("+"), Dl!WellLinked, NEW s, s = Dl!name, s \in DOMAIN files,
         libs' = Append(libs, s), Dl!dlopen(s, Dl!Advanced),
         files' = files, syms' = syms, Nested, Passed, LibsOpened
  PROVE  (Nested /\ Passed /\ LibsOpened)'
<1>1. PICK n \in Nat \ {0} : n = Len(stack)
  BY AtRecord, AtTop
<1>2. /\ DOMAIN stack = 1..n
      /\ \A d \in 1..n : /\ stack[d].sym \in Nat \ {0} /\ stack[d].h \in DOMAIN maps
                         /\ File(d) \in DOMAIN files /\ files[File(d)] \in Seq(Record)
      /\ Dl!name = Rec(n, stack[n].sym).name
  BY <1>1, AtRecord, AtTop DEF Rec
<1>3. maps \in Seq(DOMAIN files) /\ libs \in Seq(Strings) /\ s \in Strings
  BY AtRecord DEF DlType
<1>4. /\ maps' = Append(maps, s)
      /\ stack' = Append(Dl!Advanced, [h |-> Len(maps) + 1, sym |-> 1])
  BY DEF Dl!dlopen
<1>5. /\ DOMAIN stack' = 1..(n + 1) /\ Len(stack') = n + 1
      /\ \A d \in 1..n : stack'[d].h = stack[d].h
      /\ \A d \in 1..(n - 1) : stack'[d] = stack[d]
      /\ stack'[n].sym = stack[n].sym + 1
      /\ stack'[n + 1].h = Len(maps) + 1 /\ stack'[n + 1].sym = 1
  <2>1. PICK t \in Seq([h : Nat, sym : Nat \ {0}]) : t = Dl!Advanced
    BY AtRecord, AdvancedIs
  <2>2. /\ Len(t) = n /\ DOMAIN t = 1..n
        /\ \A d \in 1..n : t[d].h = stack[d].h
        /\ \A d \in 1..(n - 1) : t[d] = stack[d]
        /\ t[n].sym = stack[n].sym + 1
    BY <1>1, <2>1, AtRecord, AdvancedIs
  <2>3. PICK e : e = [h |-> Len(maps) + 1, sym |-> 1]
    BY Zenon
  <2>4. /\ e \in [h : Nat, sym : Nat \ {0}]
    BY <1>3, <2>3
  <2>5. stack' = Append(t, e)
    BY <1>4, <2>1, <2>3
  <2>6. /\ DOMAIN stack' = 1..(n + 1) /\ Len(stack') = n + 1
        /\ \A d \in 1..n : stack'[d] = t[d]
        /\ stack'[n + 1] = e
    BY <2>1, <2>2, <2>4, <2>5
  <2> QED  BY <2>2, <2>3, <2>6
<1>6. /\ \A d \in 1..n : File(d)' = File(d)
      /\ File(n + 1)' = s
  <2>1. \A h \in DOMAIN maps : maps'[h] = maps[h]
    BY <1>3, <1>4
  <2>2. maps'[Len(maps) + 1] = s
    BY <1>3, <1>4
  <2> QED  BY <1>2, <1>5, <2>1, <2>2 DEF File
<1>7. \A q : Dl!Needed(q)' = Dl!Needed(q)
  BY DEF Dl!Needed, Dl!Loads
<1>8. s \in Dl!Loads(File(n))
  <2>1. PICK p : \E k : p = File(n) /\ k = stack[n].sym /\ k \in DOMAIN files[p]
    BY <1>1, AtRecord
  <2>2. PICK k \in DOMAIN files[p] : k = stack[n].sym
    BY <2>1
  <2>3. files[p][k].type = "+" /\ s = files[p][k].name
    BY <1>1, <1>2, <2>1, <2>2, AtRecord, Zenon DEF Rec
  <2>4. s \in Dl!Loads(p)
    BY <2>2, <2>3 DEF Dl!Loads
  <2> QED  BY <2>1, <2>4
<1>9. Nested'
  <2> SUFFICES ASSUME NEW d \in 1..(n + 1), NEW e \in 1..(n + 1), d <= e
               PROVE  File(e)' \in Dl!Needed(File(d)')
    BY <1>5, <1>7 DEF Nested
  <2>1. CASE e # n + 1
    <3>1. d \in 1..n /\ e \in 1..n
      BY <2>1
    <3>2. File(e) \in Dl!Needed(File(d))
      BY <1>2, <3>1, Zenon DEF Nested
    <3> QED  BY <1>6, <3>1, <3>2
  <2>2. CASE e = n + 1 /\ d = n + 1
    BY <1>6, <2>2, NeededSelf
  <2>3. CASE e = n + 1 /\ d # n + 1
    <3>1. d \in 1..n /\ n \in 1..n /\ d <= n
      BY <2>3
    <3>2. File(n) \in Dl!Needed(File(d))
      BY <1>2, <3>1, Zenon DEF Nested
    <3>3. s \in Dl!Needed(File(d))
      BY <1>8, <3>2, NeededLoads
    <3> QED  BY <1>6, <2>3, <3>1, <3>3
  <2> QED  BY <2>1, <2>2, <2>3
<1>10. \A q : Done(q) => Done(q)'
  BY DoneStays DEF Known
<1>11. LibsOpened'
  <2> SUFFICES ASSUME NEW k \in DOMAIN libs', NEW q, q = libs'[k]
               PROVE  /\ q \in DOMAIN files
                      /\ Done(q)' \/ \E d \in DOMAIN stack' : File(d)' = q
    BY DEF LibsOpened
  <2>1. CASE k \in DOMAIN libs
    <3>1. q = libs[k]
      BY <1>3, <2>1
    <3>2. q \in DOMAIN files /\ (Done(q) \/ \E d \in DOMAIN stack : File(d) = q)
      BY <2>1, <3>1 DEF LibsOpened
    <3>3. \A d \in DOMAIN stack : d \in DOMAIN stack' /\ File(d)' = File(d)
      BY <1>2, <1>5, <1>6
    <3> QED  BY <1>10, <3>2, <3>3
  <2>2. CASE k \notin DOMAIN libs
    <3>1. q = s
      BY <1>3, <2>2
    <3> QED  BY <1>5, <1>6, <3>1
  <2> QED  BY <2>1, <2>2
<1>12. ASSUME NEW d \in 1..n, NEW x, Met(d, x)  PROVE Met(d, x)'
  <2>1. d < n => d + 1 \in 1..n /\ d < n + 1
    OBVIOUS
  <2>2. d < n => File(d + 1)' = File(d + 1)
    BY <1>6, <2>1
  <2>3. Known' = Known
    BY DEF Known
  <2> QED  BY <1>1, <1>5, <1>10, <1>12, <2>1, <2>2, <2>3 DEF Met
<1>13. ASSUME NEW d \in DOMAIN stack', NEW j \in (DOMAIN files[File(d)])', j < stack'[d].sym
       PROVE  Met(d, Rec(d, j))'
  <2>1. d # n + 1
    <3>1. s \in DOMAIN files /\ files[s] \in Seq(Record)
      BY DEF DlType
    <3>2. ASSUME d = n + 1  PROVE FALSE
      <4>1. j \in DOMAIN files[s] /\ j < 1
        BY <1>5, <1>6, <1>13, <3>2
      <4> QED  BY <3>1, <4>1
    <3> QED  BY <3>2
  <2>2. d \in 1..n
    BY <1>5, <2>1
  <2>3. File(d)' = File(d)
    BY <1>6, <2>2
  <2>4. PICK x : x = Rec(d, j) /\ x = Rec(d, j)'
    BY <2>3 DEF Rec
  <2>5. j \in DOMAIN files[File(d)] /\ files[File(d)] \in Seq(Record)
    BY <1>2, <1>13, <2>2, <2>3
  <2>6. j \in Nat
    BY <2>5
  <2>7. Met(d, x)'
    <3>1. CASE j < stack[d].sym
      <4>1. Met(d, x)
        BY <1>2, <2>2, <2>4, <2>5, <3>1, Zenon DEF Passed
      <4> QED  BY <1>12, <2>2, <4>1
    <3>2. CASE ~ j < stack[d].sym
      <4>1. d = n
        BY <1>1, <1>5, <1>13, <2>2, <3>2
      <4>2. PICK k \in Nat : k = stack[n].sym
        BY <1>1, <1>2
      <4>3. j < k + 1 /\ ~ j < k
        BY <1>5, <1>13, <3>2, <4>1, <4>2
      <4>4. j = k
        BY <2>6, <4>3
      <4>5. x.type = "+" /\ x.name = s
        BY <1>1, <1>2, <2>4, <4>1, <4>2, <4>4, AtRecord, Zenon DEF Rec
      <4>6. n < Len(stack') /\ File(n + 1)' = s
        BY <1>1, <1>5, <1>6
      <4> QED  BY <4>1, <4>5, <4>6 DEF Met
    <3> QED  BY <3>1, <3>2
  <2> QED  BY <2>4, <2>7 DEF Met
<1>14. Passed'
  BY <1>13 DEF Passed
<1> QED  BY <1>9, <1>11, <1>14

\* The cardinality of Dlbox is that of FiniteSets.
LEMMA DlCardinality == \A S : Dl!Cardinality(S) = Cardinality(S)
  BY DEF Dl!Cardinality, Cardinality

\* An assertion that fails for a reason keeps the invariant.
LEMMA DlAborts ==
  ASSUME DlInv, Dl!Assert0, UNCHANGED <<argv, files, path>>,
         Dl!WellLinked => Cardinality(DOMAIN files) > LIBS \/ Len(syms) = SYMS
  PROVE  DlInv'
<1>1. UNCHANGED <<maps, stack, libs, syms, bound>> /\ status' = "abort"
  BY DEF Dl!Assert0, Dl!tables
<1>2. DlType'
  BY <1>1 DEF DlInv, DlType
<1>3. Distinct' /\ Bound'
  BY <1>1 DEF DlInv, Distinct, Bound
<1>4. Counted'
  BY <1>1, Zenon DEF DlInv, Counted, Given, InLibs, Dl!Count
<1>5. Dl!NoAbort'
  BY <1>1, LinkedStays, DlCardinality DEF Dl!NoAbort
<1> QED  BY <1>1, <1>2, <1>3, <1>4, <1>5 DEF DlInv

\* A record that opens nothing keeps the invariant.
LEMMA AdvanceKeeps ==
  ASSUME DlInv, NEW type, Dl!Case(type), stack' = Dl!Advanced,
         UNCHANGED <<argv, files, path, maps, libs, status>>,
         syms' \in Seq([name : Strings, addr : Nat \X Nat]), Len(syms') <= SYMS,
         Known \subseteq Known', Bound', NEW s, s = Dl!name, type = "#" => s \in Known',
         Dl!WellLinked /\ type = "+" => Done(s)'
  PROVE  DlInv'
<1>1. DlType /\ status = "run" /\ stack # << >>
  BY AtRecord DEF DlInv
<1>2. DlType'
  <2>1. PICK n : n = Len(stack) /\ DOMAIN stack = 1..n
    BY <1>1, AtTop
  <2>2. /\ stack' \in Seq([h : Nat, sym : Nat \ {0}]) /\ DOMAIN stack' = 1..n
        /\ \A d \in 1..n : stack'[d].h = stack[d].h
    BY <1>1, <2>1, AdvancedIs
  <2>3. \A d \in DOMAIN stack' : stack'[d].h \in DOMAIN maps
    BY <1>1, <2>1, <2>2, Zenon DEF DlType
  <2> QED  BY <1>1, <2>2, <2>3 DEF DlType
<1>3. Distinct'
  BY DEF DlInv, Distinct
<1>4. Counted'
  BY Zenon DEF DlInv, Counted, Given, InLibs, Dl!Count
<1>5. Dl!NoAbort'
  BY <1>1 DEF Dl!NoAbort
<1>6. ASSUME Dl!WellLinked'  PROVE (Nested /\ Passed /\ LibsOpened)'
  <2>1. Dl!WellLinked
    BY <1>6, LinkedStays
  <2>2. Nested /\ Passed /\ LibsOpened
    BY <1>1, <2>1 DEF DlInv
  <2> QED  BY <1>1, <2>1, <2>2, AdvanceLinks
<1> QED  BY <1>2, <1>3, <1>4, <1>5, <1>6 DEF DlInv

\* dlexport (dlbox.c:162-170) keeps the invariant: a slot is added behind those
\* that imports are bound to.
LEMMA DlexportInv == DlInv /\ Dl!dlexport => DlInv'
<1> SUFFICES ASSUME DlInv, Dl!dlexport  PROVE DlInv'
  OBVIOUS
<1>1. Dl!Case("#") /\ UNCHANGED <<argv, files, path>> /\ DlType
  BY DEF Dl!dlexport, Dl!input, DlInv
<1>2. PICK s, a : s = Dl!name /\ a = <<Dl!f.h, Dl!f.sym>>
  BY Zenon
<1>3. syms \in Seq([name : Strings, addr : Nat \X Nat]) /\ Len(syms) <= SYMS /\ SYMS \in Nat
  BY <1>1, RoomAssumption DEF DlType
<1>4. CASE Len(syms) = SYMS
  <2>1. Dl!Assert0
    BY <1>3, <1>4 DEF Dl!dlexport
  <2> QED  BY <1>1, <1>4, <2>1, DlAborts
<1>5. CASE Len(syms) # SYMS
  <2>1. /\ Len(syms) < SYMS /\ syms' = Append(syms, [name |-> s, addr |-> a])
        /\ stack' = Dl!Advanced /\ UNCHANGED <<maps, libs, bound, status>>
    BY <1>2, <1>5 DEF Dl!dlexport
  <2>2. PICK e \in [name : Strings, addr : Nat \X Nat] : e = [name |-> s, addr |-> a]
    <3>1. s \in Strings /\ stack # << >>
      BY <1>1, <1>2, AtRecord
    <3>2. Dl!f.h \in Nat /\ Dl!f.sym \in Nat
      BY <1>1, <3>1, AtTop
    <3> QED  BY <1>2, <3>1, <3>2, Zenon
  <2>3. /\ syms' \in Seq([name : Strings, addr : Nat \X Nat]) /\ Len(syms') = Len(syms) + 1
        /\ DOMAIN syms = 1..Len(syms) /\ DOMAIN syms' = 1..(Len(syms) + 1) /\ Len(syms) \in Nat
        /\ \A k \in DOMAIN syms : syms'[k] = syms[k]
        /\ syms'[Len(syms) + 1] = e
    BY <1>3, <2>1, <2>2
  <2>4. Known \subseteq Known' /\ s \in Known'
    <3>1. \A k \in DOMAIN syms : k \in DOMAIN syms'
      BY <2>3
    <3>2. Len(syms) + 1 \in DOMAIN syms' /\ e.name = s
      BY <2>2, <2>3
    <3> QED  BY <2>3, <3>1, <3>2, Zenon DEF Known
  <2>5. Bound'
    <3> SUFFICES ASSUME NEW b \in bound
                 PROVE  \E k \in DOMAIN syms' : /\ syms'[k] = b
                                                /\ \A j \in 1..(k - 1) : syms'[j].name # b.name
      BY <2>1 DEF Bound
    <3>1. PICK k \in DOMAIN syms : syms[k] = b /\ \A j \in 1..(k - 1) : syms[j].name # b.name
      BY DEF DlInv, Bound
    <3>2. k \in DOMAIN syms' /\ \A j \in 1..(k - 1) : j \in DOMAIN syms
      BY <2>3
    <3> QED  BY <2>3, <3>1, <3>2, Zenon
  <2>6. Len(syms') <= SYMS
    BY <1>3, <2>1, <2>3
  <2>7. syms' \in Seq([name : Strings, addr : Nat \X Nat])
    BY <2>3
  <2>8. s = Dl!name /\ stack' = Dl!Advanced /\ UNCHANGED <<argv, files, path, maps, libs, status>>
    BY <1>1, <1>2, <2>1
  <2>9. Dl!WellLinked /\ "#" = "+" => Done(s)'
    OBVIOUS
  <2>10. "#" = "#" => s \in Known'
    BY <2>4
  <2>11. Dl!Case("#") /\ Known \subseteq Known'
    BY <1>1, <2>4
  <2> QED  BY <2>5, <2>6, <2>7, <2>8, <2>9, <2>10, <2>11, AdvanceKeeps, Zenon
<1> QED  BY <1>4, <1>5

\* One more mapping of a file, by dlload or for a path of main, is an index for
\* the call that reads it.
LEMMA DlopenType ==
  ASSUME DlType, NEW p, NEW calls \in Seq([h : Nat, sym : Nat \ {0}]), Dl!dlopen(p, calls),
         \A d \in DOMAIN calls : calls[d].h \in DOMAIN maps,
         files' = files, argv' = argv, path' \in Nat \ {0}, syms' = syms,
         libs' \in Seq(Strings), Len(libs') <= LIBS
  PROVE  DlType'
<1>1. maps \in Seq(DOMAIN files)
  BY DEF DlType
<1>2. CASE p \in DOMAIN files
  <2>1. PICK e : e = [h |-> Len(maps) + 1, sym |-> 1]
    BY Zenon
  <2>2. maps' = Append(maps, p) /\ stack' = Append(calls, e)
    BY <1>2, <2>1 DEF Dl!dlopen
  <2>3. e \in [h : Nat, sym : Nat \ {0}] /\ e.h = Len(maps) + 1
    BY <1>1, <2>1
  <2>4. /\ maps' \in Seq(DOMAIN files) /\ DOMAIN maps' = 1..(Len(maps) + 1)
        /\ DOMAIN maps = 1..Len(maps) /\ Len(maps) \in Nat
    BY <1>1, <1>2, <2>2
  <2>5. /\ stack' \in Seq([h : Nat, sym : Nat \ {0}]) /\ DOMAIN stack' = 1..(Len(calls) + 1)
        /\ DOMAIN calls = 1..Len(calls) /\ Len(calls) \in Nat /\ stack'[Len(calls) + 1] = e
        /\ \A d \in DOMAIN calls : stack'[d] = calls[d]
    BY <2>2, <2>3
  <2>6. ASSUME NEW d \in DOMAIN stack'  PROVE stack'[d].h \in DOMAIN maps'
    <3>1. d \in DOMAIN calls \/ d = Len(calls) + 1
      BY <2>5
    <3>2. CASE d \in DOMAIN calls
      <4>1. stack'[d].h \in DOMAIN maps
        BY <2>5, <3>2
      <4> QED  BY <2>4, <4>1
    <3>3. CASE d = Len(calls) + 1
      BY <2>3, <2>4, <2>5, <3>3
    <3> QED  BY <3>1, <3>2, <3>3
  <2> QED  BY <2>4, <2>5, <2>6 DEF DlType
<1>3. CASE p \notin DOMAIN files
  <2>1. maps' = maps /\ stack' = calls
    BY <1>3 DEF Dl!dlopen
  <2> QED  BY <2>1 DEF DlType
<1> QED  BY <1>2, <1>3

\* When dlopen returns, everything its file needs has been exported.
LEMMA TopDone ==
  ASSUME DlType, Dl!WellLinked, Passed, stack # << >>, Dl!f.sym > Len(Dl!symtab)
  PROVE  Done(File(Len(stack)))
<1>1. PICK n, p : n = Len(stack) /\ p = File(n)
  BY Zenon
<1>2. /\ n \in Nat \ {0} /\ n \in DOMAIN stack /\ p \in DOMAIN files /\ files[p] \in Seq(Record)
      /\ stack[n].sym \in Nat \ {0} /\ stack[n].sym > Len(files[p])
  BY <1>1, AtTop
<1>3. \A j \in DOMAIN files[p] : j < stack[n].sym /\ ~ n < n
  BY <1>2
<1>4. ASSUME NEW j \in DOMAIN files[p]
      PROVE  /\ files[p][j].type = "#" => files[p][j].name \in Known
             /\ files[p][j].type = "+" => Done(files[p][j].name)
  <2>1. Met(n, files[p][j])
    BY <1>1, <1>2, <1>3, Zenon DEF Passed, Rec
  <2> QED  BY <1>1, <1>3, <2>1, Zenon DEF Met
<1>5. ASSUME NEW r \in Dl!Needed(p)  PROVE Dl!Exports(r) \subseteq Known
  <2>1. CASE r = p
    BY <1>4, <2>1 DEF Dl!Exports
  <2>2. CASE r # p
    <3>1. PICK l \in Dl!Loads(p) : r \in Dl!Needed(l)
      BY <1>2, <2>2, NeededSplit
    <3>2. Done(l)
      BY <1>4 DEF Dl!Loads
    <3> QED  BY <3>1, <3>2 DEF Done
  <2> QED  BY <2>1, <2>2
<1> QED  BY <1>1, <1>5 DEF Done

\* The return of dlopen (dlbox.c:117-125) keeps the invariant: the LOAD that
\* called it is done.
LEMMA ReturnInv == DlInv /\ Dl!Return => DlInv'
<1> SUFFICES ASSUME DlInv, Dl!Return  PROVE DlInv'
  OBVIOUS
<1>1. /\ UNCHANGED <<argv, files, path, maps, libs, syms, bound>> /\ DlType
      /\ status = "run" /\ stack # << >> /\ status' # "abort" /\ Dl!f.sym > Len(Dl!symtab)
  BY DEF Dl!Return, Dl!input, Dl!tables, DlInv
<1>2. PICK n \in Nat \ {0} : n = Len(stack)
  BY <1>1, AtTop, Zenon
<1>3. DOMAIN stack = 1..n /\ stack \in Seq([h : Nat, sym : Nat \ {0}])
  BY <1>1, <1>2, AtTop DEF DlType
<1>4. /\ stack' \in Seq([h : Nat, sym : Nat \ {0}]) /\ Len(stack') = n - 1
      /\ DOMAIN stack' = 1..(n - 1) /\ \A d \in 1..(n - 1) : stack'[d] = stack[d]
  <2>1. stack' = SubSeq(stack, 1, n - 1)
    BY <1>2 DEF Dl!Return
  <2>2. PICK m \in Nat : m = n - 1 /\ m <= Len(stack)
    BY <1>2
  <2>3. PICK S : S = [h : Nat, sym : Nat \ {0}]
    BY Zenon
  <2>4. /\ SubSeq(stack, 1, m) \in Seq(S) /\ Len(SubSeq(stack, 1, m)) = m
        /\ DOMAIN SubSeq(stack, 1, m) = 1..m
        /\ \A d \in 1..m : SubSeq(stack, 1, m)[d] = stack[d]
    <3>1. stack \in Seq(S)
      BY <1>3, <2>3
    <3> QED  BY <2>2, <3>1, Prefix, Zenon
  <2> QED  BY <2>1, <2>2, <2>3, <2>4, Zenon
<1>5. DlType'
  <2>1. \A d \in DOMAIN stack' : stack'[d].h \in DOMAIN maps
    <3>1. \A d \in 1..(n - 1) : d \in 1..n
      BY <1>2
    <3>2. \A d \in 1..n : stack[d].h \in DOMAIN maps
      BY <1>1, <1>3 DEF DlType
    <3> QED  BY <1>4, <3>1, <3>2, Zenon
  <2> QED  BY <1>1, <1>4, <2>1 DEF DlType
<1>6. Distinct' /\ Bound'
  BY <1>1 DEF DlInv, Distinct, Bound
<1>7. Counted'
  BY <1>1, Zenon DEF DlInv, Counted, Given, InLibs, Dl!Count
<1>8. Dl!NoAbort'
  BY <1>1 DEF Dl!NoAbort
<1>9. ASSUME Dl!WellLinked'  PROVE (Nested /\ Passed /\ LibsOpened)'
  <2>1. Dl!WellLinked
    BY <1>1, <1>9, LinkedStays
  <2>2. Nested /\ Passed /\ LibsOpened
    BY <1>1, <2>1 DEF DlInv
  <2>3. PICK t : t = File(n) /\ Done(t)
    BY <1>1, <1>2, <2>1, <2>2, TopDone
  <2>4. \A q : Done(q) => Done(q)'
    BY <1>1, DoneStays DEF Known
  <2>5. \A d \in 1..(n - 1) : File(d)' = File(d)
    BY <1>1, <1>4 DEF File
  <2>6. \A q : Dl!Needed(q)' = Dl!Needed(q)
    BY <1>1 DEF Dl!Needed, Dl!Loads
  <2>7. \A d \in 1..(n - 1) : d \in 1..n
    BY <1>2
  <2>8. Nested'
    BY <1>3, <1>4, <2>2, <2>5, <2>6, <2>7, Zenon DEF Nested
  <2>9. LibsOpened'
    <3> SUFFICES ASSUME NEW k \in DOMAIN libs, NEW q, q = libs[k]
                 PROVE  /\ q \in DOMAIN files
                        /\ Done(q)' \/ \E d \in DOMAIN stack' : File(d)' = q
      BY <1>1 DEF LibsOpened
    <3>1. q \in DOMAIN files /\ (Done(q) \/ \E d \in DOMAIN stack : File(d) = q)
      BY <2>2 DEF LibsOpened
    <3>2. \A d \in DOMAIN stack : d = n \/ d \in 1..(n - 1)
      BY <1>2, <1>3
    <3> QED  BY <1>4, <2>3, <2>4, <2>5, <3>1, <3>2
  <2>10. ASSUME NEW d \in 1..(n - 1), NEW x, Met(d, x)  PROVE Met(d, x)'
    <3>1. Known' = Known
      BY <1>1 DEF Known
    <3>2. d + 1 = n \/ (d < n - 1 /\ d + 1 \in 1..(n - 1))
      BY <1>2
    <3>3. CASE d + 1 = n
      BY <2>3, <2>4, <2>10, <3>1, <3>3 DEF Met
    <3>4. CASE d < n - 1 /\ d + 1 \in 1..(n - 1)
      <4>1. File(d + 1)' = File(d + 1) /\ d < Len(stack')
        BY <1>4, <2>5, <3>4
      <4> QED  BY <2>4, <2>10, <3>1, <4>1 DEF Met
    <3> QED  BY <3>2, <3>3, <3>4
  <2>11. ASSUME NEW d \in DOMAIN stack', NEW j \in (DOMAIN files[File(d)])', j < stack'[d].sym
         PROVE  Met(d, Rec(d, j))'
    <3>1. d \in 1..(n - 1)
      BY <1>4
    <3>2. File(d)' = File(d) /\ stack'[d] = stack[d] /\ d \in DOMAIN stack
      BY <1>3, <1>4, <2>5, <2>7, <3>1
    <3>3. PICK x : x = Rec(d, j) /\ x = Rec(d, j)'
      BY <1>1, <3>2 DEF Rec
    <3>4. j \in DOMAIN files[File(d)] /\ j < stack[d].sym
      BY <1>1, <2>11, <3>2
    <3>5. Met(d, x)
      BY <2>2, <3>2, <3>3, <3>4, Zenon DEF Passed
    <3>6. Met(d, x)'
      BY <2>10, <3>1, <3>5
    <3> QED  BY <3>3, <3>6 DEF Met
  <2>12. Passed'
    BY <2>11 DEF Passed
  <2> QED  BY <2>8, <2>9, <2>12
<1> QED  BY <1>5, <1>6, <1>7, <1>8, <1>9 DEF DlInv

\* The end of main keeps the invariant.
LEMMA MainReturnsInv == DlInv /\ Dl!MainReturns => DlInv'
<1> SUFFICES ASSUME DlInv, Dl!MainReturns  PROVE DlInv'
  OBVIOUS
<1>1. /\ UNCHANGED <<argv, files, path, maps, stack, libs, syms, bound>>
      /\ status = "run" /\ status' = "exit(0)"
  BY DEF Dl!MainReturns, Dl!input, Dl!tables
<1>2. DlType'
  BY <1>1 DEF DlInv, DlType
<1>3. Distinct' /\ Bound'
  BY <1>1 DEF DlInv, Distinct, Bound
<1>4. Counted'
  BY <1>1, Zenon DEF DlInv, Counted, Given, InLibs, Dl!Count
<1>5. Dl!NoAbort'
  BY <1>1 DEF Dl!NoAbort
<1>6. ASSUME Dl!WellLinked'  PROVE (Nested /\ Passed /\ LibsOpened)'
  <2>1. Dl!WellLinked
    BY <1>1, <1>6, LinkedStays
  <2>2. Nested /\ Passed /\ LibsOpened
    BY <1>1, <2>1 DEF DlInv
  <2> QED  BY <1>1, <2>2, LinksStay
<1> QED  BY <1>2, <1>3, <1>4, <1>5, <1>6 DEF DlInv
-----------------------------------------------------------------------------
INSTANCE FiniteSetTheorems

\* When all slots of libs are taken (dlbox.c:174-181) and a file is not in any,
\* there are more files than slots.
LEMMA Full ==
  ASSUME DlType, Distinct, \A k \in DOMAIN libs : libs[k] \in DOMAIN files,
         NEW p \in DOMAIN files, ~InLibs(p)
  PROVE  Cardinality(DOMAIN files) > Len(libs)
<1>1. PICK n \in Nat : n = Len(libs) /\ DOMAIN libs = 1..n
  BY DEF DlType
<1>2. IsFiniteSet(1..n) /\ Cardinality(1..n) = n
  <2>1. IsFiniteSet(1..n) /\ Cardinality(1..n) = IF 1 > n THEN 0 ELSE n - 1 + 1
    BY FS_Interval
  <2> QED  BY <2>1
<1> DEFINE D == DOMAIN files
<1>3. libs \in Injection(1..n, D \ {p})
  <2>1. libs \in [1..n -> D \ {p}]
    <3>1. libs = [k \in 1..n |-> libs[k]]
      BY <1>1 DEF DlType
    <3>2. \A k \in 1..n : libs[k] \in D \ {p}
      BY <1>1 DEF InLibs
    <3> QED  BY <3>1, <3>2
  <2>2. \A x, y \in 1..n : libs[x] = libs[y] => x = y
    BY <1>1 DEF Distinct
  <2> QED  BY <2>1, <2>2 DEF Injection, IsInjective
<1>4. IsFiniteSet(D) /\ Cardinality(D) \in Nat
  BY FS_CardinalityType DEF DlType
<1>5. IsFiniteSet(D \ {p}) /\ Cardinality(D \ {p}) = Cardinality(D) - 1
  BY <1>4, FS_RemoveElement
<1>6. Cardinality(1..n) <= Cardinality(D \ {p})
  BY <1>3, <1>5, FS_Injection
<1> QED  BY <1>1, <1>2, <1>4, <1>5, <1>6

\* One more element of a sequence is one more of its kind.
LEMMA CountMore ==
  ASSUME NEW S, NEW s \in Seq(S), NEW x \in S, NEW p
  PROVE  /\ Dl!Count(s, p) \in Nat
         /\ x = p => Dl!Count(Append(s, x), p) = Dl!Count(s, p) + 1
         /\ x # p => Dl!Count(Append(s, x), p) = Dl!Count(s, p)
<1> DEFINE K == {k \in DOMAIN s : s[k] = p}
           t == Append(s, x)
           L == {k \in DOMAIN t : t[k] = p}
<1>1. Len(s) \in Nat /\ DOMAIN s = 1..Len(s) /\ DOMAIN t = 1..(Len(s) + 1)
  OBVIOUS
<1>2. IsFiniteSet(K) /\ Cardinality(K) \in Nat /\ Len(s) + 1 \notin K
  <2>1. IsFiniteSet(1..Len(s)) /\ K \subseteq 1..Len(s)
    BY <1>1, FS_Interval
  <2> QED  BY <1>1, <2>1, FS_Subset, FS_CardinalityType
<1>3. \A k \in 1..Len(s) : t[k] = s[k]
  OBVIOUS
<1>4. t[Len(s) + 1] = x
  OBVIOUS
<1>5. L = IF x = p THEN K \union {Len(s) + 1} ELSE K
  BY <1>1, <1>3, <1>4
<1>6. Dl!Count(s, p) = Cardinality(K) /\ Dl!Count(t, p) = Cardinality(L)
  BY CountIs, Zenon
<1>7. ASSUME x = p  PROVE Cardinality(L) = Cardinality(K) + 1
  BY <1>2, <1>5, <1>7, FS_AddElement, Zenon
<1>8. ASSUME x # p  PROVE L = K
  BY <1>5, <1>8
<1>9. x # p => Dl!Count(t, p) = Dl!Count(s, p)
  BY <1>6, <1>8, Zenon
<1>10. x = p => Dl!Count(t, p) = Dl!Count(s, p) + 1
  BY <1>6, <1>7, Zenon
<1>11. Dl!Count(s, p) \in Nat
  BY <1>2, <1>6, Zenon
<1> QED  BY <1>9, <1>10, <1>11, Zenon

\* The natural numbers are well-founded, said without an operator as argument.
LEMMA NatWF == \E R : IsWellFoundedOn(R, Nat) /\ \A x, y \in Nat : y < x => <<y, x>> \in R
<1>1. \A x, y \in Nat : y < x => <<y, x>> \in OpToRel(<, Nat)
  BY Zenon DEF OpToRel
<1> QED  BY <1>1, NatLessThanWellFounded, Zenon

\* Every nonempty set of natural numbers has a least element.
LEMMA NatMin == ASSUME NEW T, T \subseteq Nat, T # {} PROVE \E x \in T : \A y \in T : x <= y
<1>1. PICK R : IsWellFoundedOn(R, Nat) /\ \A x, y \in Nat : y < x => <<y, x>> \in R
  BY NatWF
<1>2. PICK x \in T : \A y \in T : ~(<<y, x>> \in R)
  BY <1>1, WFMin, Zenon
<1>3. x \in Nat /\ \A y \in T : y \in Nat /\ ~(y < x)
  BY <1>1, <1>2, Zenon
<1>4. \A y \in T : x <= y
  BY <1>3
<1> QED  BY <1>4

\* dlbox.c starts with no file mapped, no library and no symbol.
LEMMA DlStart == Dl!Init => DlInv
<1> SUFFICES ASSUME Dl!Init  PROVE DlInv
  OBVIOUS
<1>1. /\ argv \in Seq(Strings) /\ IsFiniteSet(DOMAIN files)
      /\ \A p \in DOMAIN files : files[p] \in Seq(Record)
  BY InputsAssumption DEF Dl!Init
<1>2. /\ path = 1 /\ maps = << >> /\ stack = << >> /\ libs = << >> /\ syms = << >> /\ bound = {}
      /\ status = "run"
  BY DEF Dl!Init
<1>3. DlType
  BY <1>1, <1>2, RoomAssumption DEF DlType
<1>4. Distinct /\ Bound /\ Nested /\ Passed /\ LibsOpened /\ Dl!NoAbort
  <2>1. DOMAIN libs = {} /\ DOMAIN stack = {}
    BY <1>2
  <2>2. Distinct /\ LibsOpened
    BY <2>1 DEF Distinct, LibsOpened
  <2>3. Nested
    BY <2>1 DEF Nested
  <2>4. Passed
    BY <2>1 DEF Passed
  <2>5. Bound /\ Dl!NoAbort
    BY <1>2 DEF Bound, Dl!NoAbort
  <2> QED  BY <2>2, <2>3, <2>4, <2>5
<1>5. Counted
  <2>1. SubSeq(argv, 1, path - 1) = << >>
    BY <1>1, <1>2
  <2>2. \A p : Dl!Count(<< >>, p) = 0
    <3>1. \A p : {k \in DOMAIN << >> : << >>[k] = p} = {}
      OBVIOUS
    <3> QED  BY <3>1, CountIs, FS_EmptySet
  <2>3. \A p : Dl!Count(maps, p) = 0 /\ Given(p) = 0
    BY <1>2, <2>1, <2>2, Zenon DEF Given
  <2> QED  BY <2>3 DEF Counted
<1> QED  BY <1>2, <1>3, <1>4, <1>5 DEF DlInv

\* dlsym (dlbox.c:155-160) keeps the invariant: it binds to the first slot of
\* the name, and a slot there is when the files are linked well.
LEMMA DlsymInv == DlInv /\ Dl!dlsym => DlInv'
<1> SUFFICES ASSUME DlInv, Dl!dlsym  PROVE DlInv'
  OBVIOUS
<1>1. Dl!Case("?") /\ UNCHANGED <<argv, files, path>> /\ DlType
  BY DEF Dl!dlsym, Dl!input, DlInv
<1>2. PICK s : s = Dl!name
  OBVIOUS
<1>3. syms \in Seq([name : Strings, addr : Nat \X Nat]) /\ Len(syms) <= SYMS
  BY <1>1 DEF DlType
<1>4. DOMAIN syms = 1..Len(syms) /\ Len(syms) \in Nat
      /\ \A k \in DOMAIN syms : syms[k] \in [name : Strings, addr : Nat \X Nat]
  BY <1>3, Indices, Zenon
<1>5. CASE Dl!Matches(s) # {}
  <2>1. /\ bound' = bound \union {[name |-> s, addr |-> syms[Dl!Match(s)].addr]}
        /\ stack' = Dl!Advanced /\ UNCHANGED <<maps, libs, syms, status>>
    BY <1>2, <1>5 DEF Dl!dlsym, Dl!Assert0
  <2>2. Known' = Known
    BY <2>1 DEF Known
  <2>3. PICK m \in Dl!Matches(s) : m = Dl!Match(s) /\ \A k \in Dl!Matches(s) : m <= k
    <3>1. Dl!Matches(s) \subseteq Nat
      BY <1>4 DEF Dl!Matches
    <3>2. \E m \in Dl!Matches(s) : \A k \in Dl!Matches(s) : m <= k
      BY <1>5, <3>1, NatMin
    <3> QED  BY <3>2 DEF Dl!Match, Dl!Min
  <2>4. m \in DOMAIN syms /\ syms[m].name = s /\ m \in Nat
    BY <1>4 DEF Dl!Matches
  <2>5. \A j \in 1..(m - 1) : syms[j].name # s
    <3> SUFFICES ASSUME NEW j \in 1..(m - 1), syms[j].name = s  PROVE FALSE
      OBVIOUS
    <3>1. j \in DOMAIN syms
      BY <1>4, <2>4
    <3>2. j \in Dl!Matches(s)
      BY <3>1 DEF Dl!Matches
    <3> QED  BY <2>3, <2>4, <3>2
  <2>6. syms[m] = [name |-> s, addr |-> syms[m].addr]
    BY <1>4, <2>4
  <2>7. Bound'
    BY <2>1, <2>3, <2>4, <2>5, <2>6 DEF DlInv, Bound
  <2>8. "?" # "#" /\ "?" # "+" /\ Known \subseteq Known'
    BY <2>2
  <2>9. syms' \in Seq([name : Strings, addr : Nat \X Nat]) /\ Len(syms') <= SYMS
    BY <1>3, <2>1
  <2> QED  BY <1>1, <1>2, <2>1, <2>7, <2>8, <2>9, AdvanceKeeps, Zenon
<1>6. CASE Dl!Matches(s) = {}
  <2>1. Dl!Assert0
    BY <1>2, <1>6 DEF Dl!dlsym
  <2>2. ASSUME Dl!WellLinked  PROVE FALSE
    <3>1. PICK n, p, k : n = Len(stack) /\ p = File(n) /\ k = stack[n].sym
      BY Zenon
    <3>2. /\ n \in DOMAIN stack /\ p \in DOMAIN files /\ k \in DOMAIN files[p] /\ n \in Nat
          /\ files[p][k].type = "?" /\ files[p][k].name = s /\ status = "run" /\ k \in Nat
          /\ files[p] \in Seq(Record)
      BY <1>1, <1>2, <3>1, AtRecord, AtTop
    <3>3. PICK j \in 1..(k - 1) : /\ files[p][j].type = "+"
                                  /\ \E q \in Dl!Needed(files[p][j].name) : s \in Dl!Exports(q)
      BY <2>2, <3>2 DEF Dl!WellLinked
    <3>4. j \in DOMAIN files[p] /\ j < k /\ ~ n < n
      BY <3>2
    <3>5. Passed
      BY <2>2, <3>2 DEF DlInv
    <3>6. Met(n, Rec(n, j))
      BY <3>1, <3>2, <3>4, <3>5, Zenon DEF Passed
    <3>7. Done(files[p][j].name)
      BY <3>1, <3>3, <3>4, <3>6 DEF Met, Rec
    <3>8. s \in Known
      BY <3>3, <3>7 DEF Done
    <3> QED  BY <1>6, <3>8 DEF Known, Dl!Matches
  <2> QED  BY <1>1, <2>1, <2>2, DlAborts
<1> QED  BY <1>5, <1>6

\* dlload (dlbox.c:172-182) keeps the invariant.  A library that is skipped as
\* loaded has exported everything: it cannot be one that is still being opened,
\* for then it would need itself.
LEMMA DlloadInv == DlInv /\ Dl!dlload => DlInv'
<1> SUFFICES ASSUME DlInv, Dl!dlload  PROVE DlInv'
  OBVIOUS
<1>1. Dl!Case("+") /\ UNCHANGED <<argv, files, path>> /\ DlType
  BY DEF Dl!dlload, Dl!input, DlInv
<1>2. PICK s \in Strings : s = Dl!name
  BY <1>1, AtRecord
<1>3. stack # << >> /\ status = "run"
  BY <1>1, AtRecord
<1>4. PICK n, p, k : n = Len(stack) /\ p = File(n) /\ k = stack[n].sym
  BY Zenon
<1>5. /\ n \in Nat \ {0} /\ n \in DOMAIN stack /\ DOMAIN stack = 1..n
      /\ p \in DOMAIN files /\ k \in DOMAIN files[p]
      /\ files[p][k].type = "+" /\ files[p][k].name = s
  BY <1>1, <1>2, <1>3, <1>4, AtRecord, AtTop
<1>6. s \in Dl!Loads(p)
  BY <1>5 DEF Dl!Loads
<1>7. Dl!Registered <=> InLibs(s)
  BY <1>2 DEF Dl!Registered, InLibs
<1>8. libs \in Seq(Strings) /\ Len(libs) <= LIBS /\ LIBS \in Nat
  BY <1>1, RoomAssumption DEF DlType
<1>9. CASE InLibs(s)
  <2>1. stack' = Dl!Advanced /\ UNCHANGED <<maps, status, libs, syms, bound>>
    BY <1>7, <1>9 DEF Dl!dlload, Dl!tables
  <2>2. Known' = Known
    BY <2>1 DEF Known
  <2>3. ASSUME Dl!WellLinked  PROVE Done(s)'
    <3>1. Nested /\ LibsOpened
      BY <1>3, <2>3 DEF DlInv
    <3>2. Done(s) \/ \E d \in DOMAIN stack : File(d) = s
      BY <1>9, <3>1 DEF LibsOpened, InLibs
    <3>3. ASSUME NEW d \in DOMAIN stack, File(d) = s  PROVE FALSE
      <4>1. d <= n
        BY <1>5
      <4>2. p \in Dl!Needed(s)
        BY <1>4, <1>5, <3>1, <3>3, <4>1 DEF Nested
      <4> QED  BY <1>5, <1>6, <2>3, <4>2 DEF Dl!WellLinked
    <3> QED  BY <1>1, <2>2, <3>2, <3>3, DoneStays
  <2>4. Bound'
    BY <2>1 DEF DlInv, Bound
  <2>5. syms' \in Seq([name : Strings, addr : Nat \X Nat]) /\ Len(syms') <= SYMS
    BY <1>1, <2>1, Zenon DEF DlType
  <2>6. s = Dl!name /\ stack' = Dl!Advanced /\ UNCHANGED <<argv, files, path, maps, libs, status>>
    BY <1>1, <1>2, <2>1
  <2>7. "+" = "#" => s \in Known'
    OBVIOUS
  <2>8. Dl!WellLinked /\ "+" = "+" => Done(s)'
    BY <2>3
  <2>9. Dl!Case("+") /\ Known \subseteq Known'
    BY <1>1, <2>2
  <2> QED  BY <2>4, <2>5, <2>6, <2>7, <2>8, <2>9, AdvanceKeeps, Zenon
<1>10. CASE ~InLibs(s) /\ Len(libs) < LIBS
  <2>1. /\ libs' = Append(libs, s) /\ Dl!dlopen(s, Dl!Advanced)
        /\ UNCHANGED <<status, syms, bound>>
    BY <1>2, <1>7, <1>8, <1>10 DEF Dl!dlload
  <2>2. /\ libs' \in Seq(Strings) /\ Len(libs') <= LIBS /\ DOMAIN libs' = 1..(Len(libs) + 1)
        /\ DOMAIN libs = 1..Len(libs) /\ Len(libs) \in Nat
        /\ \A j \in DOMAIN libs : libs'[j] = libs[j]
        /\ libs'[Len(libs) + 1] = s
    BY <1>2, <1>8, <1>10, <2>1
  <2>3. DlType'
    <3>1. PICK calls \in Seq([h : Nat, sym : Nat \ {0}]) : calls = Dl!Advanced
      BY <1>1, <1>3, AdvancedIs
    <3>2. DOMAIN calls = 1..n /\ \A d \in 1..n : calls[d].h = stack[d].h
      BY <1>1, <1>3, <1>4, <3>1, AdvancedIs
    <3>3. \A d \in DOMAIN calls : calls[d].h \in DOMAIN maps
      BY <1>1, <1>5, <3>2, Zenon DEF DlType
    <3>4. Dl!dlopen(s, calls)
      BY <2>1, <3>1, Zenon
    <3>5. path' \in Nat \ {0} /\ files' = files /\ argv' = argv /\ syms' = syms
      BY <1>1, <2>1, Zenon DEF DlType
    <3> QED  BY <1>1, <2>2, <3>3, <3>4, <3>5, DlopenType, Zenon
  <2>4. Distinct'
    <3> SUFFICES ASSUME NEW j \in DOMAIN libs', NEW l \in DOMAIN libs', libs'[j] = libs'[l]
                 PROVE  j = l
      BY DEF Distinct
    <3>1. \A m \in DOMAIN libs : libs[m] # s
      BY <1>10 DEF InLibs
    <3>2. \A m \in DOMAIN libs' : m \in DOMAIN libs \/ m = Len(libs) + 1
      BY <2>2
    <3>3. \A x, y \in DOMAIN libs : libs[x] = libs[y] => x = y
      BY DEF DlInv, Distinct
    <3> QED  BY <2>2, <3>1, <3>2, <3>3
  <2>5. Bound'
    BY <2>1 DEF DlInv, Bound
  <2>6. Counted'
    <3> SUFFICES ASSUME NEW q \in DOMAIN files
                 PROVE  /\ Dl!Count(maps', q) \in Nat /\ Given(q) \in Nat
                        /\ Dl!Count(maps', q) <= Given(q) + 1
                        /\ ~InLibs(q)' => Dl!Count(maps', q) <= Given(q)
      BY <1>1, Zenon DEF Counted, Given, Dl!Count
    <3>1. /\ Dl!Count(maps, q) \in Nat /\ Given(q) \in Nat
          /\ Dl!Count(maps, q) <= Given(q) + 1
          /\ ~InLibs(q) => Dl!Count(maps, q) <= Given(q)
      BY DEF DlInv, Counted
    <3>2. /\ ~InLibs(q)' => ~InLibs(q) /\ q # s
      <4>1. ASSUME InLibs(q) \/ q = s  PROVE \E m \in DOMAIN libs' : libs'[m] = q
        <5>1. Len(libs) + 1 \in DOMAIN libs' /\ \A m \in DOMAIN libs : m \in DOMAIN libs'
          BY <2>2
        <5> QED  BY <2>2, <4>1, <5>1 DEF InLibs
      <4> QED  BY <4>1 DEF InLibs
    <3>3. CASE q # s \/ s \notin DOMAIN files
      <4>1. Dl!Count(maps', q) = Dl!Count(maps, q)
        <5>1. CASE s \in DOMAIN files
          <6>1. maps' = Append(maps, s) /\ maps \in Seq(DOMAIN files) /\ q # s
            BY <1>1, <2>1, <3>3, <5>1 DEF Dl!dlopen, DlType
          <6> QED  BY <5>1, <6>1, CountMore
        <5>2. CASE s \notin DOMAIN files
          BY <2>1, <5>2 DEF Dl!dlopen
        <5> QED  BY <5>1, <5>2
      <4> QED  BY <3>1, <3>2, <4>1
    <3>4. CASE q = s /\ s \in DOMAIN files
      <4>1. maps' = Append(maps, s) /\ maps \in Seq(DOMAIN files)
        BY <1>1, <2>1, <3>4 DEF Dl!dlopen, DlType
      <4>2. Dl!Count(maps', q) = Dl!Count(maps, q) + 1
        BY <3>4, <4>1, CountMore
      <4>3. ~InLibs(q)
        BY <1>10, <3>4
      <4> QED  BY <3>1, <3>2, <3>4, <4>2, <4>3
    <3> QED  BY <3>3, <3>4
  <2>7. Dl!NoAbort'
    BY <1>3, <2>1 DEF Dl!NoAbort
  <2>8. ASSUME Dl!WellLinked'  PROVE (Nested /\ Passed /\ LibsOpened)'
    <3>1. Dl!WellLinked
      BY <1>1, <2>8, LinkedStays
    <3>2. Nested /\ Passed /\ LibsOpened
      BY <1>3, <3>1 DEF DlInv
    <3>3. s \in DOMAIN files
      BY <1>5, <1>6, <3>1 DEF Dl!WellLinked
    <3>4. files' = files /\ syms' = syms
      BY <1>1, <2>1
    <3> QED  BY <1>1, <1>2, <2>1, <3>1, <3>2, <3>3, <3>4, PushLinks, Zenon
  <2> QED  BY <2>3, <2>4, <2>5, <2>6, <2>7, <2>8 DEF DlInv
<1>11. CASE ~InLibs(s) /\ Len(libs) = LIBS
  <2>1. Dl!Assert0
    BY <1>7, <1>8, <1>11 DEF Dl!dlload
  <2>2. ASSUME Dl!WellLinked  PROVE Cardinality(DOMAIN files) > LIBS
    <3>1. \A j \in DOMAIN libs : libs[j] \in DOMAIN files
      BY <1>3, <2>2 DEF DlInv, LibsOpened
    <3>2. s \in DOMAIN files /\ Distinct
      BY <1>5, <1>6, <2>2 DEF Dl!WellLinked, DlInv
    <3> QED  BY <1>1, <1>11, <3>1, <3>2, Full
  <2> QED  BY <1>1, <2>1, <2>2, DlAborts
<1> QED  BY <1>8, <1>9, <1>10, <1>11

\* dlopen_chk for the next path of main keeps the invariant: the file is mapped
\* once more, and was given once more.
LEMMA DlopenChkInv == DlInv /\ Dl!dlopen_chk => DlInv'
<1> SUFFICES ASSUME DlInv, Dl!dlopen_chk  PROVE DlInv'
  OBVIOUS
<1>1. /\ UNCHANGED <<argv, files, libs, syms, bound>> /\ DlType /\ path' = path + 1
      /\ status = "run" /\ stack = << >> /\ status' # "abort" /\ path <= Len(argv)
      /\ Dl!dlopen(argv[path], << >>)
  BY DEF Dl!dlopen_chk, Dl!input, Dl!tables, DlInv
<1>2. argv \in Seq(Strings) /\ path \in Nat \ {0} /\ maps \in Seq(DOMAIN files)
  BY <1>1 DEF DlType
<1>3. PICK p \in Strings : p = argv[path]
  BY <1>1, <1>2
<1>4. DlType'
  <2>1. PICK calls \in Seq([h : Nat, sym : Nat \ {0}]) : calls = << >> /\ DOMAIN calls = {}
    <3>1. DOMAIN << >> = {}
      OBVIOUS
    <3>2. stack \in Seq([h : Nat, sym : Nat \ {0}])
      BY <1>1 DEF DlType
    <3> QED  BY <1>1, <3>1, <3>2, Zenon
  <2>2. Dl!dlopen(p, calls) /\ \A d \in DOMAIN calls : calls[d].h \in DOMAIN maps
    BY <1>1, <1>3, <2>1
  <2>3. /\ path' \in Nat \ {0} /\ files' = files /\ argv' = argv /\ syms' = syms
        /\ libs' \in Seq(Strings) /\ Len(libs') <= LIBS
    BY <1>1, <1>2 DEF DlType
  <2> QED  BY <1>1, <2>2, <2>3, DlopenType, Zenon
<1>5. Distinct' /\ Bound'
  BY <1>1 DEF DlInv, Distinct, Bound
<1>6. Counted'
  <2>1. PICK g \in Seq(Strings) : g = SubSeq(argv, 1, path - 1)
    <3>1. path - 1 \in Nat /\ path - 1 <= Len(argv)
      BY <1>1, <1>2
    <3> QED  BY <1>2, <3>1, Prefix, Zenon
  <2>2. SubSeq(argv', 1, path' - 1) = Append(g, p)
    <3>1. path' - 1 = path
      BY <1>1, <1>2
    <3>2. SubSeq(argv, 1, path) = Append(g, p)
      BY <1>1, <1>2, <1>3, <2>1, PrefixMore
    <3> QED  BY <1>1, <3>1, <3>2
  <2> SUFFICES ASSUME NEW q \in DOMAIN files
               PROVE  /\ Dl!Count(maps', q) \in Nat /\ Dl!Count(Append(g, p), q) \in Nat
                      /\ Dl!Count(maps', q) <= Dl!Count(Append(g, p), q) + 1
                      /\ ~InLibs(q) => Dl!Count(maps', q) <= Dl!Count(Append(g, p), q)
    <3>1. \A q : Given(q)' = Dl!Count(Append(g, p), q)
      BY <2>2, Zenon DEF Given, Dl!Count
    <3>2. \A q : InLibs(q)' <=> InLibs(q)
      BY <1>1 DEF InLibs
    <3> QED  BY <1>1, <3>1, <3>2, Zenon DEF Counted, Dl!Count
  <2>3. /\ Dl!Count(maps, q) \in Nat /\ Dl!Count(g, q) \in Nat
        /\ Dl!Count(maps, q) <= Dl!Count(g, q) + 1
        /\ ~InLibs(q) => Dl!Count(maps, q) <= Dl!Count(g, q)
    BY <2>1 DEF DlInv, Counted, Given
  <2>4. CASE q = p
    <3>1. maps' = Append(maps, p)
      BY <1>1, <1>3, <2>4 DEF Dl!dlopen
    <3>2. Dl!Count(maps', q) = Dl!Count(maps, q) + 1
      BY <1>2, <2>4, <3>1, CountMore
    <3>3. Dl!Count(Append(g, p), q) = Dl!Count(g, q) + 1
      BY <2>4, CountMore
    <3> QED  BY <2>3, <3>2, <3>3
  <2>5. CASE q # p
    <3>1. Dl!Count(maps', q) = Dl!Count(maps, q)
      <4>1. CASE p \in DOMAIN files
        <5>1. maps' = Append(maps, p)
          BY <1>1, <1>3, <4>1 DEF Dl!dlopen
        <5> QED  BY <1>2, <2>5, <4>1, <5>1, CountMore
      <4>2. CASE p \notin DOMAIN files
        BY <1>1, <1>3, <4>2 DEF Dl!dlopen
      <4> QED  BY <4>1, <4>2
    <3>2. Dl!Count(Append(g, p), q) = Dl!Count(g, q)
      BY <2>5, CountMore
    <3> QED  BY <2>3, <3>1, <3>2
  <2> QED  BY <2>4, <2>5
<1>7. Dl!NoAbort'
  BY <1>1 DEF Dl!NoAbort
<1>8. ASSUME Dl!WellLinked'  PROVE (Nested /\ Passed /\ LibsOpened)'
  <2>1. Dl!WellLinked
    BY <1>1, <1>8, LinkedStays
  <2>2. LibsOpened /\ DOMAIN stack = {}
    BY <1>1, <2>1 DEF DlInv
  <2>3. \A q : Done(q) => Done(q)'
    BY <1>1, DoneStays DEF Known
  <2>4. LibsOpened'
    BY <1>1, <2>2, <2>3 DEF LibsOpened
  <2>5. CASE p \in DOMAIN files
    <3>1. maps' = Append(maps, p) /\ stack' = Append(<< >>, [h |-> Len(maps) + 1, sym |-> 1])
      BY <1>1, <1>3, <2>5 DEF Dl!dlopen
    <3>2. DOMAIN stack' = {1} /\ stack'[1].h = Len(maps) + 1 /\ stack'[1].sym = 1
      BY <3>1
    <3>3. File(1)' = p
      BY <1>2, <2>5, <3>1, <3>2 DEF File
    <3>4. Dl!Needed(p)' = Dl!Needed(p)
      BY <1>1 DEF Dl!Needed, Dl!Loads
    <3>5. Nested'
      BY <2>5, <3>2, <3>3, <3>4, NeededSelf DEF Nested
    <3>6. Passed'
      <4>1. files[p] \in Seq(Record)
        BY <1>1, <2>5 DEF DlType
      <4> SUFFICES ASSUME NEW d \in DOMAIN stack', NEW j \in (DOMAIN files[File(d)])',
                          j < stack'[d].sym
                   PROVE  FALSE
        BY DEF Passed
      <4>2. d = 1
        BY <3>2
      <4>3. j \in DOMAIN files[p] /\ j < 1
        BY <1>1, <3>2, <3>3, <4>2
      <4> QED  BY <4>1, <4>3
    <3> QED  BY <2>4, <3>5, <3>6
  <2>6. CASE p \notin DOMAIN files
    <3>1. stack' = << >>
      BY <1>1, <1>3, <2>6, Zenon DEF Dl!dlopen
    <3>2. DOMAIN stack' = {}
      BY <3>1
    <3>3. Nested'
      BY <3>2 DEF Nested
    <3>4. Passed'
      BY <3>2 DEF Passed
    <3> QED  BY <2>4, <3>3, <3>4
  <2> QED  BY <2>5, <2>6
<1> QED  BY <1>4, <1>5, <1>6, <1>7, <1>8 DEF DlInv

\* Every step of dlbox.c keeps the invariant.
LEMMA DlStep == DlInv /\ Dl!Next => DlInv'
  BY DlopenChkInv, MainReturnsInv, DlloadInv, DlsymInv, DlexportInv, ReturnInv, Zenon DEF Dl!Next

\* A step of nothing keeps the invariant.
LEMMA DlStutters ==
  DlInv /\ UNCHANGED <<argv, files, path, maps, stack, libs, syms, bound, status>> => DlInv'
<1> SUFFICES ASSUME DlInv, UNCHANGED <<argv, files, path, maps, stack, libs, syms, bound, status>>
             PROVE  DlInv'
  OBVIOUS
<1>1. DlType' /\ Distinct' /\ Bound'
  BY DEF DlInv, DlType, Distinct, Bound
<1>2. Counted'
  BY Zenon DEF DlInv, Counted, Given, InLibs, Dl!Count
<1>3. Dl!WellLinked' <=> Dl!WellLinked
  BY LinkedStays
<1>4. Dl!NoAbort'
  BY <1>3 DEF DlInv, Dl!NoAbort
<1>5. ASSUME status' # "abort", Dl!WellLinked'  PROVE (Nested /\ Passed /\ LibsOpened)'
  <2>1. Nested /\ Passed /\ LibsOpened
    BY <1>3, <1>5 DEF DlInv
  <2> QED  BY <2>1, LinksStay
<1> QED  BY <1>1, <1>2, <1>4, <1>5 DEF DlInv

\* The invariant of dlbox.c holds from its start on.
THEOREM DlInvariant == AllSpec => [](program = "dlbox" => DlInv)
<1> DEFINE I == program = "dlbox" => DlInv
<1>1. AllInit => I
  BY DlStart DEF AllInit
<1>2. I /\ [AllNext]_all => I'
  <2> SUFFICES ASSUME I, [AllNext]_all, program' = "dlbox"  PROVE DlInv'
    OBVIOUS
  <2>1. CASE InDl /\ Dl!Next
    <3>1. DlInv
      BY <2>1 DEF InDl
    <3> QED  BY <2>1, <3>1, DlStep, Zenon
  <2>2. CASE InBoot \/ InStatic
    BY <2>2 DEF InBoot, InStatic
  <2>3. CASE UNCHANGED all
    <3>1. UNCHANGED <<program, argv, status, stack, files, path, maps, libs, syms, bound>>
      BY <2>3 DEF all, dlVars
    <3>2. DlInv
      BY <3>1
    <3> QED  BY <3>1, <3>2, DlStutters, Zenon
  <2> QED  BY <2>1, <2>2, <2>3 DEF AllNext, Over
<1> QED  BY <1>1, <1>2, PTL DEF AllSpec

\* dlbox.c links well: all imports of a name are bound to one address, no
\* library is mapped but once and once for each time it is given to main, and
\* the assertions (dlbox.c:159, 169, 181) fail only for files that do not load
\* what they import or are too many.
THEOREM LoadingLinksWell == AllSpec => []LinksWell
<1>1. (program = "dlbox" => DlInv) => LinksWell
  <2> SUFFICES ASSUME program = "dlbox", DlInv  PROVE Dl!OneDefinition /\ Dl!NoAbort
    BY DEF LinksWell
  <2> QED  BY DlImplies
<1> QED  BY <1>1, DlInvariant, PTL
=============================================================================
