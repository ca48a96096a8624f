----------------------------- MODULE FishProofs -----------------------------
(***************************************************************************)
(* Proofs about Fish (fish.c) for every set of threads and every           *)
(* assignment of roles, with or without spurious wakeups: the turn is      *)
(* never duplicated or lost, assert(current) never fails, and the output   *)
(* follows the automaton of fish-dir.sh.                                   *)
(***************************************************************************)
EXTENDS Fish, TLAPS

Inside == {"while", "unlock_before", "after", "broadcast", "unlock_after", "abort"}

\* The mutex is held by the one thread that is inside.
MutexInv == /\ \A s, t \in lk : s = t
            /\ \A t \in Threads : t \in lk <=> pc[t] \in Inside
            /\ \A t \in cond : pc[t] = "wait"

\* The rule that let a thread take the turn still applies while it has it,
\* because only the thread with the turn changes current.
TurnInv == \A t \in Turn : next(current, roles[t]) # {}

\* A thread that has printed and not yet moved current printed last.
PrintedInv == \A t \in Threads : pc[t] \in {"lock_after", "after"} => printed = roles[t]

\* The inductive invariant.
IInv == /\ TypeOK
        /\ MutexInv
        /\ OneTurn
        /\ TurnInv
        /\ PrintedInv
        /\ AssertHolds

\* A rule only leads to states, draws no NUL, and leads to one state only.
LEMMA RulesFacts ==
  /\ \A from, ch : next(from, ch) \subseteq States
  /\ \A from : next(from, "NUL") = {}
  /\ \A from, ch : \A x, y \in next(from, ch) : x = y
BY DEF next, rules, States

\* The program starts in the invariant.
LEMMA InitIInv == Init => IInv
BY DEF Init, IInv, TypeOK, MutexInv, OneTurn, TurnInv, PrintedInv, AssertHolds, Turn,
       Inside, Locs, States

\* Steps that leave the turn where it is.
LEMMA SameTurn == ASSUME IInv, UNCHANGED <<current, quota>>, Turn' = Turn
                  PROVE  OneTurn' /\ TurnInv'
BY DEF IInv, OneTurn, TurnInv

\* fish_before keeps the invariant.
LEMMA BeforeIInv == ASSUME IInv, NEW t \in Threads, fish_before(t) PROVE IInv'
<1> USE RolesAssumption DEF IInv, TypeOK, Goto, Inside, Locs
<1>1. CASE LockBefore(t) \/ CondWait(t) \/ Return(t) \/ UnlockBefore(t)
  <2>1. Turn' = Turn
    BY <1>1 DEF LockBefore, CondWait, Return, UnlockBefore, Turn
  <2>2. OneTurn' /\ TurnInv'
    BY <1>1, <2>1, SameTurn DEF LockBefore, CondWait, Return, UnlockBefore
  <2>3. TypeOK' /\ MutexInv' /\ PrintedInv' /\ AssertHolds'
    BY <1>1 DEF LockBefore, CondWait, Return, UnlockBefore, MutexInv, PrintedInv, AssertHolds
  <2> QED  BY <2>2, <2>3
<1>2. CASE TakeQuota(t)
  <2>1. TypeOK' /\ MutexInv' /\ PrintedInv' /\ AssertHolds'
    BY <1>2 DEF TakeQuota, MayProceed, MutexInv, PrintedInv, AssertHolds
  <2>2. Turn = {} /\ quota = 1
    BY <1>2 DEF TakeQuota, MayProceed, OneTurn
  <2>3. Turn' = {t} /\ quota' = 0
    BY <1>2, <2>2 DEF TakeQuota, Turn
  <2>4. OneTurn' /\ TurnInv'
    BY <1>2, <2>3 DEF OneTurn, TurnInv, TakeQuota, MayProceed
  <2> QED  BY <2>1, <2>4
<1> QED  BY <1>1, <1>2 DEF fish_before

\* putchar keeps the invariant: the thread with the turn is the only printer.
LEMMA PutcharIInv == ASSUME IInv, NEW t \in Threads, Putchar(t) PROVE IInv'
<1> USE RolesAssumption DEF IInv, TypeOK, Goto, Inside, Locs
<1>1. Turn' = Turn /\ Turn = {t}
  BY DEF Putchar, Turn, OneTurn
<1>2. OneTurn' /\ TurnInv'
  BY <1>1, SameTurn DEF Putchar
<1>3. roles[t] \in {"<", ">", "underscore"}
  BY <1>1, RolesAssumption, RulesFacts DEF TurnInv, Chars
<1>4. TypeOK' /\ MutexInv' /\ PrintedInv' /\ AssertHolds'
  BY <1>1, <1>3 DEF Putchar, MutexInv, PrintedInv, AssertHolds, Turn
<1> QED  BY <1>2, <1>4

\* fish_after keeps the invariant.
LEMMA AfterIInv == ASSUME IInv, NEW t \in Threads, fish_after(t) PROVE IInv'
<1> USE RolesAssumption DEF IInv, TypeOK, Goto, Inside, Locs
<1>1. CASE LockAfter(t) \/ Broadcast(t) \/ UnlockAfter(t)
  <2>1. Turn' = Turn
    BY <1>1 DEF LockAfter, Broadcast, UnlockAfter, Turn
  <2>2. OneTurn' /\ TurnInv'
    BY <1>1, <2>1, SameTurn DEF LockAfter, Broadcast, UnlockAfter
  <2>3. TypeOK' /\ MutexInv' /\ PrintedInv' /\ AssertHolds'
    BY <1>1 DEF LockAfter, Broadcast, UnlockAfter, MutexInv, PrintedInv, AssertHolds
  <2> QED  BY <2>2, <2>3
<1>2. CASE After(t)
  <2>1. Turn = {t} /\ quota = 0
    BY <1>2 DEF After, Turn, OneTurn
  <2>2. next(current, roles[t]) # {}
    BY <2>1 DEF TurnInv
  <2>3. Turn' = {} /\ quota' = 1
    BY <1>2, <2>1, <2>2 DEF After, Turn
  <2>4. current' \in States
    BY <1>2, <2>2, RulesFacts DEF After
  <2>5. TypeOK' /\ MutexInv' /\ PrintedInv' /\ AssertHolds'
    BY <1>2, <2>2, <2>3, <2>4 DEF After, MutexInv, PrintedInv, AssertHolds
  <2> QED  BY <2>3, <2>5 DEF OneTurn, TurnInv
<1> QED  BY <1>1, <1>2 DEF fish_after

\* Every step keeps the invariant.
LEMMA NextIInv == IInv /\ [Next]_vars => IInv'
<1> SUFFICES ASSUME IInv, [Next]_vars PROVE IInv'
  OBVIOUS
<1>1. ASSUME NEW t \in Threads, fish_thread(t) PROVE IInv'
  BY <1>1, BeforeIInv, PutcharIInv, AfterIInv DEF fish_thread
<1>2. ASSUME NEW t \in Threads, Spurious(t) PROVE IInv'
  BY <1>2 DEF Spurious, IInv, TypeOK, MutexInv, OneTurn, TurnInv, PrintedInv, AssertHolds, Turn
<1>3. CASE UNCHANGED vars
  BY <1>3 DEF vars, IInv, TypeOK, MutexInv, OneTurn, TurnInv, PrintedInv, AssertHolds, Turn
<1> QED  BY <1>1, <1>2, <1>3 DEF Next

\* The inductive invariant holds in every reachable state.
THEOREM FishInvariant == Spec => []IInv
BY InitIInv, NextIInv, PTL DEF Spec

\* The turn of fish.c is with one thread or in quota, for any number of
\* threads and any roles.
THEOREM FishOneTurn == Spec => []OneTurn
<1>1. IInv => OneTurn
  BY DEF IInv
<1> QED  BY <1>1, FishInvariant, PTL

\* assert(current) in fish_after never fails, for any number of threads and
\* any roles.
THEOREM FishAssertHolds == Spec => []AssertHolds
<1>1. IInv => AssertHolds
  BY DEF IInv
<1> QED  BY <1>1, FishInvariant, PTL

dirBar == IF Drawn THEN CHOOSE to \in next(current, printed) : TRUE ELSE current

DirBarInv == /\ ~Drawn => dirBar = current
             /\ Drawn => dirBar \in next(current, printed)

\* While nothing that has been drawn is missing from current, the automaton
\* stands in current; otherwise one rule further.
LEMMA DirBar == IInv => DirBarInv
<1>1. ASSUME IInv, Drawn PROVE next(current, printed) # {}
  BY <1>1 DEF Drawn, IInv, TurnInv, PrintedInv, Turn
<1> QED  BY <1>1 DEF dirBar, DirBarInv

\* Whatever fish.c prints, it is drawn by the automaton of fish-dir.sh.
THEOREM FishDrawsFish == Spec => DrawsFish
<1> USE DEF dirBar
<1>1. Init => Automaton!Init
  BY DEF Init, Automaton!Init, Drawn
<1>2. ASSUME IInv, IInv', [Next]_vars PROVE [Automaton!Next]_<<dirBar, printed>>
  <2> HIDE DEF dirBar
  <2>1. DirBarInv /\ DirBarInv'
    BY <1>2, DirBar, PTL
  <2>3. ASSUME NEW t \in Threads, Putchar(t) PROVE Automaton!Next
    <3>1. Turn = {t}
      BY <1>2, <2>3 DEF Putchar, Goto, Turn, IInv, OneTurn
    <3>2. ~Drawn /\ Drawn'
      BY <1>2, <2>3, <3>1 DEF Putchar, Goto, Drawn, Turn, IInv, TypeOK
    <3>3. printed' = roles[t] /\ current' = current
      BY <2>3 DEF Putchar
    <3>4. dirBar' \in next(dirBar, printed')
      BY <2>1, <3>2, <3>3 DEF DirBarInv
    <3>5. <<dirBar, printed', dirBar'>> \in rules
      BY <3>4 DEF next
    <3> QED  BY <3>5 DEF Automaton!Next, Automaton!Follow, Automaton!links, rules, dirBar
  <2>4. ASSUME NEW t \in Threads, After(t) PROVE UNCHANGED <<dirBar, printed>>
    <3>1. Turn = {t} /\ printed = roles[t]
      BY <1>2, <2>4 DEF After, Goto, Turn, IInv, OneTurn, PrintedInv
    <3>2. Drawn /\ ~Drawn'
      BY <1>2, <2>4, <3>1 DEF After, Goto, Drawn, Turn, IInv, TypeOK
    <3>3. current' \in next(current, printed)
      BY <1>2, <2>4, <3>1 DEF After, IInv, TurnInv
    <3>4. dirBar' = dirBar
      BY <2>1, <3>2, <3>3, RulesFacts DEF DirBarInv
    <3> QED  BY <2>4, <3>4 DEF After
  <2>5. ASSUME NEW t \in Threads, fish_thread(t) \/ Spurious(t), ~Putchar(t), ~After(t)
        PROVE  UNCHANGED <<dirBar, printed>>
    <3>1. UNCHANGED <<current, printed>> /\ Drawn' = Drawn
      BY <1>2, <2>5 DEF fish_thread, fish_before, fish_after, Spurious, LockBefore, CondWait,
         Return, TakeQuota, UnlockBefore, LockAfter, Broadcast, UnlockAfter, Goto, Drawn,
         IInv, TypeOK
    <3> QED  BY <3>1 DEF dirBar
  <2>6. CASE UNCHANGED vars
    BY <2>6 DEF vars, dirBar, Drawn
  <2> QED  BY <1>2, <2>3, <2>4, <2>5, <2>6 DEF Next
<1> QED  BY <1>1, <1>2, FishInvariant, PTL DEF Spec, DrawsFish, Automaton!Spec
=============================================================================
