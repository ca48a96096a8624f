------------------------------ MODULE PyLocks ------------------------------
(***************************************************************************)
(* Locks of concurrency/model-checker/ without a queue: dekker.py,         *)
(* peterson-flag.py and spinlock.py.  Two threads run the same code with   *)
(* `this' and `another' exchanged.  A location is the line of t1 that is   *)
(* next; a step is what model-checker.py executes between two yields, which*)
(* stand before every statement: the condition of a while is tested again  *)
(* in the step that ends its body.  The fourth program, pc-cv.py, builds a *)
(* condition variable on the lock of spinlock.py.                          *)
(***************************************************************************)
EXTENDS Integers, Sequences

Runners == {"t1", "t2"}
another(t) == IF t = "t1" THEN "t2" ELSE "t1"

VARIABLES flag,     \* flag[t]: t wants to enter
          turn,     \* whose turn it is
          locked,   \* spinlock.py, pc-cv.py
          count,    \* pc-cv.py: the parentheses that are open
          waits,    \* pc-cv.py: the threads that sleep in cond_wait
          log,      \* pc-cv.py: what was printed
          pc
vars == <<flag, turn, locked, count, waits, log, pc>>

\* the first statement, and whose turn it is
Init(line, first) == /\ flag = [t \in Runners |-> FALSE]
                     /\ turn = first
                     /\ locked = FALSE
                     /\ pc = [t \in Runners |-> line]

Goto(t, from, to) == pc[t] = from /\ pc' = [pc EXCEPT ![t] = to]
SetFlag(t, b) == flag' = [flag EXCEPT ![t] = b] /\ UNCHANGED <<turn, locked>>
SetTurn(t) == turn' = t /\ UNCHANGED <<flag, locked>>
SetLocked(b) == locked' = b /\ UNCHANGED <<flag, turn>>
Keep == UNCHANGED <<flag, turn, locked>>
-----------------------------------------------------------------------------
(* dekker.py *)

\* while self.flag[another]
Wait10(t) == IF flag[another(t)] THEN 11 ELSE 16

EnterWhenMyTurn(t) == Goto(t, 15, 16) /\ SetFlag(t, TRUE)

\* self.flag[this] = True, and back to the while
RaiseAgain(t) == Goto(t, 15, Wait10(t)) /\ SetFlag(t, TRUE)

GiveWay(t) == \/ turn = another(t) /\ Goto(t, 11, 12) /\ Keep
              \/ turn # another(t) /\ Goto(t, 11, Wait10(t)) /\ Keep
              \/ Goto(t, 12, 13) /\ SetFlag(t, FALSE)
              \/ turn # another(t) /\ Goto(t, 13, 15) /\ Keep
              \/ RaiseAgain(t)

Dekker(t) == \/ Goto(t, 9, 10) /\ SetFlag(t, TRUE)
             \/ Goto(t, 10, Wait10(t)) /\ Keep
             \/ GiveWay(t)
             \/ Goto(t, 16, 17) /\ Keep
             \/ Goto(t, 17, 18) /\ Keep
             \/ Goto(t, 18, 19) /\ SetTurn(another(t))
             \/ Goto(t, 19, 9) /\ SetFlag(t, FALSE)
-----------------------------------------------------------------------------
(* peterson-flag.py: the flag of a thread in turn makes it the thread's turn *)

Peterson(t) == \/ Goto(t, 8, 9) /\ SetFlag(t, TRUE)
               \/ Goto(t, 9, 10) /\ SetTurn(another(t))
               \/ ~(flag[another(t)] /\ turn = another(t)) /\ Goto(t, 10, 12) /\ Keep
               \/ Goto(t, 12, 13) /\ Keep
               \/ Goto(t, 13, 14) /\ Keep
               \/ Goto(t, 14, 8) /\ SetFlag(t, FALSE)
-----------------------------------------------------------------------------
(* spinlock.py: line 9 only looks at the local seen, and is part of line 8 *)

Spin(t) == \/ Goto(t, 8, IF locked THEN 8 ELSE 10) /\ SetLocked(TRUE)
           \/ Goto(t, 10, 11) /\ Keep
           \/ Goto(t, 11, 12) /\ Keep
           \/ Goto(t, 12, 8) /\ SetLocked(FALSE)
-----------------------------------------------------------------------------
(* pc-cv.py: tp prints two '(', tc1 and tc2 one ')' each *)

CvRunners == {"tp", "tc1", "tc2"}

CvInit == /\ locked = FALSE /\ count = 0 /\ waits = {} /\ log = << >>
          /\ pc = [t \in CvRunners |-> "lock"]

\* while not self.tryacquire(): pass
tryacquire == ~locked /\ locked' = TRUE /\ UNCHANGED <<count, waits, log>>

\* while self.count == 1, while self.count == 0
WhileFull(t) == IF count = (IF t = "tp" THEN 1 ELSE 0) THEN "cond_wait" ELSE "print"

\* `if' for `while'
PrintAtOnce(t) == "print"

\* the condition once more, after the lock was taken again
Retest(t) == WhileFull(t)

\* the release and the entry into waits are one statement
CondWait(t) == \/ /\ Goto(t, "cond_wait", "asleep")
                  /\ locked' = FALSE /\ waits' = waits \union {t}
                  /\ UNCHANGED <<count, log>>
               \/ /\ t \notin waits /\ Goto(t, "asleep", "relock")
                  /\ UNCHANGED <<locked, count, waits, log>>
               \/ Goto(t, "relock", Retest(t)) /\ tryacquire

PrintOne(t) == /\ Goto(t, "print", "wake")
               /\ log' = Append(log, IF t = "tp" THEN "(" ELSE ")")
               /\ count' = IF t = "tp" THEN count + 1 ELSE count - 1
               /\ UNCHANGED <<locked, waits>>

\* self.waits = ''
WakeAll(t) == Goto(t, "wake", "release") /\ waits' = {} /\ UNCHANGED <<locked, count, log>>

\* self.release(), and tp's second turn
release(t) == /\ Goto(t, "release", IF t = "tp" /\ Len(SelectSeq(log, LAMBDA c : c = "(")) < 2
                                   THEN "lock" ELSE "done")
              /\ locked' = FALSE /\ UNCHANGED <<count, waits, log>>

PcCv(t) == \/ Goto(t, "lock", "while") /\ tryacquire
           \/ Goto(t, "while", WhileFull(t)) /\ UNCHANGED <<locked, count, waits, log>>
           \/ CondWait(t)
           \/ PrintOne(t)
           \/ WakeAll(t)
           \/ release(t)

\* No prefix of the log closes more than it opens: mark_negative paints no
\* state red (pc-cv.py:57-63).
NotNegative == LET printed(c, k) == Len(SelectSeq(SubSeq(log, 1, k), LAMBDA d : d = c))
               IN \A k \in 1..Len(log) : printed(")", k) <= printed("(", k)
-----------------------------------------------------------------------------
\* No two threads have the local cs at a time, which mark_both would paint
\* red (dekker.py:46-49, peterson-flag.py:35-38, spinlock.py:32-35): del is
\* the statement at `line'.
MutualExclusion(line) == ~\A t \in Runners : pc[t] = line
=============================================================================
