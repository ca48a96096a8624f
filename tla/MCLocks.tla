------------------------------ MODULE MCLocks ------------------------------
(***************************************************************************)
(* The locks for TLC.  futex.py with four threads is the module's own      *)
(* specification; the others are instances: sem.py with four threads for   *)
(* one token and for two, peterson-barrier.c, the same program with only   *)
(* the barrier that its comment calls critical, mem-ordering.c, dekker.py, *)
(* peterson-flag.py, spinlock.py, pc-cv.py, lock-ordering.py and           *)
(* processes of flock-demo.c.  The initial state says which of them runs;  *)
(* the variables of the others stay as they are.                           *)
(***************************************************************************)
EXTENDS Futex, FiniteSets

CONSTANTS t1, t2, t3, t4,
          Pids, Files, Argvs            \* flock-demo.c: processes, files, arguments
ASSUME FiniteAssumption == IsFiniteSet(Threads) /\ IsFiniteSet(Files)
ASSUME ArgvsAssumption == \A argv \in Argvs : Len(argv) \in Nat
VARIABLES program,
          at,                           \* the locations of the others
          token, queue,                 \* sem.py; count and waits of pc-cv.py
          mem, buf, nested, flag, seen, \* peterson-barrier.c, mem-ordering.c
          turn, taken, log,             \* dekker.py, peterson-flag.py, spinlock.py, pc-cv.py
          order, held, ended            \* lock-ordering.py, flock-demo.c
sem == <<token, queue>>
tso == <<mem, buf, nested, seen>>
py == <<turn, taken, log>>
ordered == <<order, held, ended>>
all == <<program, vars, at, flag, sem, tso, py, ordered>>

Sem(K) == INSTANCE SemQueue WITH Tokens <- K, waits <- queue, pc <- at
Peterson(Bs) == INSTANCE PetersonTSO WITH Barriers <- Bs, pc <- at
Litmus == INSTANCE MemOrdering WITH pc <- at
Py == INSTANCE PyLocks WITH locked <- taken, count <- token, waits <- queue, pc <- at

Order(Ps, Ls, Os) == INSTANCE LockOrder WITH Procs <- Ps, Locks <- Ls, Orders <- Os

\* t1 and t2 of lock-ordering.py
PyOrders == {<< <<0, 1, 2>>, <<2, 1>> >>}

\* For TLC: three processes with up to two names each, of which two are files
MCFiles == {"foo", "bar"}
MCArgvs == LET names == MCFiles \union {"none"} IN {<<f>> : f \in names} \union (names \X names)

\* the barriers of peterson-barrier.c, and the one that its comment calls critical
Barriers == {"flag", "turn", "test", "clear"}
Critical == {"turn"}

NotSem == token = 0 /\ queue = << >>
NotTso == mem = << >> /\ buf = << >> /\ nested = 0 /\ seen = << >>
NotPy == turn = "none" /\ taken = FALSE /\ log = << >>
NotOrdered == order = << >> /\ held = << >> /\ ended = {}

SemInit == /\ \/ program = "one token" /\ Sem(1)!Init
              \/ program = "two tokens" /\ Sem(2)!Init
           /\ flag = {} /\ NotTso /\ NotPy /\ NotOrdered
TsoInit == /\ \/ program = "all barriers" /\ Peterson(Barriers)!Init /\ flag = {} /\ seen = << >>
              \/ program = "critical barrier" /\ Peterson(Critical)!Init /\ flag = {} /\ seen = << >>
              \/ program = "mem-ordering" /\ Litmus!Init /\ nested = 0
           /\ NotSem /\ NotPy /\ NotOrdered
PyInit == /\ \/ program = "dekker" /\ Py!Init(9, "t1")
             \/ program = "peterson-flag" /\ Py!Init(8, "none")
             \/ program = "spinlock" /\ Py!Init(8, "none")
          /\ NotSem /\ log = << >> /\ NotTso /\ NotOrdered
PcCvInit == /\ program = "pc-cv" /\ Py!CvInit
            /\ flag = {} /\ turn = "none" /\ NotTso /\ NotOrdered
OrderInit == /\ \/ program = "lock-ordering" /\ Order({1, 2}, 0..2, PyOrders)!Init
                \/ program = "flock" /\ Order(Pids, Files, [Pids -> Argvs])!Init
             /\ at = << >> /\ flag = {} /\ NotSem /\ NotTso /\ NotPy
FutexInit == /\ program = "futex"
             /\ at = << >> /\ flag = {} /\ NotSem /\ NotTso /\ NotPy /\ NotOrdered
AllInit == Init /\ (FutexInit \/ SemInit \/ TsoInit \/ PyInit \/ PcCvInit \/ OrderInit)

InFutex == program = "futex" /\ UNCHANGED <<program, at, flag, sem, tso, py, ordered>>
InSem(p) == program = p /\ UNCHANGED <<program, vars, flag, tso, py, ordered>>
InPeterson(p) == program = p /\ UNCHANGED <<program, vars, flag, seen, sem, py, ordered>>
InLitmus == program = "mem-ordering" /\ UNCHANGED <<program, vars, nested, sem, py, ordered>>
InPy(p) == program = p /\ UNCHANGED <<program, vars, sem, log, tso, ordered>>
InPcCv == program = "pc-cv" /\ UNCHANGED <<program, vars, flag, turn, tso, ordered>>
InOrder(p) == program = p /\ UNCHANGED <<program, vars, at, flag, sem, tso, py>>

InLockOrdering(p) == /\ InOrder("lock-ordering")
                     /\ \/ Order({1, 2}, 0..2, PyOrders)!acquire(p)
                        \/ Order({1, 2}, 0..2, PyOrders)!release(p)
InFlock(p) == /\ InOrder("flock")
              /\ \/ Order(Pids, Files, [Pids -> Argvs])!acquire(p)
                 \/ Order(Pids, Files, [Pids -> Argvs])!Exit(p)
                 \/ Order(Pids, Files, [Pids -> Argvs])!Abort(p)

\* the programs that end, and the ones that are left waiting
Circle == \/ program = "lock-ordering" /\ Order({1, 2}, 0..2, PyOrders)!Circle
          \/ program = "flock" /\ Order(Pids, Files, [Pids -> Argvs])!Circle
AllDone == \/ program \in {"one token", "two tokens"} /\ \A t \in Threads : at[t] = "done"
           \/ program = "pc-cv" /\ \A t \in Py!CvRunners : at[t] = "done"
           \/ program = "flock" /\ ended = Pids
Over == (AllDone \/ Circle) /\ UNCHANGED all

AllNext == \/ InFutex /\ Next
           \/ InSem("one token") /\ Sem(1)!Next
           \/ InSem("two tokens") /\ Sem(2)!Next
           \/ InPeterson("all barriers") /\ Peterson(Barriers)!Next
           \/ InPeterson("critical barrier") /\ Peterson(Critical)!Next
           \/ InLitmus /\ Litmus!Next
           \/ \E t \in Py!Runners : \/ InPy("dekker") /\ Py!Dekker(t)
                                    \/ InPy("peterson-flag") /\ Py!Peterson(t)
                                    \/ InPy("spinlock") /\ Py!Spin(t)
           \/ \E t \in Py!CvRunners : InPcCv /\ Py!PcCv(t)
           \/ \E p \in 1..2 : InLockOrdering(p)
           \/ \E p \in Pids : InFlock(p)
           \/ Over

\* Threads and processes are scheduled, and the processor drains its store
\* buffers in time.
AllSpec == /\ AllInit /\ [][AllNext]_all
           /\ \A t \in Threads : /\ WF_all(InFutex /\ Run(t))
                                 /\ WF_all(InSem("one token") /\ Sem(1)!Run(t))
                                 /\ WF_all(InSem("two tokens") /\ Sem(2)!Run(t))
           /\ \A t \in Peterson(Barriers)!Runners : /\ WF_all(InPeterson("all barriers") /\ Peterson(Barriers)!Run(t))
                                         /\ WF_all(InPeterson("all barriers") /\ Peterson(Barriers)!Flush(t))
                                         /\ WF_all(InPeterson("critical barrier") /\ Peterson(Critical)!Run(t))
                                         /\ WF_all(InPeterson("critical barrier") /\ Peterson(Critical)!Flush(t))
           /\ WF_all(InLitmus /\ Litmus!Tsync)
           /\ \A t \in Litmus!Writers : WF_all(InLitmus /\ Litmus!Writer(t))
           /\ \A t \in Litmus!Runners : WF_all(InLitmus /\ Litmus!Flush(t))
           /\ \A t \in Py!Runners : /\ WF_all(InPy("dekker") /\ Py!Dekker(t))
                                    /\ WF_all(InPy("peterson-flag") /\ Py!Peterson(t))
           /\ \A t \in Py!CvRunners : WF_all(InPcCv /\ Py!PcCv(t))
           /\ \A p \in 1..2 : WF_all(InLockOrdering(p))
           /\ \A p \in Pids : WF_all(InFlock(p))
-----------------------------------------------------------------------------
\* What the semaphore is to its users: a token that was handed over and not
\* noticed yet still counts.
OneSem == INSTANCE Semaphore WITH Tokens <- 1,
  count <- IF program = "one token" THEN token + Cardinality(Sem(1)!Through) ELSE 1,
  holders <- IF program = "one token" THEN Sem(1)!Holders ELSE {}
TwoSem == INSTANCE Semaphore WITH Tokens <- 2,
  count <- IF program = "two tokens" THEN token + Cardinality(Sem(2)!Through) ELSE 2,
  holders <- IF program = "two tokens" THEN Sem(2)!Holders ELSE {}

\* sem.py implements the counting semaphore that the programs on P and V rely
\* on (thread-sync.h:42-43): handing a token over in V (sem.py:12-16) cannot
\* be told from counting it up and down again, and no more threads than
\* tokens are ever between P and V.
ImplementsSemaphore == OneSem!Spec /\ TwoSem!Spec

\* No assertion fails: not in critical_section (peterson-barrier.c:16), with
\* all barriers or with the critical one alone, and not in Tsync
\* (mem-ordering.c:53), whose rounds moreover start with x and y at 0 and no
\* store of the last round on its way (mem-ordering.c:50-54).  No state of
\* dekker.py, peterson-flag.py, spinlock.py or pc-cv.py is painted red, which
\* is what they assert (dekker.py:46-49, peterson-flag.py:35-38,
\* spinlock.py:32-35, pc-cv.py:57-63).
NoAssertionFails ==
  /\ program \in {"all barriers", "critical barrier"} => Peterson(Barriers)!AssertHolds
  /\ program = "mem-ordering" => Litmus!AssertHolds /\ Litmus!RoundsAreClean
  /\ program = "dekker" => Py!MutualExclusion(17)
  /\ program = "peterson-flag" => Py!MutualExclusion(13)
  /\ program = "spinlock" => Py!MutualExclusion(11)
  /\ program = "pc-cv" => Py!NotNegative

\* No lock has two holders, and processes that take their locks in one order
\* never wait in a circle, or for themselves (lock-ordering.py:11-24,
\* flock-demo.c:7-13).
OrderPreventsCircles ==
  /\ program = "lock-ordering" => Order({1, 2}, 0..2, PyOrders)!OrderPreventsCircles
  /\ program = "flock" => Order(Pids, Files, [Pids -> Argvs])!OrderPreventsCircles

At(p, t, loc) == program = p /\ t \in DOMAIN at /\ at[t] = loc
HasAll == program = "lock-ordering" /\ \E p \in 1..2 : held[p] = Len(order[p])
Petersons == {"all barriers", "critical barrier"}

\* In the futex every thread that wants the lock gets it (futex.py:13-17),
\* also one that queued up too late for the release that it missed; in the
\* semaphore no thread is left in the queue (sem.py:9, 14), and in pc-cv.py
\* none is left in waits (pc-cv.py:18-20, 24, 39).  In all Peterson
\* programs and in dekker.py a thread that has raised its flag gets in,
\* however long the other keeps coming back (peterson-barrier.c:27-30,
\* dekker.py:10-15).  The rounds of mem-ordering.c go on for ever, although
\* three threads wait for each other in turn (mem-ordering.c:34, 42, 56).
\* The other two take several locks.  The processes of flock-demo.c all exit
\* unless there is a circle (flock-demo.c:7-13).  For lock-ordering.py the
\* claim is about the two threads together: unless there is a circle, one of
\* them has all its locks again and again.  The other one may never get them,
\* because nothing orders the threads that spin (lock-ordering.py:14-24).
LockProgress ==
  /\ \A t \in Threads : program = "futex" /\ pc[t] = "try" ~> pc[t] = "del"
  /\ program \in {"one token", "two tokens", "pc-cv"} ~> AllDone
  /\ \A p \in Petersons, t \in Peterson(Barriers)!Runners : At(p, t, "turn") ~> At(p, t, "nested--")
  /\ program = "mem-ordering" => []<>At("mem-ordering", "Tsync", "y=0")
  /\ \A t \in Py!Runners : /\ At("dekker", t, 10) ~> At("dekker", t, 17)
                           /\ At("peterson-flag", t, 9) ~> At("peterson-flag", t, 13)
  /\ program = "lock-ordering" => []<>HasAll \/ <>[]Circle
  /\ program = "flock" => <>AllDone \/ <>[]Circle
=============================================================================
