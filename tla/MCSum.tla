------------------------------- MODULE MCSum -------------------------------
(***************************************************************************)
(* The programs that divide work among threads, and thread.h under them,   *)
(* for TLC.  The unlocked increments of midterm-demo.c and sum.c are the   *)
(* module's own specification; the others are instances: the increments of *)
(* sum-scalability.c under the spin lock, any program that creates and     *)
(* joins threads, and mandelbrot.c.  The initial state says which of them  *)
(* runs; the variables of the others stay as they are.                     *)
(***************************************************************************)
EXTENDS RaceSum, Sequences

CONSTANTS t1, t2, t3,                  \* the threads, for the fairness conditions
          Increments,                  \* N of sum-scalability.c
          Records, Entries, NoEntry,   \* of thread.h
          Width, Widths                \* mandelbrot.c: W and what NT may be
ASSUME IncrementsAssumption == Increments \in Nat \ {0}
ASSUME RecordsAssumption == Records \in Nat /\ NoEntry \notin Entries
ASSUME WidthAssumption == Width \in Nat /\ Widths \subseteq 0..Width

VARIABLES program,
          lock, total, made,            \* sum-scalability.c: lock, sum and i
          id, status, entry, tptr, wanted, runs, thread, mpc, slot, exiting,   \* thread.h
          NT, x, col, load, done, at, image   \* mandelbrot.c: i, reg and pc are col, load and at
spinVars == <<lock, total, made>>
poolVars == <<id, status, entry, tptr, wanted, runs, thread, mpc, slot, exiting>>
manVars == <<NT, x, col, load, done, at, image>>
all == <<program, vars, spinVars, poolVars, manVars>>

Spin == INSTANCE SpinSum WITH N <- Increments, sum <- total, i <- made
Pool == INSTANCE ThreadPool WITH NTHREAD <- Records, i <- slot
Man == INSTANCE Mandelbrot WITH W <- Width, NTs <- Widths, i <- col, reg <- load, pc <- at

SpinUnused == lock = 0 /\ total = 0 /\ made = 0
PoolUnused == /\ id = 0 /\ status = 0 /\ entry = 0 /\ tptr = 0 /\ wanted = 0
              /\ runs = 0 /\ thread = 0 /\ mpc = "main" /\ slot = 0 /\ exiting = FALSE
ManUnused == NT = 0 /\ x = {} /\ col = 0 /\ load = 0 /\ done = 0 /\ at = 0 /\ image = << >>

AllInit == \/ program = "unlocked" /\ Init /\ SpinUnused /\ PoolUnused /\ ManUnused
           \/ /\ program = "spin" /\ Spin!Init /\ sum = 0 /\ i = [t \in Threads |-> 0]
              /\ PoolUnused /\ ManUnused
           \/ program = "pool" /\ Pool!Init /\ Init /\ SpinUnused /\ ManUnused
           \/ program = "mandelbrot" /\ Man!Init /\ Init /\ SpinUnused /\ PoolUnused

Unlocked == program = "unlocked" /\ UNCHANGED <<program, spinVars, poolVars, manVars>>
Spinning == program = "spin" /\ UNCHANGED <<program, sum, i, poolVars, manVars>>
Pooling == program = "pool" /\ UNCHANGED <<program, vars, spinVars, manVars>>
InMan == program = "mandelbrot" /\ UNCHANGED <<program, vars, spinVars, poolVars>>

ImageShownForEver == program = "mandelbrot" /\ (Man!Ended \/ Man!CountLost) /\ UNCHANGED all

AllNext == \/ Unlocked /\ Next
           \/ Spinning /\ Spin!Next
           \/ Pooling /\ Pool!Next
           \/ InMan /\ Man!Next
           \/ ImageShownForEver

\* Every thread that can run is run: the scheduler is preemptive.  In the
\* pool the entry functions return; main need not.  One condition serves
\* several programs, of which only one runs: Main is the main of that program.
Main == \/ Spinning /\ (Spin!Join \/ Spin!Assert)
        \/ Pooling /\ Pool!join
        \/ InMan /\ Man!Display
Thread(k) == \/ Spinning /\ Spin!Tsum(<<t1, t2, t3>>[k])
             \/ Pooling /\ Pool!wrapper(k)
             \/ InMan /\ k \in Man!Workers /\ Man!Tworker(k)
Fair == WF_all(Main) /\ \A k \in 1..3 : WF_all(Thread(k))

AllSpec == AllInit /\ [][AllNext]_all /\ Fair
-----------------------------------------------------------------------------
\* The unlocked increments of midterm-demo.c and sum.c lose updates, within
\* bounds: the counter is never ahead of the increments that were stored
\* (sum.c:8-12), and what is printed is at least 2, however many threads add
\* however often (midterm-demo.c:8-18), if each adds twice.
UpdatesLostWithinBounds == NeverTooMuch /\ AtLeastTwo

\* spin_lock (thread-sync.h:18-25) lets at most one thread in at a time, and
\* no increment is lost: the assertion of sum-scalability.c:39 never fails.
SpinLockWorks == program = "spin" => Spin!MutualExclusion /\ Spin!AssertHolds

\* Every thread of the pool runs the function it was created for, with its
\* own id, although wrapper reads its record while main goes on to fill the
\* next one (thread.h:22-25, 33-41).  cleanup joins once more after main may
\* have joined (thread.h:44-54): no thread is joined twice, and none is left
\* running.
PoolWorks == program = "pool" => Pool!OwnRecord /\ Pool!JoinedOnce /\ Pool!NobodyLeft

\* In the file that mandelbrot.c writes, of every second column, those that
\* belong to a thread are rendered, although Tdisplay only knows of the threads
\* through a counter that loses increments (mandelbrot.c:21-22, 42, 51, 58).
\* All columns belong to one if NT divides W, and else all but the last few
\* (mandelbrot.c:10).
ImageIsComplete == program = "mandelbrot" => Man!ImageIsComplete

\* main does not wait for ever.  sum-scalability.c ends: a spinning thread is
\* not left behind, because the others have only finitely many increments
\* (sum-scalability.c:16-18).  join of the pool returns, if the entry
\* functions do (thread.h:45-51).  mandelbrot.c ends unless an increment of
\* done is lost (mandelbrot.c:42).
MainEnds == /\ mpc = "join" ~> mpc \in {"main", "exited"}
            /\ program = "spin" => <>(main = "exit")
            /\ \/ program # "mandelbrot"
               \/ <>(program = "mandelbrot" /\ Man!Ended)
               \/ <>[](program = "mandelbrot" /\ Man!CountLost)
=============================================================================
