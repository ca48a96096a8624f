-------------------------------- MODULE MCPc --------------------------------
(***************************************************************************)
(* The programs on thread-sync.h for TLC: the three producer-consumer      *)
(* programs and philosopher.c.  The initial state says which of them runs. *)
(* They share the names of their variables; those that a program does not  *)
(* have keep their initial value.                                          *)
(***************************************************************************)
EXTENDS PcCv

CONSTANT N                       \* how many philosophers
ASSUME PhilosophersAssumption == N \in Nat /\ N >= 2

VARIABLES program, empty, fill, locks
all == <<program, vars, empty, fill, locks>>

Mutex == INSTANCE PcMutex
Sem == INSTANCE PcSem
Phil == INSTANCE Philosopher

MCProducers == 1..3
MCConsumers == 4..5

NoMutex == lk = {} /\ cv = {} /\ count = 0
NoSem == empty = 0 /\ fill = 0
AllInit == \/ program = "pc.c" /\ Mutex!Init /\ cv = {} /\ NoSem /\ locks = << >>
           \/ program = "pc-cv.c" /\ Init /\ NoSem /\ locks = << >>
           \/ program = "pc-sem.c" /\ Sem!Init /\ NoMutex /\ locks = << >>
           \/ program = "philosopher.c" /\ Phil!Init /\ depth = 0 /\ NoMutex /\ NoSem

MutexStep == program = "pc.c" /\ Mutex!Next /\ UNCHANGED <<program, cv, empty, fill, locks>>
CvRun(t) == program = "pc-cv.c" /\ Run(t) /\ UNCHANGED <<program, empty, fill, locks>>
CvSpurious(t) == program = "pc-cv.c" /\ Spurious(t) /\ UNCHANGED <<program, empty, fill, locks>>
SemProducer(p) == /\ program = "pc-sem.c" /\ Sem!producer(p)
                  /\ UNCHANGED <<program, lk, cv, count, locks>>
SemConsumer(c) == /\ program = "pc-sem.c" /\ Sem!consumer(c)
                  /\ UNCHANGED <<program, lk, cv, count, locks>>
PhilStep == /\ program = "philosopher.c" /\ Phil!Next
            /\ UNCHANGED <<program, lk, cv, count, depth, empty, fill>>

AllNext == \/ MutexStep
           \/ \E t \in Threads : CvRun(t) \/ CvSpurious(t)
           \/ \E p \in Producers : SemProducer(p)
           \/ \E c \in Consumers : SemConsumer(c)
           \/ PhilStep

\* A thread that can go on is eventually scheduled.  Nothing is assumed of
\* who gets a contended mutex, but that threads do not wake for no reason
\* for ever.
AllSpec == /\ AllInit /\ [][AllNext]_all
           /\ \A t \in Threads : WF_all(CvRun(t)) /\ <>[][~CvSpurious(t)]_all
           /\ \A p \in Producers : WF_all(SemProducer(p))
           /\ \A c \in Consumers : WF_all(SemConsumer(c))
-----------------------------------------------------------------------------
\* In pc.c and pc-cv.c, where the counter and the output change one after
\* the other under lk (pc.c:15-16,29-30, pc-cv.c:14,26), they agree whenever
\* nobody is inside.  In pc-sem.c every place is in a semaphore or with the
\* one thread that took it and has not passed it on (pc-sem.c:8-10,16-18).
OutputIsAccountedFor == /\ program \in {"pc.c", "pc-cv.c"} => Mutex!CountIsDepth
                        /\ program = "pc-sem.c" => Sem!PlacesConserved

\* In philosopher.c no fork is in two hands (12-15, 21-24), and the
\* philosophers never wait for each other in a circle, because the last one
\* takes its forks the other way round (10).
PhilosophersGoOn == program = "philosopher.c" => Phil!OneHandPerFork /\ Phil!SomeoneCanGo

\* Both kinds of parentheses are printed for ever by pc-cv.c (14, 26) and
\* pc-sem.c (9, 17).  In pc.c the threads that retry may keep the mutex from
\* the one thread that could go on.
BothArePrinted == /\ program = "pc-cv.c" => Progress
                  /\ program = "pc-sem.c" => Sem!Progress
=============================================================================
