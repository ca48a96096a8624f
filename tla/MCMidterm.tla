----------------------------- MODULE MCMidterm -----------------------------
(***************************************************************************)
(* The midterm programs that add up the numbers on stdin, for TLC.         *)
(* midterm-v2.c is the module's own specification; midterm-v1.c, with any  *)
(* set P of producers and any numbers I on stdin, and midterm-tle.c are    *)
(* instances.  The initial state says which of them runs; the variables of *)
(* the others stay as they are.                                            *)
(***************************************************************************)
EXTENDS MidtermV2

CONSTANTS t1, t2, t3,                  \* the threads, for the fairness conditions
          Producers, p1, Consumers,    \* midterm-v1.c; p1 where it has one producer
          Few,                         \* what is on its stdin when it has more
          NTHREAD                      \* of midterm-tle.c
ASSUME ThreadsAssumption == IsFiniteSet(Threads) /\ Threads # {}
ASSUME ProducersAssumption == /\ IsFiniteSet(Producers)
                              /\ IsFiniteSet(Consumers)
                              /\ Producers \intersect Consumers = {} /\ p1 \in Producers
ASSUME InputAssumption == Input \in Seq(Nat) /\ Few \in Seq(Nat)
ASSUME NTHREADAssumption == NTHREAD \in Nat \ {0}

VARIABLES program,
          buffer, is_eof, buffer_lk, buffer_cv,             \* midterm-v1.c
          arg, status, tpool_lk, asleep, mpc, index         \* midterm-tle.c
v1Vars == <<buffer, is_eof, buffer_lk, buffer_cv>>
tleVars == <<arg, status, tpool_lk, asleep, mpc, index>>
all == <<program, vars, v1Vars, tleVars>>

V1(P, I) == INSTANCE MidtermV1 WITH Producers <- P, Input <- I
Tle == INSTANCE MidtermTle

\* powers of two, so that every set of numbers has its own sum; there are more
\* of them than slots in midterm-tle.c
MCInput == <<1, 2, 4>>
MCFew == <<1, 2>>

V1Unused == buffer = << >> /\ is_eof = FALSE /\ buffer_lk = {} /\ buffer_cv = {}
TleUnused == /\ arg = 0 /\ status = 0 /\ tpool_lk = {}
             /\ asleep = FALSE /\ mpc = "read" /\ index = 0

AllInit == \/ program = "v2" /\ Init /\ V1Unused /\ TleUnused
           \/ program = "v1" /\ V1(Producers, Few)!Init /\ TleUnused
           \/ program = "v1, one producer" /\ V1({p1}, Input)!Init /\ TleUnused
           \/ program = "tle" /\ Tle!Init /\ V1Unused /\ main = "join"

InV2 == program = "v2" /\ UNCHANGED <<program, v1Vars, tleVars>>
InV1(p) == program = p /\ UNCHANGED <<program, tleVars>>
InTle == program = "tle" /\ UNCHANGED <<program, v1Vars, main>>

AllNext == \/ InV2 /\ Next
           \/ InV1("v1") /\ V1(Producers, Few)!Next
           \/ InV1("v1, one producer") /\ V1({p1}, Input)!Next
           \/ InTle /\ Tle!Next

\* Every thread that can run is run: the scheduler is preemptive.  Threads do
\* not wake for no reason for ever.  In midterm-v1.c producers that find the
\* stack full at the end of stdin take and release buffer_lk in a loop: there
\* it is assumed that a thread that asks for a mutex which is released again
\* and again gets it in the end.  One condition serves several programs, of
\* which only one runs: Main is the main of that program.
Main == \/ InV2 /\ Join
        \/ InV1("v1") /\ V1(Producers, Few)!Join
        \/ InV1("v1, one producer") /\ V1({p1}, Input)!Join
        \/ InTle /\ Tle!main
Thread(k) == \/ InV2 /\ handler(<<t1, t2, t3>>[k])
             \/ InTle /\ k \in Tle!Slots /\ Tle!wrapper(k)
Producer(p) == \/ InV1("v1") /\ V1(Producers, Few)!producer(p)
               \/ InV1("v1, one producer") /\ p = p1 /\ V1({p1}, Input)!producer(p)
Consumer(c) == \/ InV1("v1") /\ V1(Producers, Few)!consumer(c)
               \/ InV1("v1, one producer") /\ V1({p1}, Input)!consumer(c)
ProducerGetsLock(p) ==
  \/ InV1("v1") /\ V1(Producers, Few)!LockProducer(p)
  \/ InV1("v1, one producer") /\ p = p1 /\ V1({p1}, Input)!LockProducer(p)
ConsumerGetsLock(c) ==
  \/ InV1("v1") /\ (V1(Producers, Few)!LockConsumer(c) \/ V1(Producers, Few)!Return(c))
  \/ InV1("v1, one producer") /\ (V1({p1}, Input)!LockConsumer(c) \/ V1({p1}, Input)!Return(c))
Spurious == \/ \E c \in Consumers : \/ InV1("v1") /\ V1(Producers, Few)!Spurious(c)
                                    \/ InV1("v1, one producer") /\ V1({p1}, Input)!Spurious(c)
            \/ InTle /\ Tle!Spurious
Fair == /\ WF_all(Main)
        /\ \A k \in 1..3 : WF_all(Thread(k))
        /\ \A p \in Producers : WF_all(Producer(p)) /\ SF_all(ProducerGetsLock(p))
        /\ \A c \in Consumers : WF_all(Consumer(c)) /\ SF_all(ConsumerGetsLock(c))
        /\ <>[][~Spurious]_all

AllSpec == AllInit /\ [][AllNext]_all /\ Fair
-----------------------------------------------------------------------------
\* No number is lost or added twice, from the unlocked scanf
\* (midterm-v1.c:99, midterm-v2.c:34) through push and pop to sum += res, and
\* a program that prints, prints the sum of all of stdin.  In midterm-v1.c the
\* end may be declared while a producer still has a number to push (99-104);
\* in midterm-tle.c main uses the slots of its pool again, but never one that
\* still has a thread (70-83), and join reads status without the lock and
\* passes by threads that have just freed their slots (89).
NoNumberLost ==
  /\ program = "v2" => NothingLost /\ PrintsTotal
  /\ program = "v1" => V1(Producers, Few)!NothingLost /\ V1(Producers, Few)!PrintsTotal
  /\ program = "v1, one producer" => V1({p1}, Input)!NothingLost /\ V1({p1}, Input)!PrintsTotal
  /\ program = "tle" => Tle!SlotsNotShared /\ Tle!PrintsTotal

\* main prints, and does not wait for ever.  midterm-v2.c ends, and so does
\* midterm-tle.c, whose main waits for free slots and for the threads in them
\* (midterm-tle.c:71, 90).  midterm-v1.c ends when it has one producer; with
\* two it ends or stays for ever where it cannot end (midterm-v1.c:99-117): a
\* number that was read before the end was declared is pushed after the
\* consumers have left, and the producers go round.
MidtermEnds == \/ <>(main = "printed" \/ mpc = "printed")
               \/ <>[](program = "v1" /\ V1(Producers, Few)!PushedTooLate)
=============================================================================
