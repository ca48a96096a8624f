---------------------------- MODULE ThreadPool -----------------------------
(***************************************************************************)
(* concurrency/include/thread.h: the threads of every program that         *)
(* includes it.  main calls create and join in any order and returns; the  *)
(* destructor cleanup joins once more.  A thread is "none" until           *)
(* pthread_create, then "start" (in wrapper), "entry" (in its function),   *)
(* "done" when wrapper returns, "joined" when pthread_join has released    *)
(* it.  pthread_create is taken to succeed, as create takes it.            *)
(***************************************************************************)
EXTENDS Naturals, Sequences

CONSTANTS NTHREAD,      \* the records of tpool
          Entries,      \* the functions that create is given
          NoEntry       \* the null pointer

Slots == 1..NTHREAD

VARIABLES id, status, entry,    \* the fields of tpool[k]
          tptr,                 \* the slot that tptr points to
          wanted,               \* the functions given to create, in order
          runs,                 \* runs[k]: the <<id, function>> that thread k got
          thread,               \* thread[k]: the state of the k-th thread
          mpc, i,               \* main, and i of join
          exiting               \* main has returned, cleanup is running
poolVars == <<id, status, entry, tptr>>
vars == <<poolVars, wanted, runs, thread, mpc, i, exiting>>

Init == /\ id = [k \in Slots |-> 0]
        /\ status = [k \in Slots |-> "T_FREE"]
        /\ entry = [k \in Slots |-> NoEntry]
        /\ tptr = 1
        /\ wanted = << >>
        /\ runs = [k \in Slots |-> << >>]
        /\ thread = [k \in Slots |-> "none"]
        /\ mpc = "main" /\ i = 1 /\ exiting = FALSE

Goto(from, to) == mpc = from /\ mpc' = to
-----------------------------------------------------------------------------
\* create(fn): the assertion that there is room
OutOfSlots == /\ Goto("main", "abort")
              /\ tptr > NTHREAD
              /\ UNCHANGED <<poolVars, wanted, runs, thread, i, exiting>>

Fill(fn) == /\ Goto("main", "pthread_create")
            /\ tptr <= NTHREAD
            /\ id' = [id EXCEPT ![tptr] = tptr]
            /\ status' = [status EXCEPT ![tptr] = "T_LIVE"]
            /\ entry' = [entry EXCEPT ![tptr] = fn]
            /\ wanted' = Append(wanted, fn)
            /\ UNCHANGED <<tptr, runs, thread, i, exiting>>

PthreadCreate == /\ Goto("pthread_create", "++tptr")
                 /\ thread' = [thread EXCEPT ![tptr] = "start"]
                 /\ UNCHANGED <<poolVars, wanted, runs, i, exiting>>

Advance == /\ Goto("++tptr", "main")
           /\ tptr' = tptr + 1
           /\ UNCHANGED <<id, status, entry, wanted, runs, thread, i, exiting>>

create == (\E fn \in Entries : Fill(fn)) \/ OutOfSlots \/ PthreadCreate \/ Advance
-----------------------------------------------------------------------------
ReadCurrent(k) == LET c == IF tptr <= NTHREAD THEN tptr ELSE k
                  IN /\ thread[k] = "start"
                     /\ thread' = [thread EXCEPT ![k] = "entry"]
                     /\ runs' = [runs EXCEPT ![k] = <<id[c], entry[c]>>]
                     /\ UNCHANGED <<poolVars, wanted, mpc, i, exiting>>

\* wrapper: thread->entry(thread->id), read from the slot it was given while
\* main goes on
CallEntry(k) == /\ thread[k] = "start"
                /\ thread' = [thread EXCEPT ![k] = "entry"]
                /\ runs' = [runs EXCEPT ![k] = <<id[k], entry[k]>>]
                /\ UNCHANGED <<poolVars, wanted, mpc, i, exiting>>

EntryReturns(k) == /\ thread[k] = "entry"
                   /\ thread' = [thread EXCEPT ![k] = "done"]
                   /\ UNCHANGED <<poolVars, wanted, runs, mpc, i, exiting>>

wrapper(k) == CallEntry(k) \/ EntryReturns(k)
-----------------------------------------------------------------------------
\* join() called by main, or by cleanup when main has returned
CallJoin == /\ Goto("main", "join")
            /\ i' = 1
            /\ exiting' \in {FALSE, TRUE}
            /\ UNCHANGED <<poolVars, wanted, runs, thread>>

PassBy == /\ Goto("join", "join")
          /\ i <= NTHREAD /\ status[i] # "T_LIVE"
          /\ i' = i + 1
          /\ UNCHANGED <<poolVars, wanted, runs, thread, exiting>>

SeesLive == /\ Goto("join", "pthread_join")
            /\ i <= NTHREAD /\ status[i] = "T_LIVE"
            /\ UNCHANGED <<poolVars, wanted, runs, thread, i, exiting>>

PthreadJoin == /\ Goto("pthread_join", "join")
               /\ thread[i] = "done"
               /\ thread' = [thread EXCEPT ![i] = "joined"]
               /\ status' = [status EXCEPT ![i] = "T_DEAD"]
               /\ i' = i + 1
               /\ UNCHANGED <<id, entry, tptr, wanted, runs, exiting>>

JoinReturns == /\ Goto("join", IF exiting THEN "exited" ELSE "main")
               /\ i > NTHREAD
               /\ UNCHANGED <<poolVars, wanted, runs, thread, i, exiting>>

join == PassBy \/ SeesLive \/ PthreadJoin \/ JoinReturns

Over == mpc \in {"exited", "abort"} /\ UNCHANGED vars

Next == create \/ CallJoin \/ join \/ (\E k \in Slots : wrapper(k)) \/ Over
Spec == Init /\ [][Next]_vars
-----------------------------------------------------------------------------

\* Every thread runs the function it was created for, with its own id,
\* although wrapper reads its record after main may have gone on to fill the
\* next (thread.h:22-25, 33-41).
OwnRecord == \A k \in Slots : runs[k] # << >> => runs[k] = <<k, wanted[k]>>

\* No thread is joined twice, and none that was not created, although
\* cleanup joins after main may have joined already (thread.h:47-49, 54).
JoinedOnce == mpc = "pthread_join" => thread[i] \in {"start", "entry", "done"}

\* When the process leaves cleanup, every thread has been joined
\* (thread.h:44-54): none is cut off in the middle of its function.
NobodyLeft == mpc = "exited" => \A k \in Slots : thread[k] \in {"none", "joined"}
=============================================================================
