-------------------------------- MODULE Fish --------------------------------
(***************************************************************************)
(* concurrency/fish.c: threads that can each print one character take      *)
(* turns so that the output is a sequence of fish, <><_ or ><>_.  The turn *)
(* is taken in fish_before and given back in fish_after, both under the    *)
(* mutex lk; the putchar between them is outside it.                       *)
(*                                                                         *)
(* lk is the set of threads that hold the mutex and cond the set of the    *)
(* threads asleep on the condition variable.                               *)
(***************************************************************************)
EXTENDS Naturals, FiniteSets

CONSTANTS Threads,           \* the ids that create() hands out
          roles              \* roles[id]: the character thread id prints

Chars == {"<", ">", "underscore", "NUL"}   \* NUL: the terminator of the string roles
ASSUME RolesAssumption == roles \in [Threads -> Chars]

VARIABLES lk, cond, current, quota, pc,
          printed            \* the last character written to stdout
vars == <<lk, cond, current, quota, pc, printed>>

\* struct rule { from, ch, to }
rules == { <<"A", "<", "B">>,
           <<"B", ">", "C">>,
           <<"C", "<", "D">>,
           <<"A", ">", "E">>,
           <<"E", "<", "F">>,
           <<"F", ">", "D">>,
           <<"D", "underscore", "A">> }

States == {"A", "B", "C", "D", "E", "F"}

\* next(ch): where a rule leads from state `from'; empty where the C function
\* returns 0.  No two rules share both from and ch.
next(from, ch) == {to \in States : <<from, ch, to>> \in rules}

Init == /\ lk = {}
        /\ cond = {}
        /\ current = "A"
        /\ quota = 1
        /\ pc = [t \in Threads |-> "lock_before"]
        /\ printed = "nothing"

Goto(t, from, to) == pc[t] = from /\ pc' = [pc EXCEPT ![t] = to]

\* next(ch) && quota
MayProceed(t) == next(current, roles[t]) # {} /\ quota > 0

LockBefore(t) == /\ lk = {}
                 /\ Goto(t, "lock_before", "while")
                 /\ lk' = {t}
                 /\ UNCHANGED <<cond, current, quota, printed>>

\* while (!(next(ch) && quota)) pthread_cond_wait(&cond, &lk)
CondWait(t) == /\ ~MayProceed(t)
               /\ Goto(t, "while", "wait")
               /\ lk' = {}
               /\ cond' = cond \cup {t}
               /\ UNCHANGED <<current, quota, printed>>

Spurious(t) == /\ t \in cond
               /\ cond' = cond \ {t}
               /\ UNCHANGED <<lk, current, quota, pc, printed>>

ReturnUntested(t) == /\ t \notin cond
                     /\ lk = {}
                     /\ Goto(t, "wait", "unlock_before")
                     /\ lk' = {t}
                     /\ quota' = IF quota > 0 THEN quota - 1 ELSE 0
                     /\ UNCHANGED <<cond, current, printed>>

\* pthread_cond_wait returns with the mutex, and the test is repeated
Return(t) == /\ t \notin cond
             /\ lk = {}
             /\ Goto(t, "wait", "while")
             /\ lk' = {t}
             /\ UNCHANGED <<cond, current, quota, printed>>

KeepQuota(t) == /\ MayProceed(t)
                /\ Goto(t, "while", "unlock_before")
                /\ UNCHANGED <<lk, cond, current, quota, printed>>

\* the loop ends: quota--
TakeQuota(t) == /\ MayProceed(t)
                /\ Goto(t, "while", "unlock_before")
                /\ quota' = quota - 1
                /\ UNCHANGED <<lk, cond, current, printed>>

UnlockBefore(t) == /\ Goto(t, "unlock_before", "putchar")
                   /\ lk' = {}
                   /\ UNCHANGED <<cond, current, quota, printed>>

\* putchar(role); // can be long; no lock protection
Putchar(t) == /\ Goto(t, "putchar", "lock_after")
              /\ printed' = roles[t]
              /\ UNCHANGED <<lk, cond, current, quota>>

LockAfter(t) == /\ lk = {}
                /\ Goto(t, "lock_after", "after")
                /\ lk' = {t}
                /\ UNCHANGED <<cond, current, quota, printed>>

\* quota++; current = next(ch); assert(current);
After(t) == /\ Goto(t, "after", IF next(current, roles[t]) = {} THEN "abort" ELSE "broadcast")
            /\ quota' = quota + 1
            /\ IF next(current, roles[t]) = {}
                 THEN current' = "0"
                 ELSE current' \in next(current, roles[t])
            /\ UNCHANGED <<lk, cond, printed>>

Signal(t) == /\ Goto(t, "broadcast", "unlock_after")
             /\ \/ cond = {} /\ UNCHANGED cond
                \/ \E s \in cond : cond' = cond \ {s}
             /\ UNCHANGED <<lk, current, quota, printed>>

Broadcast(t) == /\ Goto(t, "broadcast", "unlock_after")
                /\ cond' = {}
                /\ UNCHANGED <<lk, current, quota, printed>>

UnlockAfter(t) == /\ Goto(t, "unlock_after", "lock_before")
                  /\ lk' = {}
                  /\ UNCHANGED <<cond, current, quota, printed>>

fish_before(t) == \/ LockBefore(t) \/ CondWait(t) \/ Return(t)
                  \/ TakeQuota(t) \/ UnlockBefore(t)
fish_after(t) == LockAfter(t) \/ After(t) \/ Broadcast(t) \/ UnlockAfter(t)
fish_thread(t) == fish_before(t) \/ Putchar(t) \/ fish_after(t)

Next == \E t \in Threads : fish_thread(t) \/ Spurious(t)

Spec == Init /\ [][Next]_vars

\* A thread that can go on is eventually scheduled; nothing is assumed of
\* who gets a contended mutex, but that threads do not wake for no reason
\* for ever.
FairSpec == /\ Spec
            /\ \A t \in Threads : WF_vars(fish_thread(t))
            /\ \A t \in Threads : <>[][~Spurious(t)]_vars
-----------------------------------------------------------------------------
Locs == {"lock_before", "while", "wait", "unlock_before", "putchar",
         "lock_after", "after", "broadcast", "unlock_after", "abort"}

\* quota is 0 or 1 and current is a state of the automaton (fish.c:5,20).
TypeOK == /\ lk \in SUBSET Threads
          /\ cond \in SUBSET Threads
          /\ current \in States
          /\ quota \in {0, 1}
          /\ pc \in [Threads -> Locs]
          /\ printed \in {"nothing", "<", ">", "underscore"}

\* the threads that hold the turn
Turn == {t \in Threads : pc[t] \in {"unlock_before", "putchar", "lock_after", "after"}}

\* The turn is with one thread or in quota, never both and never lost, even
\* though putchar runs outside the mutex (fish.c:41,47,60).
OneTurn == \/ quota = 1 /\ Turn = {}
           \/ quota = 0 /\ \E t \in Threads : Turn = {t}

\* assert(current) in fish_after never fails (fish.c:49): the rule that
\* fish_before found applicable is still applicable after the unlocked
\* putchar.
AssertHolds == \A t \in Threads : pc[t] # "abort"

\* The output follows the automaton of fish-dir.sh: it draws whole fish.
\* Once a character is out the automaton has moved on, also while current
\* still waits for fish_after to catch up.
Drawn == \E t \in Threads : pc[t] \in {"lock_after", "after"}
Automaton == INSTANCE FishDir
               WITH dir <- IF Drawn THEN CHOOSE to \in next(current, printed) : TRUE
                                    ELSE current,
                    drawn <- printed
DrawsFish == Automaton!Spec

\* Fish are drawn for ever, if each of the three characters has a thread
\* (fish.c:54): the thread that can go on is not left asleep.
Progress == []<>(\E t \in Threads : pc[t] = "putchar" /\ roles[t] = "underscore")
-----------------------------------------------------------------------------
(* The instance for TLC.  main creates strlen(roles) threads with ids from 1,  *)
(* so the last one gets the NUL that ends the string: it is kept here.         *)

MCThreads == 1..6
MCRoles == << "<", "<", ">", ">", "underscore", "NUL" >>
=============================================================================
