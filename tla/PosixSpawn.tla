----------------------------- MODULE PosixSpawn ----------------------------
(***************************************************************************)
(* virtualization/posix-spawn.c: the options build the attributes and the  *)
(* file actions of a child, which is spawned and watched until it ends.    *)
(* Every library call may fail.  The child stops, goes on, exits or is     *)
(* killed at any time; the kernel keeps the latest of these changes until  *)
(* waitpid asks for it.                                                    *)
(***************************************************************************)
EXTENDS Naturals, Sequences

CONSTANT Options        \* the sequences of options that may be given

VARIABLES opts,         \* what getopt has not returned yet
          attrp, file_actionsp,     \* whether they are not NULL
          child,        \* none, running, stopped, ended, reaped
          news,         \* the change that waitpid will report
          printed,      \* the last status that was printed
          pc
vars == <<opts, attrp, file_actionsp, child, news, printed, pc>>

Init == /\ opts \in Options
        /\ attrp = FALSE /\ file_actionsp = FALSE
        /\ child = "none" /\ news = "none" /\ printed = "none"
        /\ pc = "getopt"

\* errExit, errExitEN
errExit == pc' = "failure" /\ UNCHANGED <<opts, attrp, file_actionsp, child, news, printed>>

\* case 'c', case 's'
ParseOption == /\ pc = "getopt" /\ opts # << >>
               /\ \/ errExit
                  \/ /\ opts' = Tail(opts)
                     /\ file_actionsp' = (file_actionsp \/ Head(opts) = "c")
                     /\ attrp' = (attrp \/ Head(opts) = "s")
                     /\ UNCHANGED <<child, news, printed, pc>>

\* posix_spawnp
Spawn == /\ pc = "getopt" /\ opts = << >>
         /\ \/ errExit
            \/ /\ child' = "running" /\ pc' = "destroy"
               /\ UNCHANGED <<opts, attrp, file_actionsp, news, printed>>

\* the objects that there are
Destroy == /\ pc = "destroy"
           /\ \/ (attrp \/ file_actionsp) /\ errExit
              \/ pc' = "waitpid" /\ UNCHANGED <<opts, attrp, file_actionsp, child, news, printed>>

Ends == {"exited", "killed"}

AnyChange(status) == IF status = "none" THEN "waitpid" ELSE "success"

\* while (!WIFEXITED(status) && !WIFSIGNALED(status))
Loop(status) == IF status \in Ends THEN "success" ELSE "waitpid"

\* waitpid(child_pid, &status, WUNTRACED | WCONTINUED)
Waitpid == /\ pc = "waitpid"
           /\ \/ errExit
              \/ /\ news # "none"
                 /\ printed' = news /\ news' = "none"
                 /\ child' = IF news \in Ends THEN "reaped" ELSE child
                 /\ pc' = Loop(news)
                 /\ UNCHANGED <<opts, attrp, file_actionsp>>

main == ParseOption \/ Spawn \/ Destroy \/ Waitpid

Report(status) == news' = status /\ UNCHANGED <<opts, attrp, file_actionsp, printed, pc>>

\* the child, and the signals that it gets
Stop == child = "running" /\ child' = "stopped" /\ Report("stopped")
Continue == child = "stopped" /\ child' = "running" /\ Report("continued")
End == \/ child = "running" /\ child' = "ended" /\ \E status \in Ends : Report(status)
       \/ child = "stopped" /\ child' = "ended" /\ Report("killed")

Next == main \/ Stop \/ Continue \/ End
Ended == pc \in {"success", "failure"}
-----------------------------------------------------------------------------
\* The program succeeds only when the child has ended and has been reaped,
\* which is the last that it says, however often the child was stopped, went
\* on and overwrote what waitpid had not reported yet
\* (posix-spawn.c:85-123); it reports no end that it then does not act on.
SucceedsWithChild == /\ pc = "success" <=> child = "reaped"
                     /\ child = "reaped" <=> printed \in Ends
=============================================================================
