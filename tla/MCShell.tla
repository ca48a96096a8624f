------------------------------ MODULE MCShell ------------------------------
(***************************************************************************)
(* Programs that fork and wait for TLC: the shell runs the lines of        *)
(* MCInput, and every short line is parsed; dfs-fork.c searches three      *)
(* small mazes; posix-spawn.c spawns a child.  The initial state says      *)
(* which of them runs.                                                     *)
(***************************************************************************)
EXTENDS Shell

CONSTANT MaxTokens        \* bound on the lines that are only parsed
VARIABLES program, typed, \* what is done; the line that is parsed
          maze, tree, shown, failed,                                    \* dfs-fork.c
          opts, attrp, file_actionsp, child, news, printed, spawn_pc    \* posix-spawn.c
dfsVars == <<maze, tree, shown, failed>>
spawnVars == <<opts, attrp, file_actionsp, child, news, printed, spawn_pc>>
all == <<vars, program, typed, dfsVars, spawnVars>>

FirstLines ==
           { <<"echo", "|", "cat", "|", "cat">>,
             <<"yes", "|", "true">>,
             <<"(", "echo", ";", "echo", ")", "|", "cat">>,
             <<"yes", "&", ";", "true">>,
             <<"(", "cat", "|", "true", ")", "<", "f", "&">>,
             <<"cat", "<", "f", ">", "g", "|", "nothing">>,
             <<"cat", "<", "nothing", ";">>,
             <<"true", ")">> }
MCInput == <<FirstLines, {<<"true">>, <<"yes", "|", "true">>}>>
ParsedTokens == {"true", "<", "|", "&", ";", "(", ")"}

\* rows of fields with a wall around them
Walled(rows) == [c \in (0..Len(rows) + 1) \X (0..Len(rows[1]) + 1) |->
                   IF c[1] \in DOMAIN rows /\ c[2] \in DOMAIN rows[1] THEN rows[c[1]][c[2]] ELSE "#"]
MCMazes == { Walled(<< <<".", ".">>, <<".", "+">> >>),
             Walled(<< <<".", "+", ".">>, <<".", ".", "#">> >>),
             Walled(<< <<"+">> >>) }

Dfs == INSTANCE DfsFork WITH Mazes <- MCMazes, Failures <- 1
Spawn == INSTANCE PosixSpawn WITH Options <- {<< >>, <<"c">>, <<"s", "c">>, <<"?">>}, pc <- spawn_pc

DfsUnused == maze = << >> /\ tree = << >> /\ shown = {} /\ failed = 0
SpawnUnused == /\ opts = << >> /\ attrp = FALSE /\ file_actionsp = FALSE /\ child = "none"
               /\ news = "none" /\ printed = "none" /\ spawn_pc = "getopt"

MCInit == /\ Init /\ typed = << >>
          /\ \/ program \in {"run", "parse"} /\ DfsUnused /\ SpawnUnused
             \/ program = "dfs" /\ Dfs!Init /\ SpawnUnused
             \/ program = "spawn" /\ DfsUnused /\ Spawn!Init

Type == /\ program = "parse" /\ Len(typed) < MaxTokens
        /\ \E t \in ParsedTokens : typed' = Append(typed, t)
        /\ UNCHANGED <<program, vars, dfsVars, spawnVars>>
Run == program = "run" /\ Next /\ UNCHANGED <<program, typed, dfsVars, spawnVars>>
InDfs == program = "dfs" /\ UNCHANGED <<program, vars, typed, spawnVars>>
InSpawn == program = "spawn" /\ UNCHANGED <<program, vars, typed, dfsVars>>

MCNext == \/ Run \/ Type
          \/ InDfs /\ Dfs!Next
          \/ InSpawn /\ Spawn!Next

\* The kernel runs every process that can go on; nobody has to type.  The
\* child of posix-spawn.c ends.
MCSpec == /\ MCInit /\ [][MCNext]_all
          /\ WF_vars(program = "run" /\ procs[Shell].pc # "getcmd" /\ _start)
          /\ \A p \in Pids \ {Shell} : /\ WF_procs(program = "run" /\ ParseEnds(p))
                                       /\ WF_vars(program = "run" /\ (runcmd(p) \/ Program(p)))
          /\ WF_all(InDfs /\ Dfs!Next)
          /\ WF_all(InSpawn /\ Spawn!main) /\ WF_all(InSpawn /\ Spawn!End)
-----------------------------------------------------------------------------
\* Every line of up to MaxTokens tokens is parsed as the one command that the
\* grammar reads it as, or refused (sh-xv6.c:304-400).
ParserAgrees == program = "parse" => Agrees(typed)

\* When main of dfs-fork.c has returned, every way through the maze has been
\* shown and nothing else, although the processes run in any order and each
\* draws in its own copy of the map (dfs-fork.c:44-59): unless a fork failed.
AllWaysShown == program = "dfs" => Dfs!AllWaysShown

\* Children are waited for.  In dfs-fork.c no process goes on, and none is
\* left unreaped, when main has returned, as nfork counts them
\* (dfs-fork.c:52, 58-59).  posix-spawn.c succeeds only when its child has
\* ended and has been reaped, and has said so last, however often the child
\* stopped and went on before waitpid asked (posix-spawn.c:108-125).
ChildrenAreWaitedFor == /\ program = "dfs" => Dfs!NobodyLeft
                        /\ program = "spawn" => Spawn!SucceedsWithChild

\* No parent waits for ever: the prompt of the shell comes back, main of
\* dfs-fork.c returns, also when a process is gone because its fork failed
\* (dfs-fork.c:46, 58-59), and posix-spawn.c ends with its child.
ParentsReturn == /\ PromptReturns
                 /\ program = "dfs" ~> program = "dfs" /\ Dfs!Ended
                 /\ program = "spawn" ~> program = "spawn" /\ Spawn!Ended
=============================================================================
