------------------------------ MODULE DfsFork ------------------------------
(***************************************************************************)
(* virtualization/dfs-fork.c: a search for all ways through a maze in      *)
(* which every step is a process.  A child gets a copy of the map, marks   *)
(* the field it comes from in its copy and searches on; a process waits    *)
(* for as many children as it has forked.  A process is known by the moves *)
(* that lead to it.  fork may fail, Failures times at most.                *)
(***************************************************************************)
EXTENDS Integers, Sequences, FiniteSets, TLC

CONSTANTS Mazes,        \* the maps that are searched: functions from <<x, y>> to characters
          Failures

moves == << [x |-> 0, y |-> 1, ch |-> ">"], [x |-> 1, y |-> 0, ch |-> "v"],
            [x |-> 0, y |-> -1, ch |-> "<"], [x |-> -1, y |-> 0, ch |-> "^"] >>
DEST == "+"
EMPTY == "."

VARIABLES maze,         \* the map that main starts with
          tree,         \* tree[p]: the process p
          shown,        \* the maps that were displayed
          failed        \* how many forks have failed
vars == <<maze, tree, shown, failed>>

main == << >>
Parent(p) == SubSeq(p, 1, Len(p) - 1)

\* a call of dfs(x, y) in a process with this map
Called(map, at) == [map |-> map, at |-> at, m |-> 1, nfork |-> 0,
                    pc |-> IF map[at] = DEST THEN "display" ELSE "for"]

Init == /\ maze \in Mazes
        /\ tree = main :> Called(maze, <<1, 1>>)
        /\ shown = {}
        /\ failed = 0

Target(at, k) == <<at[1] + moves[k].x, at[2] + moves[k].y>>
OnlyEmpty(d, k) == d.map[Target(d.at, k)] = EMPTY
Possible(d, k) == d.map[Target(d.at, k)] \in {DEST, EMPTY}
\* the for loop has come to move k
IsNext(d, k) == k \in d.m..4 /\ Possible(d, k) /\ \A j \in d.m..k - 1 : ~Possible(d, j)

NotCounted(p, k) == [tree[p] EXCEPT !.m = k + 1]

\* what fork leaves of the parent
Forked(p, k) == [tree[p] EXCEPT !.m = k + 1, !.nfork = @ + 1]

\* fork(), and the child's map[x][y] = m->ch
Fork(p) == /\ tree[p].pc = "for"
           /\ \E k \in 1..4 :
                /\ IsNext(tree[p], k)
                /\ tree' = (Append(p, k) :> Called([tree[p].map EXCEPT ![tree[p].at] = moves[k].ch],
                                                   Target(tree[p].at, k)))
                           @@ [tree EXCEPT ![p] = Forked(p, k)]
           /\ UNCHANGED <<maze, shown, failed>>

Goto(p, from, to) == tree[p].pc = from /\ tree' = [tree EXCEPT ![p].pc = to]

\* assert(pid >= 0) fails: the process is gone, its children are orphans
ForkFails(p) == /\ failed < Failures
                /\ \E k \in 1..4 : IsNext(tree[p], k)
                /\ Goto(p, "for", "zombie")
                /\ failed' = failed + 1
                /\ UNCHANGED <<maze, shown>>

LoopEnds(p) == /\ \A k \in tree[p].m..4 : ~Possible(tree[p], k)
               /\ Goto(p, "for", "wait")
               /\ UNCHANGED <<maze, shown, failed>>

display(p) == /\ Goto(p, "display", "zombie")
              /\ shown' = shown \union {tree[p].map}
              /\ UNCHANGED <<maze, failed>>

\* while (nfork--) wait(NULL): any child that has ended; reaped, it is gone
Wait(p) == /\ tree[p].pc = "wait" /\ tree[p].nfork > 0
           /\ \E c \in DOMAIN tree \ {main} :
                /\ Parent(c) = p /\ tree[c].pc = "zombie"
                /\ tree' = [q \in DOMAIN tree \ {c} |->
                              IF q = p THEN [tree[p] EXCEPT !.nfork = @ - 1] ELSE tree[q]]
           /\ UNCHANGED <<maze, shown, failed>>

\* exit(0), or the return from main
Exit(p) == /\ tree[p].nfork = 0
           /\ Goto(p, "wait", "zombie")
           /\ UNCHANGED <<maze, shown, failed>>

dfs(p) == Fork(p) \/ ForkFails(p) \/ LoopEnds(p) \/ display(p) \/ Wait(p) \/ Exit(p)
Next == \E p \in DOMAIN tree : dfs(p)

Ended == tree[main].pc = "zombie"
-----------------------------------------------------------------------------
\* The ways through the maze: no field twice, and the first "+" ends it
Walk(w) == [k \in 0..Len(w) |->
              <<1 + Cardinality({j \in 1..k : w[j] = 2}) - Cardinality({j \in 1..k : w[j] = 4}),
                1 + Cardinality({j \in 1..k : w[j] = 1}) - Cardinality({j \in 1..k : w[j] = 3})>>]
IsWay(w) == LET f == Walk(w) IN
            /\ \A k \in 0..Len(w) : f[k] \in DOMAIN maze
            /\ \A k \in 0..Len(w) : maze[f[k]] = IF k = Len(w) THEN DEST ELSE EMPTY
            /\ \A j, k \in 0..Len(w) : f[j] = f[k] => j = k
Drawn(w) == [c \in DOMAIN maze |-> IF \E k \in 1..Len(w) : Walk(w)[k - 1] = c
                                   THEN moves[w[CHOOSE k \in 1..Len(w) : Walk(w)[k - 1] = c]].ch
                                   ELSE maze[c]]
Fields == {c \in DOMAIN maze : maze[c] \in {EMPTY, DEST}}
Ways == {Drawn(w) : w \in {v \in UNION {[1..n -> 1..4] : n \in 0..Cardinality(Fields) - 1} : IsWay(v)}}

\* When main has returned, every way through the maze has been shown and
\* nothing else, although the processes run in any order and each of them
\* draws in its own copy of the map (dfs-fork.c:44-59): unless a fork failed.
\* What is shown is a way in any case.
AllWaysShown == Ended => shown \subseteq Ways /\ (failed = 0 => shown = Ways)

\* No process goes on, and none is left unreaped, when main has returned:
\* every process has waited for as many children as it has forked
\* (dfs-fork.c:52, 58-59), and for no others.
NobodyLeft == Ended /\ failed = 0 => DOMAIN tree = {main}
=============================================================================
