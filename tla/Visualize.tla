----------------------------- MODULE Visualize -----------------------------
(***************************************************************************)
(* concurrency/model-checker/visualize.py --reduce behind model-checker.py *)
(* in a pipe: when the search has ended, its edges are read in the order   *)
(* in which they were found, and reduce() chooses the ones that are drawn: *)
(* a tree, thread by thread, and some others.  A vertex has an index in    *)
(* its name; an edge is named for its ends, whichever thread it is of.     *)
(***************************************************************************)
EXTENDS Explorer, FiniteSetsExt, TLC

CONSTANT Piped(_)   \* the programs whose search is piped into visualize.py

VARIABLES lines,            \* the TRANS lines, in order
          level, leaf, tree,        \* depth, leaf and tree of reduce()
          others, updated, rnd,
          found, at,        \* of expand()
          vpc
loopVars == <<found, at>>
reduceVars == <<level, leaf, tree, others, updated, rnd, loopVars, vpc>>
all == <<vars, lines, reduceVars>>

ReduceInit == /\ level = [s \in {s0} |-> 0]
              /\ leaf = [s \in {s0} |-> TRUE]
              /\ tree = {} /\ others = {}
              /\ updated = 0 /\ rnd = 0
              /\ found = FALSE /\ at = 1
              /\ vpc = "stdin"

\* serialize() gives out the edges in the order of edges.append
Explore == /\ vpc = "stdin"
           /\ Next
           /\ lines' = IF pc = "for" THEN Append(lines, <<u, succ[u][chosen], chosen>>) ELSE lines
           /\ UNCHANGED reduceVars

\* parse_input()
ParseInput == /\ vpc = "stdin" /\ pc = "serialize" /\ Piped(succ)
              /\ vpc' = "while"
              /\ UNCHANGED <<vars, lines, level, leaf, tree, others, updated, rnd, loopVars>>

StopsEarly == updated + NT > rnd + 1

\* while updated + len(threads) > rnd
Continues == updated + NT > rnd

StartRound == /\ vpc = "while" /\ Continues
              /\ rnd' = rnd + 1
              /\ vpc' = "expand"
              /\ UNCHANGED <<vars, lines, level, leaf, tree, others, updated, loopVars>>

\* threads[-rnd % len(threads)]
OfRound(r) == ((NT - (r % NT)) % NT) + 1

\* d[x] = v of a dictionary
Put(d, x, v) == [s \in DOMAIN d \union {x} |-> IF s = x THEN v ELSE d[s]]

\* one edge of the for loop of expand()
Reach(e) == /\ level' = Put(level, e[2], level[e[1]] + 1)
            /\ leaf' = Put(Put(leaf, e[2], TRUE), e[1], FALSE)
            /\ tree' = tree \union {e}
            /\ found' = TRUE
IsNew(e) == e[1] \in DOMAIN level /\ e[2] \notin DOMAIN level /\ e[3] = OfRound(rnd)
Look == /\ vpc = "expand" /\ at <= Len(lines)
        /\ \/ IsNew(lines[at]) /\ Reach(lines[at])
           \/ ~IsNew(lines[at]) /\ UNCHANGED <<level, leaf, tree, found>>
        /\ at' = at + 1
        /\ UNCHANGED <<vars, lines, others, updated, rnd, vpc>>

FoundStays == /\ vpc = "expand" /\ at > Len(lines)
              /\ \/ found /\ updated' = rnd /\ UNCHANGED vpc
                 \/ ~found /\ vpc' = "while" /\ UNCHANGED updated
              /\ at' = 1
              /\ UNCHANGED <<vars, lines, level, leaf, tree, others, rnd, found>>

\* while expand(): updated = rnd
Expanded == /\ vpc = "expand" /\ at > Len(lines)
            /\ \/ found /\ updated' = rnd /\ UNCHANGED vpc
               \/ ~found /\ vpc' = "while" /\ UNCHANGED updated
            /\ at' = 1 /\ found' = FALSE
            /\ UNCHANGED <<vars, lines, level, leaf, tree, others, rnd>>

TreeDone == /\ vpc = "while" /\ ~Continues
            /\ vpc' = "others"
            /\ UNCHANGED <<vars, lines, level, leaf, tree, others, updated, rnd, loopVars>>

\* e.name not in tnames
Rest == {e \in {lines[i] : i \in 1..Len(lines)} : \A d \in tree : <<d[1], d[2]>> # <<e[1], e[2]>>}

\* where the edges are that lead to s
To(s) == {i \in 1..Len(lines) : lines[i][2] = s}

\* the edges that are drawn besides the tree.  __next__ of a filter that
\* nothing passes raises StopIteration.
Others == /\ vpc = "others"
          /\ \/ /\ \A e \in Rest : To(e[1]) # {}
                /\ others' = {e \in Rest : \/ leaf[e[1]] /\ lines[Min(To(e[1]))][3] = e[3]
                                          \/ level[e[1]] >= level[e[2]]}
                /\ vpc' = "drawn"
             \/ /\ \E e \in Rest : To(e[1]) = {}
                /\ vpc' = "raised"
                /\ UNCHANGED others
          /\ UNCHANGED <<vars, lines, level, leaf, tree, updated, rnd, loopVars>>

reduce == StartRound \/ Look \/ Expanded \/ TreeDone \/ Others

Drawn == vpc \in {"drawn", "raised"} /\ UNCHANGED all

AllInit == Init /\ lines = << >> /\ ReduceInit
AllNext == Explore \/ ParseInput \/ reduce \/ Drawn
AllSpec == /\ AllInit /\ [][AllNext]_all
           /\ WF_all(Explore) /\ WF_all(ParseInput \/ reduce)
-----------------------------------------------------------------------------
\* The tree that is drawn has every state that was found, no matter in which
\* order the threads reach it (visualize.py:85-102): every state but s0 has
\* one edge, from a state one level higher, and exactly those that lead
\* nowhere in the tree are leaves.  With this, reduce() looks up no state that
\* it has no level for, and it can only fail at an edge from s0, when nothing
\* leads back to s0 (visualize.py:110-112).
TreeSpans ==
  vpc \in {"others", "drawn", "raised"} =>
    /\ DOMAIN level = vertices /\ level[s0] = 0
    /\ \A v \in vertices \ {s0} : Cardinality({e \in tree : e[2] = v}) = 1
    /\ \A e \in tree : e[2] # s0 /\ level[e[2]] = level[e[1]] + 1
    /\ \A v \in vertices : leaf[v] <=> \A e \in tree : e[1] # v
    /\ vpc = "raised" => To(s0) = {}

\* The search of a finite program ends, and so does the choice of the edges:
\* rounds are added as long as some thread finds something
\* (model-checker.py:150, visualize.py:85, 101).
BothEnd == <>(pc = "serialize") /\ (Piped(succ) => <>(vpc \in {"drawn", "raised"}))
-----------------------------------------------------------------------------
(* The instance for TLC: every program with two threads and three states,    *)
(* and every program with two threads, five states and no way back but to    *)
(* stay.  The programs that stay within three states are drawn, and those    *)
(* that only get to the fifth from the third or the fourth.                  *)

MCStates == 1..5
MCName == [s \in MCStates |-> 10 * s]
ThreeStates == {p @@ [s \in 4..5 |-> [t \in 1..2 |-> s]] : p \in [1..3 -> [1..2 -> 1..3]]}
Forward(s) == [1..2 -> s..5]
OnlyForward == {<<a, b, c, d, [t \in 1..2 |-> 5]>> :
                  a \in Forward(1), b \in Forward(2), c \in Forward(3), d \in Forward(4)}
Within(p, m, n) == \A s \in 1..m, t \in 1..2 : p[s][t] <= n
MCPiped(p) == Within(p, 3, 3) \/ (Within(p, 2, 4) /\ p[4] = <<5, 5>>)
MCPrograms == ThreeStates \union OnlyForward
=============================================================================
