------------------------------ MODULE Explorer -----------------------------
(***************************************************************************)
(* concurrency/model-checker/model-checker.py: check_bfs, the breadth-     *)
(* first search over the interleavings of the program under check.         *)
(*                                                                         *)
(* The program is its transition function: succ[s][t] is the state that    *)
(* execute() returns when thread t goes one statement on from s (s itself  *)
(* when t has ended).  A state is known by its name, a hash; a trace is    *)
(* abstracted to its length.                                               *)
(***************************************************************************)
EXTENDS Naturals, Sequences

CONSTANTS States,   \* the states of the program under check
          s0,       \* State(Class, trace=[])
          NT,       \* len(threads)
          Programs, \* the programs that may be given
          Name      \* Name[s]: the hash that stands for s
ASSUME StatesAssumption == s0 \in States
ASSUME NTAssumption == NT \in Nat \ {0}

ASSUME ProgramsAssumption == Programs \subseteq [States -> [1..NT -> States]]

\* The search takes two states with one name for the same state.
ASSUME NameAssumption == \A s, v \in States : Name[s] = Name[v] => s = v

Threads == 1..NT

VARIABLES succ,     \* the program under check
          queue,
          vertices,
          edges,    \* triples <<u, v, chosen>>
          depth,    \* depth[v]: the length of the trace v was found with
          u, chosen,
          pc
vars == <<succ, queue, vertices, edges, depth, u, chosen, pc>>

Init == /\ succ \in Programs
        /\ queue = <<s0>>
        /\ vertices = {s0}
        /\ edges = {}
        /\ depth = [s \in States |-> 0]
        /\ u = s0
        /\ chosen = 1
        /\ pc = "while"

Named(v) == Name[v] \in {Name[w] : w \in vertices}

\* u, queue = queue[0], queue[1:]
Dequeue == /\ pc = "while" /\ queue # << >>
           /\ u' = Head(queue)
           /\ queue' = Tail(queue)
           /\ chosen' = 1
           /\ pc' = "for"
           /\ UNCHANGED <<succ, vertices, edges, depth>>

Done == /\ pc = "while" /\ queue = << >>
        /\ pc' = "serialize"
        /\ UNCHANGED <<succ, queue, vertices, edges, depth, u, chosen>>

EnqueueFirst(v) == /\ queue' = <<v>> \o queue
                   /\ vertices' = vertices \union {v}
                   /\ depth' = [depth EXCEPT ![v] = depth[u] + 1]

\* queue.append(v); vertices[v.name] = v
Enqueue(v) == /\ queue' = Append(queue, v)
              /\ vertices' = vertices \union {v}
              /\ depth' = [depth EXCEPT ![v] = depth[u] + 1]

EdgeToNew(v) == edges' = IF Named(v) THEN edges ELSE edges \union {<<u, v, chosen>>}

\* edges.append((u, v, chosen))
AddEdge(v) == edges' = edges \union {<<u, v, chosen>>}

StopEarly == pc' = IF chosen + 1 >= NT THEN "while" ELSE "for"

\* for chosen, _ in enumerate(threads)
NextThread == pc' = IF chosen = NT THEN "while" ELSE "for"

Visit == LET v == succ[u][chosen]
         IN  /\ pc = "for"
             /\ \/ ~Named(v) /\ Enqueue(v)
                \/ Named(v) /\ UNCHANGED <<queue, vertices, depth>>
             /\ AddEdge(v)
             /\ chosen' = chosen + 1
             /\ NextThread
             /\ UNCHANGED <<succ, u>>

Over == pc = "serialize" /\ UNCHANGED vars

Next == Dequeue \/ Visit \/ Done \/ Over
Spec == Init /\ [][Next]_vars
-----------------------------------------------------------------------------
Closed(C) == \A s \in C : \A t \in Threads : succ[s][t] \in C

\* The states that some interleaving reaches: those that no closed set with
\* the initial state leaves out
Reachable == {s \in States : \A C \in SUBSET States : s0 \in C /\ Closed(C) => s \in C}

\* chosen stays a thread (model-checker.py:152), and what is found is a state.
TypeOK == /\ succ \in [States -> [Threads -> States]]
          /\ queue \in Seq(States)
          /\ vertices \in SUBSET States
          /\ edges \in SUBSET (States \X States \X Threads)
          /\ depth \in [States -> Nat]
          /\ u \in States
          /\ chosen \in 1..NT + 1
          /\ pc \in {"while", "for", "serialize"}

\* What is serialized are exactly the states that some interleaving of the
\* threads reaches (model-checker.py:145, "Enumerate all possible thread
\* interleavings"): a marker that is never red is never red in any run.
FindsReachable == pc = "serialize" => vertices = Reachable

\* Every reachable state has one edge for each thread, to where that thread
\* takes it (model-checker.py:152-157).
EdgesComplete == pc = "serialize" =>
  edges = {<<s, succ[s][t], t>> : s \in Reachable, t \in Threads}

\* A state is found with a shortest trace: an edge never skips a level
\* (model-checker.py:151-155, first in first out).
ShortestTraces == pc = "serialize" => \A e \in edges : depth[e[2]] <= depth[e[1]] + 1

=============================================================================
