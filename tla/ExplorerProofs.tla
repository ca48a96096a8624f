--------------------------- MODULE ExplorerProofs --------------------------
(***************************************************************************)
(* Proofs about Explorer and Visualize for every program, every set of     *)
(* states (finite or not) and every number of threads, when no two states  *)
(* share a name: what the search serializes are exactly the reachable      *)
(* states and their edges, each state with a shortest trace, and reduce()  *)
(* chooses a tree of them.                                                 *)
(*                                                                         *)
(* The invariant of the search says what has been expanded: every vertex   *)
(* that is not in the queue, by every thread, but for the vertex u being   *)
(* expanded, whose threads from `chosen' on are still to come.  The queue  *)
(* is sorted by depth.                                                     *)
(***************************************************************************)
EXTENDS Visualize, FiniteSetTheorems, WellFoundedInduction, TLAPS

InQueue(s) == \E k \in 1..Len(queue) : queue[k] = s

Ran(s, t) == /\ s \in vertices /\ ~InQueue(s)
             /\ pc = "for" /\ s = u => t < chosen

QueueInv == /\ s0 \in vertices /\ u \in vertices
            /\ \A k \in 1..Len(queue) : queue[k] \in vertices
            /\ \A j, k \in 1..Len(queue) : queue[j] = queue[k] => j = k
            /\ pc = "for" => ~InQueue(u) /\ chosen \in Threads
            /\ pc = "serialize" => queue = << >>

VertexInv == \A s \in vertices, t \in Threads : Ran(s, t) => succ[s][t] \in vertices

EdgeInv == edges = {e \in States \X States \X Threads :
                      Ran(e[1], e[3]) /\ e[2] = succ[e[1]][e[3]]}

SoundInv == vertices \subseteq Reachable

\* The queue is sorted by level and spans at most the level of u and the next
\* one, so that what u finds goes to its end, and is never further away than
\* what is known already.
LevelInv == /\ \A j, k \in 1..Len(queue) : j <= k => depth[queue[j]] <= depth[queue[k]]
            /\ \A k \in 1..Len(queue) : depth[u] <= depth[queue[k]]
            /\ \A s \in vertices : depth[s] <= depth[u] + 1
            /\ \A s \in vertices, t \in Threads :
                 Ran(s, t) => depth[succ[s][t]] <= depth[s] + 1

\* The inductive invariant.
IInv == TypeOK /\ QueueInv /\ VertexInv /\ EdgeInv /\ SoundInv /\ LevelInv

\* The test on names is a test on states.
LEMMA NamedIsKnown == ASSUME TypeOK, NEW v \in States PROVE Named(v) <=> v \in vertices
BY NameAssumption, Zenon DEF Named, TypeOK

\* The initial state is reachable, and so is what a thread makes of a
\* reachable state.
LEMMA ReachableClosed == ASSUME TypeOK
                         PROVE  /\ s0 \in Reachable
                                /\ \A s \in Reachable, t \in Threads : succ[s][t] \in Reachable
<1>1. s0 \in Reachable
  BY StatesAssumption DEF Reachable
<1>2. ASSUME NEW s \in Reachable, NEW t \in Threads PROVE succ[s][t] \in Reachable
  <2>1. s \in States /\ succ[s][t] \in States
    BY DEF Reachable, TypeOK
  <2>2. ASSUME NEW C \in SUBSET States, s0 \in C, Closed(C) PROVE succ[s][t] \in C
    BY <2>2 DEF Reachable, Closed
  <2> QED  BY <2>1, <2>2 DEF Reachable
<1> QED  BY <1>1, <1>2

\* The search starts with s0 in the queue and nothing expanded.
LEMMA InitIInv == Init => IInv
<1> SUFFICES ASSUME Init PROVE IInv
  OBVIOUS
<1> USE StatesAssumption, NTAssumption, ProgramsAssumption DEF Init
<1>1. TypeOK
  BY DEF TypeOK, Threads
<1>2. QueueInv
  BY DEF QueueInv
<1>3. InQueue(s0) /\ \A s, t : ~Ran(s, t)
  BY DEF InQueue, Ran
<1>4. VertexInv /\ EdgeInv
  BY <1>3 DEF VertexInv, EdgeInv
<1>5. SoundInv
  BY <1>1, ReachableClosed DEF SoundInv
<1>6. LevelInv
  BY <1>3 DEF LevelInv
<1> QED  BY <1>1, <1>2, <1>4, <1>5, <1>6 DEF IInv

\* Dequeue expands nothing: the vertex that leaves the queue becomes u, with
\* all its threads to come.
LEMMA DequeueIInv == ASSUME IInv, Dequeue PROVE IInv'
<1>0. TypeOK /\ QueueInv /\ VertexInv /\ EdgeInv /\ SoundInv /\ LevelInv
  BY DEF IInv
<1>1. /\ Len(queue) \in Nat /\ Len(queue) > 0 /\ u' = queue[1]
      /\ queue' \in Seq(States)
      /\ Len(queue') = Len(queue) - 1
      /\ \A k \in 1..Len(queue') : queue'[k] = queue[k + 1]
  <2>1. queue \in Seq(States) /\ queue # << >>
    BY <1>0 DEF Dequeue, TypeOK
  <2> QED  BY <2>1 DEF Dequeue
<1>2. 1 \in 1..Len(queue) /\ u' \in vertices /\ InQueue(u')
  BY <1>0, <1>1 DEF QueueInv, InQueue
<1>3. TypeOK'
  <2>1. chosen' \in 1..NT + 1 /\ pc' = "for"
    BY NTAssumption DEF Dequeue
  <2> QED  BY <1>0, <1>1, <1>2, <2>1 DEF Dequeue, TypeOK
<1>4. \A s : InQueue(s)' <=> InQueue(s) /\ s # u'
  <2> SUFFICES ASSUME NEW s PROVE InQueue(s)' <=> InQueue(s) /\ s # u'
    OBVIOUS
  <2>1. ASSUME InQueue(s)' PROVE InQueue(s) /\ s # u'
    <3>1. PICK k \in 1..Len(queue') : queue'[k] = s
      BY <2>1 DEF InQueue
    <3>2. k + 1 \in 1..Len(queue) /\ queue[k + 1] = s /\ k + 1 # 1
      BY <1>1, <3>1
    <3> QED  BY <1>0, <1>1, <1>2, <3>2 DEF InQueue, QueueInv
  <2>2. ASSUME InQueue(s), s # u' PROVE InQueue(s)'
    <3>1. PICK k \in 1..Len(queue) : queue[k] = s
      BY <2>2 DEF InQueue
    <3>2. k # 1
      BY <1>1, <2>2, <3>1
    <3>3. k - 1 \in 1..Len(queue') /\ (k - 1) + 1 = k
      BY <1>1, <3>2
    <3> QED  BY <1>1, <3>1, <3>3, Zenon DEF InQueue
  <2> QED  BY <2>1, <2>2
<1>5. QueueInv'
  <2>1. \A k \in 1..Len(queue') : k + 1 \in 1..Len(queue)
    BY <1>1
  <2>2. ASSUME NEW j \in 1..Len(queue'), NEW k \in 1..Len(queue'), queue'[j] = queue'[k]
        PROVE  j = k
    <3>1. j + 1 = k + 1
      BY <1>0, <1>1, <2>1, <2>2 DEF QueueInv
    <3> QED  BY <1>1, <3>1
  <2>3. \A k \in 1..Len(queue') : queue'[k] \in vertices'
    BY <1>0, <1>1, <2>1 DEF QueueInv, Dequeue
  <2>4. pc' = "for" /\ chosen' \in Threads /\ vertices' = vertices
    BY NTAssumption DEF Dequeue, Threads
  <2>5. ~InQueue(u)'
    BY <1>4 DEF InQueue
  <2> QED  BY <1>0, <1>2, <2>2, <2>3, <2>4, <2>5 DEF QueueInv
<1>6. ASSUME NEW s, NEW t \in Threads PROVE Ran(s, t)' <=> Ran(s, t)
  <2>1. ~(t < chosen') /\ pc' = "for" /\ pc = "while" /\ vertices' = vertices
    BY NTAssumption DEF Dequeue, Threads
  <2> QED  BY <1>2, <1>4, <2>1 DEF Ran
<1>7. VertexInv' /\ EdgeInv'
  <2>1. succ' = succ /\ vertices' = vertices /\ edges' = edges
    BY DEF Dequeue
  <2>2. \A e \in States \X States \X Threads : e[3] \in Threads
    OBVIOUS
  <2> QED  BY <1>0, <1>6, <2>1, <2>2 DEF VertexInv, EdgeInv
<1>8. SoundInv'
  BY <1>0 DEF SoundInv, Dequeue, Reachable, Closed
<1>9. LevelInv'
  <2>1. /\ succ' = succ /\ vertices' = vertices /\ depth' = depth
        /\ u \in States /\ u' \in States /\ depth \in [States -> Nat] /\ vertices \subseteq States
    BY <1>0, <1>3 DEF Dequeue, TypeOK
  <2>2. \A k \in 1..Len(queue') : k + 1 \in 1..Len(queue) /\ 1 <= k + 1
    BY <1>1
  <2>3. \A j, k \in 1..Len(queue') : j <= k => depth[queue'[j]] <= depth[queue'[k]]
    <3> SUFFICES ASSUME NEW j \in 1..Len(queue'), NEW k \in 1..Len(queue'), j <= k
                 PROVE  depth[queue'[j]] <= depth[queue'[k]]
      OBVIOUS
    <3>1. j + 1 <= k + 1
      BY <1>1
    <3> QED  BY <1>0, <1>1, <2>2, <3>1 DEF LevelInv
  <2>4. \A k \in 1..Len(queue') : depth[u'] <= depth[queue'[k]]
    BY <1>0, <1>1, <1>2, <2>2 DEF LevelInv
  <2>5. depth[u] <= depth[u']
    BY <1>0, <1>1, <1>2 DEF LevelInv
  <2>6. \A s \in vertices : depth[s] <= depth[u'] + 1
    <3> SUFFICES ASSUME NEW s \in vertices PROVE depth[s] <= depth[u'] + 1
      OBVIOUS
    <3>1. depth[s] <= depth[u] + 1
      BY <1>0 DEF LevelInv
    <3>2. depth[s] \in Nat /\ depth[u] \in Nat /\ depth[u'] \in Nat
      BY <2>1
    <3> QED  BY <2>5, <3>1, <3>2
  <2> QED  BY <1>0, <1>6, <2>1, <2>3, <2>4, <2>6 DEF LevelInv
<1> QED  BY <1>3, <1>5, <1>7, <1>8, <1>9 DEF IInv

\* Visit expands u by one thread, and what it finds is in the queue or known.
LEMMA VisitIInv == ASSUME IInv, Visit PROVE IInv'
<1> DEFINE v == succ[u][chosen]
<1>0. TypeOK /\ QueueInv /\ VertexInv /\ EdgeInv /\ SoundInv /\ LevelInv
  BY DEF IInv
<1>1. /\ pc = "for" /\ chosen \in Threads /\ u' = u /\ succ' = succ /\ chosen' = chosen + 1
      /\ edges' = edges \union {<<u, v, chosen>>}
      /\ pc' = IF chosen = NT THEN "while" ELSE "for"
      /\ u \in vertices /\ ~InQueue(u)
  BY <1>0 DEF Visit, QueueInv, AddEdge, NextThread
<1>2. u \in States /\ v \in States
  BY <1>0, <1>1 DEF TypeOK
<1>3. /\ vertices' = vertices \union {v}
      /\ \/ v \in vertices /\ queue' = queue /\ depth' = depth
         \/ /\ v \notin vertices
            /\ queue' = Append(queue, v)
            /\ depth' = [depth EXCEPT ![v] = depth[u] + 1]
  BY <1>0, <1>2, NamedIsKnown DEF Visit, Enqueue
<1>4. v \in Reachable
  BY <1>0, <1>1, ReachableClosed DEF SoundInv
<1>5. \A s, t : s = u /\ t = chosen => succ[s][t] = v
  OBVIOUS
<1> HIDE DEF v
<1>6. queue \in Seq(States) /\ Len(queue) \in Nat
  BY <1>0 DEF TypeOK
<1>7. v \notin vertices => /\ Len(queue') = Len(queue) + 1
                           /\ \A k \in 1..Len(queue) : queue'[k] = queue[k]
                           /\ queue'[Len(queue) + 1] = v
  BY <1>2, <1>3, <1>6
<1>8. TypeOK'
  <2>1. chosen' \in 1..NT + 1 /\ pc' \in {"while", "for"}
    BY <1>1, NTAssumption DEF Threads
  <2>2. queue' \in Seq(States)
    BY <1>2, <1>3, <1>6
  <2>3. depth' \in [States -> Nat]
    BY <1>0, <1>2, <1>3 DEF TypeOK
  <2>4. edges' \in SUBSET (States \X States \X Threads)
    BY <1>0, <1>1, <1>2 DEF TypeOK
  <2> QED  BY <1>0, <1>1, <1>2, <1>3, <2>1, <2>2, <2>3, <2>4, Zenon DEF TypeOK
<1>9. \A s : InQueue(s)' <=> InQueue(s) \/ (s = v /\ v \notin vertices)
  <2>1. CASE v \in vertices
    BY <1>3, <2>1 DEF InQueue
  <2>2. CASE v \notin vertices
    BY <1>6, <1>7, <2>2 DEF InQueue
  <2> QED  BY <2>1, <2>2
<1>10. QueueInv'
  <2>1. /\ \A k \in 1..Len(queue') : queue'[k] \in vertices'
        /\ \A j, k \in 1..Len(queue') : queue'[j] = queue'[k] => j = k
    <3>1. CASE v \in vertices
      BY <1>0, <1>3, <3>1 DEF QueueInv
    <3>2. CASE v \notin vertices
      <4>1. \A k \in 1..Len(queue) : queue'[k] \in vertices /\ queue'[k] # v
        BY <1>0, <1>7, <3>2 DEF QueueInv
      <4>2. \A k \in 1..Len(queue') : k \in 1..Len(queue) \/ k = Len(queue) + 1
        BY <1>6, <1>7, <3>2
      <4> QED  BY <1>0, <1>3, <1>7, <3>2, <4>1, <4>2 DEF QueueInv
    <3> QED  BY <3>1, <3>2
  <2>2. ~InQueue(u)'
    <3>1. ~InQueue(u) /\ ~(u = v /\ v \notin vertices)
      BY <1>1
    <3> QED  BY <1>1, <1>9, <3>1, Zenon DEF InQueue
  <2>3. pc' = "for" => chosen' \in Threads
    BY <1>1, NTAssumption DEF Threads
  <2>4. pc' # "serialize"
    BY <1>1
  <2> QED  BY <1>0, <1>1, <1>3, <2>1, <2>2, <2>3, <2>4 DEF QueueInv
<1>11. ASSUME NEW s, NEW t \in Threads
       PROVE  Ran(s, t)' <=> Ran(s, t) \/ (s = u /\ t = chosen)
  <2>1. CASE s = u
    <3>1. Ran(s, t) <=> t < chosen
      BY <1>1, <2>1 DEF Ran
    <3>2. Ran(s, t)' <=> (pc' = "for" => t < chosen + 1)
      BY <1>1, <1>3, <1>9, <2>1 DEF Ran
    <3>3. (pc' = "for" => t < chosen + 1) <=> (t < chosen \/ t = chosen)
      BY <1>1, NTAssumption DEF Threads
    <3> QED  BY <2>1, <3>1, <3>2, <3>3
  <2>2. CASE s # u
    <3>1. Ran(s, t) <=> s \in vertices /\ ~InQueue(s)
      BY <2>2 DEF Ran
    <3>2. Ran(s, t)' <=> s \in vertices' /\ ~InQueue(s)'
      BY <1>1, <2>2 DEF Ran
    <3>3. s \in vertices' /\ ~InQueue(s)' <=> s \in vertices /\ ~InQueue(s)
      BY <1>3, <1>9
    <3> QED  BY <2>2, <3>1, <3>2, <3>3
  <2> QED  BY <2>1, <2>2
<1>12. VertexInv'
  <2>1. ASSUME NEW s \in vertices', NEW t \in Threads, Ran(s, t)'
        PROVE  succ[s][t] \in vertices'
    <3>1. CASE Ran(s, t)
      <4>1. s \in vertices
        BY <3>1 DEF Ran
      <4> QED  BY <1>0, <1>3, <3>1, <4>1 DEF VertexInv
    <3>2. CASE s = u /\ t = chosen
      BY <1>3, <1>5, <3>2
    <3> QED  BY <1>11, <2>1, <3>1, <3>2
  <2> QED  BY <1>1, <2>1 DEF VertexInv
<1>13. EdgeInv'
  <2>1. <<u, v, chosen>> \in States \X States \X Threads
    BY <1>1, <1>2
  <2>2. ASSUME NEW e \in States \X States \X Threads
        PROVE  e \in edges' <=> Ran(e[1], e[3])' /\ e[2] = succ[e[1]][e[3]]
    <3>1. e \in edges <=> Ran(e[1], e[3]) /\ e[2] = succ[e[1]][e[3]]
      BY <1>0 DEF EdgeInv
    <3>2. e = <<u, v, chosen>> <=> e[1] = u /\ e[3] = chosen /\ e[2] = succ[e[1]][e[3]]
      BY <1>5, <2>1
    <3>3. e[3] \in Threads
      OBVIOUS
    <3>4. Ran(e[1], e[3])' <=> Ran(e[1], e[3]) \/ (e[1] = u /\ e[3] = chosen)
      BY <1>11, <3>3
    <3> QED  BY <1>1, <3>1, <3>2, <3>4
  <2>3. edges' \subseteq States \X States \X Threads
    BY <1>8 DEF TypeOK
  <2> QED  BY <1>1, <2>2, <2>3 DEF EdgeInv
<1>14. SoundInv'
  <2>1. Reachable' = Reachable
    BY <1>1 DEF Reachable, Closed
  <2> QED  BY <1>0, <1>3, <1>4, <2>1 DEF SoundInv
<1>15. LevelInv'
  <2> DEFINE d == depth[u]
  <2>1. depth \in [States -> Nat] /\ vertices \subseteq States /\ d \in Nat
    BY <1>0, <1>2 DEF TypeOK
  <2>2. /\ \A s \in vertices : depth'[s] = depth[s]
        /\ v \notin vertices => depth'[v] = d + 1
    BY <1>2, <1>3, <2>1
  <2>3. \A s \in vertices' : depth'[s] \in Nat /\ depth'[s] <= d + 1
    <3>1. \A s \in vertices : depth'[s] \in Nat /\ depth'[s] <= d + 1
      BY <1>0, <2>1, <2>2 DEF LevelInv
    <3>2. v \notin vertices => depth'[v] \in Nat /\ depth'[v] <= d + 1
      BY <2>1, <2>2
    <3> QED  BY <1>3, <3>1, <3>2
  <2>4. depth'[u] = d
    BY <1>1, <2>2
  <2> HIDE DEF d
  <2>5. \A k \in 1..Len(queue) : queue[k] \in vertices /\ depth'[queue[k]] = depth[queue[k]]
    BY <1>0, <2>2 DEF QueueInv
  <2>6. /\ \A j, k \in 1..Len(queue') : j <= k => depth'[queue'[j]] <= depth'[queue'[k]]
        /\ \A k \in 1..Len(queue') : depth'[u] <= depth'[queue'[k]]
    <3>0. /\ \A j, k \in 1..Len(queue) : j <= k => depth'[queue[j]] <= depth'[queue[k]]
          /\ \A k \in 1..Len(queue) : d <= depth'[queue[k]]
      BY <1>0, <2>5 DEF LevelInv, d
    <3>1. CASE v \in vertices
      BY <1>3, <2>4, <3>0, <3>1
    <3>2. CASE v \notin vertices
      <4>1. \A k \in 1..Len(queue') : k \in 1..Len(queue) \/ k = Len(queue) + 1
        BY <1>6, <1>7, <3>2
      <4>2. \A k \in 1..Len(queue) : depth'[queue[k]] <= d + 1 /\ ~(Len(queue) + 1 <= k)
        BY <1>3, <1>6, <2>3, <2>5
      <4>3. depth'[queue'[Len(queue) + 1]] = d + 1 /\ d <= d + 1 /\ d + 1 <= d + 1
        BY <1>7, <2>1, <2>2, <3>2 DEF d
      <4>4. \A k \in 1..Len(queue) : queue'[k] = queue[k]
        BY <1>7, <3>2
      <4>5. \A k \in 1..Len(queue') : depth'[u] <= depth'[queue'[k]]
        BY <2>4, <3>0, <4>1, <4>3, <4>4
      <4>6. ASSUME NEW j \in 1..Len(queue'), NEW k \in 1..Len(queue'), j <= k
            PROVE  depth'[queue'[j]] <= depth'[queue'[k]]
        <5>1. CASE k = Len(queue) + 1
          BY <4>1, <4>2, <4>3, <4>4, <5>1
        <5>2. CASE k \in 1..Len(queue) /\ j \in 1..Len(queue)
          BY <3>0, <4>4, <4>6, <5>2
        <5> QED  BY <4>1, <4>2, <4>6, <5>1, <5>2
      <4> QED  BY <4>5, <4>6
    <3> QED  BY <3>1, <3>2
  <2>7. ASSUME NEW s \in vertices', NEW t \in Threads, Ran(s, t)'
        PROVE  depth'[succ[s][t]] <= depth'[s] + 1
    <3>1. CASE Ran(s, t)
      <4>1. s \in vertices /\ succ[s][t] \in vertices
        BY <1>0, <3>1 DEF Ran, VertexInv
      <4>2. depth[succ[s][t]] <= depth[s] + 1
        BY <1>0, <3>1, <4>1 DEF LevelInv
      <4> QED  BY <2>2, <4>1, <4>2
    <3>2. CASE s = u /\ t = chosen
      BY <1>3, <1>5, <2>3, <2>4, <3>2
    <3> QED  BY <1>11, <2>7, <3>1, <3>2
  <2> QED  BY <1>1, <2>3, <2>4, <2>6, <2>7 DEF LevelInv
<1> QED  BY <1>8, <1>10, <1>12, <1>13, <1>14, <1>15 DEF IInv

\* Every step keeps the invariant.
LEMMA NextIInv == IInv /\ [Next]_vars => IInv'
<1> SUFFICES ASSUME IInv, [Next]_vars PROVE IInv'
  OBVIOUS
<1>0. TypeOK /\ QueueInv /\ VertexInv /\ EdgeInv /\ SoundInv /\ LevelInv
  BY DEF IInv
<1>1. CASE Dequeue
  BY <1>1, DequeueIInv
<1>2. CASE Visit
  BY <1>2, VisitIInv
<1>3. CASE Done
  <2>1. /\ succ' = succ /\ queue' = queue /\ vertices' = vertices /\ edges' = edges
        /\ depth' = depth /\ u' = u /\ chosen' = chosen
        /\ pc = "while" /\ pc' = "serialize" /\ queue = << >>
    BY <1>3 DEF Done
  <2>2. \A s, t : Ran(s, t)' <=> Ran(s, t)
    BY <2>1 DEF Ran, InQueue
  <2>3. TypeOK' /\ QueueInv'
    BY <1>0, <2>1 DEF TypeOK, QueueInv
  <2>4. SoundInv'
    BY <1>0, <2>1 DEF SoundInv, Reachable, Closed
  <2>5. VertexInv' /\ EdgeInv'
    BY <1>0, <2>1, <2>2 DEF VertexInv, EdgeInv
  <2>6. LevelInv'
    BY <1>0, <2>1, <2>2 DEF LevelInv
  <2> QED  BY <2>3, <2>4, <2>5, <2>6 DEF IInv
<1>4. CASE UNCHANGED vars
  <2>1. /\ succ' = succ /\ queue' = queue /\ vertices' = vertices /\ edges' = edges
        /\ depth' = depth /\ u' = u /\ chosen' = chosen /\ pc' = pc
    BY <1>4 DEF vars
  <2>2. \A s, t : InQueue(s)' = InQueue(s) /\ (Ran(s, t)' <=> Ran(s, t))
    BY <2>1 DEF Ran, InQueue
  <2>3. TypeOK' /\ QueueInv'
    BY <1>0, <2>1, <2>2 DEF TypeOK, QueueInv, InQueue
  <2>4. SoundInv'
    BY <1>0, <2>1 DEF SoundInv, Reachable, Closed
  <2>5. VertexInv' /\ EdgeInv' /\ LevelInv'
    BY <1>0, <2>1, <2>2 DEF VertexInv, EdgeInv, LevelInv
  <2> QED  BY <2>3, <2>4, <2>5 DEF IInv
<1> QED  BY <1>1, <1>2, <1>3, <1>4 DEF Next, Over

\* The inductive invariant holds in every reachable state of the search.
THEOREM ExplorerInvariant == Spec => []IInv
BY InitIInv, NextIInv, PTL DEF Spec

\* When the queue is empty, every vertex has been expanded by every thread.
LEMMA AllExpanded == ASSUME IInv, pc = "serialize"
                     PROVE  /\ \A s \in vertices, t \in Threads : Ran(s, t)
                            /\ vertices = Reachable
<1>1. \A s \in vertices, t \in Threads : Ran(s, t)
  BY DEF IInv, QueueInv, Ran, InQueue
<1>2. Closed(vertices) /\ s0 \in vertices /\ vertices \in SUBSET States
  BY <1>1 DEF IInv, VertexInv, Closed, QueueInv, TypeOK
<1>3. Reachable \subseteq vertices
  BY <1>2 DEF Reachable
<1> QED  BY <1>1, <1>3 DEF IInv, SoundInv

\* check_bfs serializes exactly the states that some interleaving reaches.
THEOREM ExplorerFindsReachable == Spec => []FindsReachable
<1>1. IInv => FindsReachable
  BY AllExpanded DEF FindsReachable
<1> QED  BY <1>1, ExplorerInvariant, PTL

\* check_bfs serializes one edge for each reachable state and each thread.
THEOREM ExplorerEdgesComplete == Spec => []EdgesComplete
<1>1. ASSUME IInv, pc = "serialize"
      PROVE  edges = {<<s, succ[s][t], t>> : s \in Reachable, t \in Threads}
  <2>1. \A s, t : Ran(s, t) => s \in vertices
    BY DEF Ran
  <2>2. edges = {e \in States \X States \X Threads :
                   e[1] \in vertices /\ e[2] = succ[e[1]][e[3]]}
    BY <1>1, <2>1, AllExpanded DEF IInv, EdgeInv
  <2>3. vertices = Reachable /\ vertices \in SUBSET States
    BY <1>1, AllExpanded, Zenon DEF IInv, TypeOK
  <2>4. ASSUME NEW s \in Reachable, NEW t \in Threads
        PROVE  <<s, succ[s][t], t>> \in edges
    <3>1. s \in States /\ succ[s][t] \in States
      BY <1>1, <2>3 DEF IInv, TypeOK
    <3> QED  BY <2>2, <2>3, <3>1
  <2>5. ASSUME NEW e \in edges
        PROVE  \E s \in Reachable, t \in Threads : e = <<s, succ[s][t], t>>
    <3>1. /\ e[1] \in Reachable /\ e[3] \in Threads
          /\ e = <<e[1], succ[e[1]][e[3]], e[3]>>
      BY <2>2, <2>3
    <3> QED  BY <3>1
  <2> QED  BY <2>4, <2>5
<1>2. IInv => EdgesComplete
  BY <1>1 DEF EdgesComplete
<1> QED  BY <1>2, ExplorerInvariant, PTL

\* check_bfs finds every state by a trace that is at most one longer than the
\* one of each state from which a thread gets there.
THEOREM ExplorerShortestTraces == Spec => []ShortestTraces
<1>1. ASSUME IInv, pc = "serialize", NEW e \in edges PROVE depth[e[2]] <= depth[e[1]] + 1
  <2>1. Ran(e[1], e[3]) /\ e[2] = succ[e[1]][e[3]] /\ e[3] \in Threads
    BY <1>1 DEF IInv, EdgeInv
  <2> QED  BY <1>1, <2>1 DEF IInv, LevelInv, Ran
<1>2. IInv => ShortestTraces
  BY <1>1 DEF ShortestTraces
<1> QED  BY <1>2, ExplorerInvariant, PTL
-----------------------------------------------------------------------------
(* The traces of the search *)

\* w goes from s0 by n statements, each of some thread.
Walk(w, n) == w[0] = s0 /\ \A i \in 1..n : \E t \in Threads : w[i] = succ[w[i - 1]][t]

\* Every state was found by a walk of its depth.
TraceInv == /\ depth[s0] = 0
            /\ \A s \in vertices : \E w \in [0..depth[s] -> States] :
                 Walk(w, depth[s]) /\ w[depth[s]] = s

\* The depth of a state that is serialized is the length of a shortest walk
\* to it.
DepthIsDistance == pc = "serialize" => \A s \in Reachable :
  /\ \E w \in [0..depth[s] -> States] : Walk(w, depth[s]) /\ w[depth[s]] = s
  /\ \A n \in Nat : \A w \in [0..n -> States] : Walk(w, n) /\ w[n] = s => depth[s] <= n

\* The trace of a new state is the one of u and the thread that was chosen.
LEMMA VisitTrace == ASSUME IInv, TraceInv, Visit PROVE TraceInv'
<1> DEFINE v == succ[u][chosen]
           n == depth[u]
<1>1. /\ TypeOK /\ u \in vertices /\ s0 \in vertices /\ chosen \in Threads /\ succ' = succ
      /\ vertices \subseteq States /\ n \in Nat /\ v \in States /\ depth \in [States -> Nat]
  BY DEF IInv, QueueInv, TypeOK, Visit
<1>2. \/ vertices' = vertices /\ depth' = depth
      \/ /\ v \notin vertices /\ vertices' = vertices \union {v}
         /\ depth' = [depth EXCEPT ![v] = n + 1]
  BY <1>1, NamedIsKnown DEF Visit, Enqueue
<1>3. PICK w \in [0..n -> States] : Walk(w, n) /\ w[n] = u
  BY <1>1 DEF TraceInv
<1>4. succ[u][chosen] = v
  OBVIOUS
<1> HIDE DEF v, n
<1>5. CASE vertices' = vertices /\ depth' = depth
  BY <1>1, <1>5 DEF TraceInv, Walk
<1>6. CASE /\ v \notin vertices /\ vertices' = vertices \union {v}
           /\ depth' = [depth EXCEPT ![v] = n + 1]
  <2>1. depth'[v] = n + 1 /\ \A s \in vertices : depth'[s] = depth[s]
    BY <1>1, <1>6
  <2> DEFINE x == [i \in 0..(n + 1) |-> IF i = n + 1 THEN v ELSE w[i]]
  <2>2. x \in [0..(n + 1) -> States]
    <3>1. \A i \in 0..(n + 1) : i = n + 1 \/ i \in 0..n
      BY <1>1
    <3>2. v \in States /\ \A i \in 0..n : w[i] \in States
      BY <1>1, <1>3
    <3> QED  BY <3>1, <3>2
  <2>3. x[n + 1] = v /\ x[0] = w[0] /\ \A i \in 1..n : x[i] = w[i] /\ x[i - 1] = w[i - 1]
    BY <1>1, <1>3
  <2>4. x[n] = u /\ (n + 1) - 1 = n
    BY <1>1, <1>3
  <2> HIDE DEF x
  <2>5. \A i \in 1..(n + 1) : i \in 1..n \/ i = n + 1
    BY <1>1
  <2>6. Walk(x, n + 1)
    BY <1>1, <1>3, <1>4, <2>3, <2>4, <2>5 DEF Walk
  <2>7. depth'[s0] = 0
    BY <1>1, <2>1 DEF TraceInv
  <2>8. \A s \in vertices' : \E y \in [0..depth'[s] -> States] :
          Walk(y, depth'[s]) /\ y[depth'[s]] = s
    <3>1. \E y \in [0..depth'[v] -> States] : Walk(y, depth'[v]) /\ y[depth'[v]] = v
      BY <2>1, <2>2, <2>3, <2>6, Zenon
    <3>2. \A s \in vertices : \E y \in [0..depth'[s] -> States] :
            Walk(y, depth'[s]) /\ y[depth'[s]] = s
      BY <2>1 DEF TraceInv
    <3> QED  BY <1>6, <3>1, <3>2, Zenon
  <2> QED  BY <1>1, <2>7, <2>8 DEF TraceInv, Walk
<1> QED  BY <1>2, <1>5, <1>6

\* Every state that is known has a trace of its depth.
THEOREM ExplorerTraces == Spec => []TraceInv
<1>1. Init => TraceInv
  <2> SUFFICES ASSUME Init PROVE TraceInv
    OBVIOUS
  <2>1. depth[s0] = 0 /\ vertices = {s0}
    BY StatesAssumption DEF Init
  <2> DEFINE w == [i \in 0..0 |-> s0]
  <2>2. w \in [0..0 -> States] /\ w[0] = s0 /\ 1..0 = {}
    BY StatesAssumption
  <2> HIDE DEF w
  <2> QED  BY <2>1, <2>2, Zenon DEF TraceInv, Walk
<1>2. IInv /\ TraceInv /\ [Next]_vars => TraceInv'
  <2> SUFFICES ASSUME IInv, TraceInv, [Next]_vars PROVE TraceInv'
    OBVIOUS
  <2>1. CASE Visit
    BY <2>1, VisitTrace
  <2>2. CASE Dequeue \/ Done \/ Over \/ UNCHANGED vars
    <3>1. succ' = succ /\ depth' = depth /\ vertices' = vertices
      BY <2>2 DEF Dequeue, Done, Over, vars
    <3> QED  BY <3>1 DEF TraceInv, Walk
  <2> QED  BY <2>1, <2>2 DEF Next
<1> QED  BY <1>1, <1>2, ExplorerInvariant, PTL DEF Spec

\* The natural numbers are well-founded, said without an operator as argument.
LEMMA NatWF == \E R : IsWellFoundedOn(R, Nat) /\ \A x, y \in Nat : y < x => <<y, x>> \in R
<1>1. \A x, y \in Nat : y < x => <<y, x>> \in OpToRel(<, Nat)
  BY Zenon DEF OpToRel
<1> QED  BY <1>1, NatLessThanWellFounded, Zenon

\* Every nonempty set of natural numbers has a least element.
LEMMA NatMin == ASSUME NEW T, T \subseteq Nat, T # {} PROVE \E x \in T : \A y \in T : x <= y
<1>1. PICK R : IsWellFoundedOn(R, Nat) /\ \A x, y \in Nat : y < x => <<y, x>> \in R
  BY NatWF
<1>2. PICK x \in T : \A y \in T : ~(<<y, x>> \in R)
  BY <1>1, WFMin, Zenon
<1>3. x \in Nat /\ \A y \in T : y \in Nat /\ ~(y < x)
  BY <1>1, <1>2, Zenon
<1>4. \A y \in T : x <= y
  BY <1>3
<1> QED  BY <1>4

\* No walk is shorter than the depth of where it leads: each of its steps is
\* an edge, and no edge skips a level.
LEMMA WalksAreLong == ASSUME IInv, depth[s0] = 0, pc = "serialize",
                             NEW n \in Nat, NEW w \in [0..n -> States], Walk(w, n)
                      PROVE  depth[w[n]] <= n
<1> DEFINE Good(i) == w[i] \in vertices /\ depth[w[i]] \in Nat /\ depth[w[i]] <= i
           Bad == {i \in 0..n : ~Good(i)}
<1>1. s0 \in vertices /\ vertices \subseteq States /\ depth \in [States -> Nat]
  BY DEF IInv, QueueInv, TypeOK
<1>2. ASSUME NEW i \in 1..n, Good(i - 1) PROVE Good(i)
  <2>1. PICK t \in Threads : w[i] = succ[w[i - 1]][t]
    BY DEF Walk
  <2>2. Ran(w[i - 1], t)
    BY <1>2, AllExpanded
  <2>3. w[i] \in vertices /\ depth[w[i]] <= depth[w[i - 1]] + 1
    BY <1>2, <2>1, <2>2, Zenon DEF IInv, VertexInv, LevelInv
  <2>4. depth[w[i]] \in Nat
    BY <1>1, <2>3
  <2> QED  BY <1>2, <2>3, <2>4
<1>3. Good(0)
  BY <1>1 DEF Walk
<1> HIDE DEF Good
<1>4. Bad = {}
  <2> SUFFICES ASSUME Bad # {} PROVE FALSE
    OBVIOUS
  <2>1. Bad \subseteq Nat
    OBVIOUS
  <2>2. PICK i \in Bad : \A j \in Bad : i <= j
    BY <2>1, NatMin, Zenon
  <2>3. i \in 0..n /\ ~Good(i)
    BY <2>2
  <2>4. i \in 1..n /\ i - 1 \in 0..n /\ ~(i <= i - 1)
    BY <1>3, <2>3
  <2>5. Good(i - 1)
    BY <2>2, <2>4
  <2> QED  BY <1>2, <2>3, <2>4, <2>5
<1>5. Good(n)
  BY <1>4
<1> QED  BY <1>5 DEF Good

\* The trace that check_bfs gives for a state is a shortest one, for every
\* program.
THEOREM ExplorerDistances == Spec => []DepthIsDistance
<1>1. ASSUME IInv, TraceInv, pc = "serialize", NEW s \in Reachable
      PROVE  /\ \E w \in [0..depth[s] -> States] : Walk(w, depth[s]) /\ w[depth[s]] = s
             /\ \A n \in Nat : \A w \in [0..n -> States] :
                  Walk(w, n) /\ w[n] = s => depth[s] <= n
  <2>1. s \in vertices /\ depth[s0] = 0
    BY <1>1, AllExpanded DEF TraceInv
  <2> QED  BY <1>1, <2>1, WalksAreLong DEF TraceInv
<1>2. IInv /\ TraceInv => DepthIsDistance
  BY <1>1 DEF DepthIsDistance
<1> QED  BY <1>2, ExplorerInvariant, ExplorerTraces, PTL
-----------------------------------------------------------------------------
(* visualize.py behind the search *)

LinesInv == /\ lines \in Seq(States \X States \X Threads)
            /\ edges = {lines[i] : i \in 1..Len(lines)}
            /\ vpc # "stdin" => pc = "serialize"

\* What reduce() has reached is a tree with the root s0.
TreeInv == /\ level \in [DOMAIN level -> Nat] /\ leaf \in [DOMAIN level -> BOOLEAN]
           /\ DOMAIN level \subseteq vertices
           /\ s0 \in DOMAIN level /\ level[s0] = 0
           /\ tree \subseteq edges
           /\ \A e \in tree : /\ {e[1], e[2]} \subseteq DOMAIN level
                              /\ e[2] # s0 /\ level[e[2]] = level[e[1]] + 1
           /\ \A e, d \in tree : e[2] = d[2] => e = d
           /\ \A v \in DOMAIN level : v # s0 => \E e \in tree : e[2] = v
           /\ \A v \in DOMAIN level : leaf[v] <=> \A e \in tree : e[1] # v

\* No edge of thread t leads out of the tree.
Saturated(t) ==
  \A e \in edges : e[3] = t /\ e[1] \in DOMAIN level => e[2] \in DOMAIN level

\* A round that found nothing has left its thread saturated, and so it is
\* until something is found.
RoundInv ==
  /\ rnd \in Nat /\ updated \in Nat /\ at \in Nat \ {0}
  /\ vpc \in {"stdin", "while", "expand", "others", "drawn", "raised"}
  /\ vpc = "stdin" => rnd = 0 /\ updated = 0
  /\ vpc \in {"stdin", "while"} => ~found /\ at = 1
  /\ vpc = "while" => \A r \in (updated + 1)..rnd : Saturated(OfRound(r))
  /\ vpc = "expand" /\ ~found =>
       /\ \A r \in (updated + 1)..(rnd - 1) : Saturated(OfRound(r))
       /\ \A j \in 1..(at - 1) : j <= Len(lines) => ~IsNew(lines[j])
  /\ vpc \in {"others", "drawn", "raised"} => \A t \in Threads : Saturated(t)
  /\ vpc = "raised" => To(s0) = {}

ReduceIInv == LinesInv /\ TreeInv /\ RoundInv

\* Both together, for the pipe.
AllIInv == IInv /\ ReduceIInv

\* Every window of NT rounds has a round of each thread.
LEMMA RoundOfThread == ASSUME NEW m \in Nat, NEW t \in Threads
                       PROVE  \E r \in (m + 1)..(m + NT) : OfRound(r) = t
<1>1. NT \in Nat \ {0} /\ t \in 1..NT
  BY NTAssumption DEF Threads
<1> DEFINE c == (NT - (t - 1)) % NT
           a == m % NT
           q == m \div NT
<1>2. c \in 0..(NT - 1) /\ ((NT - c) % NT) + 1 = t
  BY <1>1
<1>3. a \in 0..(NT - 1) /\ q \in Nat /\ m = q * NT + a
  BY <1>1
<1>4. (q * NT + c) % NT = c /\ ((q + 1) * NT + c) % NT = c
  <2>1. ASSUME NEW p \in Nat PROVE (p * NT + c) % NT = c
    <3> HIDE DEF c
    <3> QED  BY <1>1, <1>2
  <2>2. q + 1 \in Nat
    BY <1>3
  <2> QED  BY <1>3, <2>1, <2>2
<1>5. (q + 1) * NT = q * NT + NT /\ q * NT \in Int
  BY <1>1, <1>3
<1> HIDE DEF c, a, q
<1>6. CASE c > a
  <2>1. q * NT + c \in (m + 1)..(m + NT)
    BY <1>1, <1>2, <1>3, <1>5, <1>6
  <2>2. OfRound(q * NT + c) = t
    BY <1>2, <1>4 DEF OfRound
  <2> QED  BY <2>1, <2>2
<1>7. CASE c <= a
  <2>1. (q + 1) * NT + c \in (m + 1)..(m + NT)
    BY <1>1, <1>2, <1>3, <1>5, <1>7
  <2>2. OfRound((q + 1) * NT + c) = t
    BY <1>2, <1>4 DEF OfRound
  <2> QED  BY <2>1, <2>2
<1> QED  BY <1>2, <1>3, <1>6, <1>7

\* At the start the tree is s0.
LEMMA AllInitIInv == AllInit => AllIInv
<1> SUFFICES ASSUME AllInit PROVE AllIInv
  OBVIOUS
<1>1. IInv
  BY InitIInv DEF AllInit
<1>2. /\ lines = << >> /\ edges = {} /\ vertices = {s0} /\ vpc = "stdin"
      /\ level = [s \in {s0} |-> 0] /\ leaf = [s \in {s0} |-> TRUE] /\ tree = {}
      /\ rnd = 0 /\ updated = 0 /\ ~found /\ at = 1
  BY DEF AllInit, Init, ReduceInit
<1>3. LinesInv
  <2>1. lines \in Seq(States \X States \X Threads) /\ Len(lines) = 0
    BY <1>2
  <2> QED  BY <1>2, <2>1 DEF LinesInv
<1>4. TreeInv
  BY <1>2 DEF TreeInv
<1>5. RoundInv
  BY <1>2 DEF RoundInv
<1> QED  BY <1>1, <1>3, <1>4, <1>5 DEF AllIInv, ReduceIInv

\* The search goes on: its edges are written down as they are found.
LEMMA ExploreIInv == ASSUME AllIInv, Explore PROVE AllIInv'
<1> DEFINE e == <<u, succ[u][chosen], chosen>>
<1>0. IInv /\ LinesInv /\ TreeInv /\ RoundInv
  BY DEF AllIInv, ReduceIInv
<1>1. /\ Next /\ vpc = "stdin" /\ lines' = IF pc = "for" THEN Append(lines, e) ELSE lines
      /\ level' = level /\ leaf' = leaf /\ tree' = tree /\ rnd' = rnd /\ updated' = updated
      /\ found' = found /\ at' = at /\ vpc' = vpc
  BY DEF Explore, reduceVars, loopVars
<1>2. IInv'
  BY <1>0, <1>1, NextIInv
<1>3. vertices \subseteq vertices'
  BY <1>1 DEF Next, Dequeue, Visit, Enqueue, Done, Over, vars
<1>4. edges' = IF pc = "for" THEN edges \union {e} ELSE edges
  BY <1>1 DEF Next, Dequeue, Visit, AddEdge, Done, Over, vars
<1>5. LinesInv'
  <2>1. lines \in Seq(States \X States \X Threads) /\ Len(lines) \in Nat
    BY <1>0 DEF LinesInv
  <2>2. CASE pc # "for"
    BY <1>0, <1>1, <1>4, <2>2 DEF LinesInv
  <2>3. CASE pc = "for"
    <3>1. e \in States \X States \X Threads
      BY <1>0, <2>3 DEF IInv, QueueInv, TypeOK
    <3> HIDE DEF Threads, e
    <3>2. /\ lines' \in Seq(States \X States \X Threads)
          /\ Len(lines') = Len(lines) + 1
          /\ \A i \in 1..Len(lines) : lines'[i] = lines[i]
          /\ lines'[Len(lines) + 1] = e
      BY <1>1, <2>1, <2>3, <3>1
    <3>3. /\ \A i \in 1..Len(lines') : i \in 1..Len(lines) \/ i = Len(lines) + 1
          /\ 1..Len(lines) \subseteq 1..Len(lines') /\ Len(lines) + 1 \in 1..Len(lines')
      BY <2>1, <3>2
    <3>4. edges = {lines[i] : i \in 1..Len(lines)} /\ edges' = edges \union {e}
      BY <1>0, <1>4, <2>3 DEF LinesInv
    <3>5. edges' = {lines'[i] : i \in 1..Len(lines')}
      BY <3>2, <3>3, <3>4
    <3> QED  BY <1>1, <3>2, <3>5, Zenon DEF LinesInv
  <2> QED  BY <2>2, <2>3
<1>6. TreeInv'
  <2>1. edges \subseteq edges'
    BY <1>4
  <2> QED  BY <1>0, <1>1, <1>3, <2>1 DEF TreeInv
<1>7. RoundInv'
  BY <1>0, <1>1 DEF RoundInv
<1> QED  BY <1>2, <1>5, <1>6, <1>7 DEF AllIInv, ReduceIInv

\* What reduce() leaves alone.
Fixed == vars' = vars /\ lines' = lines
LEMMA FixedInv == ASSUME AllIInv, Fixed, vpc' # "stdin" => pc = "serialize"
                  PROVE  IInv' /\ LinesInv' /\ edges' = edges /\ vertices' = vertices
<1>1. edges' = edges /\ vertices' = vertices /\ pc' = pc /\ lines' = lines
  BY DEF Fixed, vars
<1>2. IInv'
  BY NextIInv DEF AllIInv, Fixed
<1>3. LinesInv'
  BY <1>1 DEF AllIInv, ReduceIInv, LinesInv
<1> QED  BY <1>1, <1>2, <1>3

\* A step that leaves the tree alone.
LEMMA SameTree == ASSUME AllIInv, Fixed, level' = level, leaf' = leaf, tree' = tree
                  PROVE  TreeInv' /\ \A t : Saturated(t)' <=> Saturated(t)
<1>1. edges' = edges /\ vertices' = vertices
  BY DEF Fixed, vars
<1> QED  BY <1>1 DEF AllIInv, ReduceIInv, TreeInv, Saturated

\* An edge to a new state makes it a leaf of the tree.
LEMMA ReachInv == ASSUME AllIInv, Fixed, NEW e \in edges, IsNew(e), Reach(e) PROVE TreeInv'
<1>0. IInv /\ TreeInv /\ edges' = edges /\ vertices' = vertices
  BY DEF AllIInv, ReduceIInv, Fixed, vars
<1> DEFINE L == DOMAIN level
<1>1. e[1] \in L /\ e[2] \notin L /\ e[1] # e[2] /\ e[2] # s0
  BY <1>0 DEF IsNew, TreeInv
<1>2. e[2] \in vertices
  <2>1. Ran(e[1], e[3]) /\ e[2] = succ[e[1]][e[3]] /\ e[3] \in Threads /\ e[1] \in vertices
    BY <1>0 DEF IInv, EdgeInv, Ran
  <2> QED  BY <1>0, <2>1 DEF IInv, VertexInv
<1>3. /\ DOMAIN level' = L \union {e[2]}
      /\ level'[e[2]] = level[e[1]] + 1
      /\ \A s \in L : level'[s] = level[s]
      /\ level' = [s \in L \union {e[2]} |-> level'[s]]
  BY <1>1 DEF Reach, Put
<1>4. /\ DOMAIN leaf = L
      /\ leaf' = [s \in L \union {e[2]} |-> leaf'[s]]
      /\ leaf'[e[1]] = FALSE /\ leaf'[e[2]] = TRUE
      /\ \A s \in L : s # e[1] => leaf'[s] = leaf[s]
  <2>1. DOMAIN leaf = L
    BY <1>0 DEF TreeInv
  <2>2. (L \union {e[2]}) \union {e[1]} = L \union {e[2]}
    BY <1>1
  <2> QED  BY <1>1, <2>1, <2>2, Zenon DEF Reach, Put
<1>5. tree' = tree \union {e}
  BY DEF Reach
<1>6. level \in [L -> Nat] /\ leaf \in [L -> BOOLEAN]
  BY <1>0 DEF TreeInv
<1> HIDE DEF L
<1>7. level' \in [DOMAIN level' -> Nat] /\ leaf' \in [DOMAIN level' -> BOOLEAN]
  <2>1. \A s \in L \union {e[2]} : level'[s] \in Nat
    BY <1>1, <1>3, <1>6
  <2>2. \A s \in L \union {e[2]} : leaf'[s] \in BOOLEAN
    BY <1>4, <1>6, Zenon
  <2> QED  BY <1>3, <1>4, <2>1, <2>2
<1>8. DOMAIN level' \subseteq vertices /\ s0 \in DOMAIN level' /\ level'[s0] = 0
  BY <1>0, <1>2, <1>3 DEF TreeInv, L
<1>9. tree' \subseteq edges
  BY <1>0, <1>5 DEF TreeInv
<1>10. \A d \in tree : {d[1], d[2]} \subseteq L /\ d[2] # s0 /\ level[d[2]] = level[d[1]] + 1
  BY <1>0 DEF TreeInv, L
<1>11. \A d \in tree' : /\ {d[1], d[2]} \subseteq DOMAIN level'
                        /\ d[2] # s0 /\ level'[d[2]] = level'[d[1]] + 1
  BY <1>1, <1>3, <1>5, <1>10
<1>12. \A d, c \in tree' : d[2] = c[2] => d = c
  BY <1>0, <1>1, <1>5, <1>10 DEF TreeInv
<1>13. \A v \in DOMAIN level' : v # s0 => \E d \in tree' : d[2] = v
  BY <1>0, <1>3, <1>5 DEF TreeInv, L
<1>14. \A v \in DOMAIN level' : leaf'[v] <=> \A d \in tree' : d[1] # v
  <2>1. \A v \in L : leaf[v] <=> \A d \in tree : d[1] # v
    BY <1>0 DEF TreeInv, L
  <2>2. \A d \in tree' : d[1] # e[2]
    BY <1>1, <1>5, <1>10
  <2>3. \E d \in tree' : d[1] = e[1]
    BY <1>5
  <2> SUFFICES ASSUME NEW v \in DOMAIN level' PROVE leaf'[v] <=> \A d \in tree' : d[1] # v
    OBVIOUS
  <2>4. CASE v = e[1]
    BY <1>4, <2>3, <2>4
  <2>5. CASE v = e[2]
    BY <1>4, <2>2, <2>5
  <2>6. CASE v \in L /\ v # e[1]
    BY <1>4, <1>5, <2>1, <2>6
  <2> QED  BY <1>3, <2>4, <2>5, <2>6
<1> QED  BY <1>0, <1>7, <1>8, <1>9, <1>11, <1>12, <1>13, <1>14 DEF TreeInv

\* What the steps of reduce() do to the rounds.
LEMMA RoundTypes == ASSUME AllIInv
                    PROVE  /\ rnd \in Nat /\ updated \in Nat /\ at \in Nat \ {0}
                           /\ lines \in Seq(States \X States \X Threads) /\ Len(lines) \in Nat
                           /\ \A i \in 1..Len(lines) : lines[i] \in edges
                           /\ \A e \in edges : \E i \in 1..Len(lines) : lines[i] = e
<1>1. lines \in Seq(States \X States \X Threads)
  BY DEF AllIInv, ReduceIInv, LinesInv
<1> HIDE DEF Threads
<1>2. Len(lines) \in Nat
  BY <1>1
<1> QED  BY <1>1, <1>2 DEF AllIInv, ReduceIInv, LinesInv, RoundInv

\* A round starts; nothing has been looked at.
LEMMA StartsInv == ASSUME AllIInv, ParseInput \/ StartRound PROVE AllIInv'
<1>0. RoundInv /\ LinesInv
  BY DEF AllIInv, ReduceIInv
<1>1. /\ Fixed /\ level' = level /\ leaf' = leaf /\ tree' = tree /\ updated' = updated
      /\ found' = found /\ at' = at
      /\ \/ vpc = "stdin" /\ pc = "serialize" /\ vpc' = "while" /\ rnd' = rnd
         \/ vpc = "while" /\ vpc' = "expand" /\ rnd' = rnd + 1
  BY DEF ParseInput, StartRound, Fixed, loopVars
<1>2. TreeInv' /\ \A t : Saturated(t)' <=> Saturated(t)
  BY <1>1, SameTree
<1>3. IInv' /\ LinesInv'
  BY <1>0, <1>1, FixedInv DEF LinesInv
<1>4. RoundInv'
  <2>1. rnd \in Nat /\ updated \in Nat /\ at = 1 /\ ~found
    BY <1>0, <1>1 DEF RoundInv
  <2>2. CASE vpc = "stdin"
    <3>1. (updated + 1)..rnd = {}
      BY <1>0, <2>2 DEF RoundInv
    <3> QED  BY <1>1, <2>1, <2>2, <3>1 DEF RoundInv
  <2>3. CASE vpc = "while"
    <3>1. \A r \in (updated + 1)..rnd : Saturated(OfRound(r))
      BY <1>0, <2>3 DEF RoundInv
    <3>2. rnd' = rnd + 1 /\ (rnd + 1) - 1 = rnd /\ vpc' = "expand" /\ rnd + 1 \in Nat
      BY <1>1, <2>1, <2>3
    <3>3. \A r \in (updated' + 1)..(rnd' - 1) : Saturated(OfRound(r))'
      BY <1>1, <1>2, <3>1, <3>2
    <3>4. 1..(at' - 1) = {}
      BY <1>1, <2>1
    <3> QED  BY <1>1, <2>1, <3>2, <3>3, <3>4 DEF RoundInv
  <2> QED  BY <1>1, <2>2, <2>3
<1> QED  BY <1>2, <1>3, <1>4 DEF AllIInv, ReduceIInv

\* An edge is looked at: it is new, or leads to where the tree is already.
LEMMA LookInv == ASSUME AllIInv, Look PROVE AllIInv'
<1>0. RoundInv /\ LinesInv
  BY DEF AllIInv, ReduceIInv
<1>1. /\ Fixed /\ updated' = updated /\ rnd' = rnd /\ at' = at + 1
      /\ vpc = "expand" /\ vpc' = "expand" /\ at <= Len(lines)
  BY DEF Look, Fixed
<1>2. /\ rnd \in Nat /\ updated \in Nat /\ at \in Nat /\ at > 0 /\ Len(lines) \in Nat
      /\ lines[at] \in edges
  <2>1. rnd \in Nat /\ updated \in Nat /\ at \in Nat /\ at > 0 /\ Len(lines) \in Nat
    BY RoundTypes
  <2>2. at \in 1..Len(lines)
    BY <1>1, <2>1
  <2> QED  BY <2>1, <2>2, RoundTypes
<1>3. IInv' /\ LinesInv'
  BY <1>0, <1>1, FixedInv DEF LinesInv
<1>4. CASE IsNew(lines[at]) /\ Reach(lines[at])
  <2>1. TreeInv'
    BY <1>1, <1>2, <1>4, ReachInv
  <2>2. found' = TRUE /\ at + 1 \in Nat \ {0}
    BY <1>2, <1>4 DEF Reach
  <2>3. RoundInv'
    BY <1>1, <1>2, <2>2 DEF RoundInv
  <2> QED  BY <1>3, <2>1, <2>3 DEF AllIInv, ReduceIInv
<1>5. CASE ~IsNew(lines[at]) /\ UNCHANGED <<level, leaf, tree, found>>
  <2>1. TreeInv' /\ \A t : Saturated(t)' <=> Saturated(t)
    BY <1>1, <1>5, SameTree
  <2>2. found' = found /\ lines' = lines /\ \A e : IsNew(e)' <=> IsNew(e)
    BY <1>1, <1>5 DEF IsNew, Fixed
  <2>3. at + 1 \in Nat \ {0} /\ \A j \in 1..((at + 1) - 1) : j \in 1..(at - 1) \/ j = at
    BY <1>2
  <2>4. RoundInv'
    <3>1. ASSUME ~found
          PROVE  /\ \A r \in (updated' + 1)..(rnd' - 1) : Saturated(OfRound(r))'
                 /\ \A j \in 1..(at' - 1) : j <= Len(lines') => ~IsNew(lines[j])'
      BY <1>0, <1>1, <1>5, <2>1, <2>2, <2>3, <3>1 DEF RoundInv
    <3> QED  BY <1>1, <1>2, <2>2, <2>3, <3>1 DEF RoundInv
  <2> QED  BY <1>3, <2>1, <2>4 DEF AllIInv, ReduceIInv
<1> QED  BY <1>4, <1>5 DEF Look

\* A pass ends: if it found nothing, its thread is saturated.
LEMMA ExpandedInv == ASSUME AllIInv, Expanded PROVE AllIInv'
<1>0. RoundInv /\ LinesInv
  BY DEF AllIInv, ReduceIInv
<1>1. /\ Fixed /\ level' = level /\ leaf' = leaf /\ tree' = tree /\ rnd' = rnd
      /\ at' = 1 /\ ~found' /\ vpc = "expand" /\ at > Len(lines)
      /\ \/ found /\ updated' = rnd /\ vpc' = "expand"
         \/ ~found /\ vpc' = "while" /\ updated' = updated
  BY DEF Expanded, Fixed
<1>2. TreeInv' /\ \A t : Saturated(t)' <=> Saturated(t)
  BY <1>1, SameTree
<1>3. IInv' /\ LinesInv'
  BY <1>0, <1>1, FixedInv, Zenon DEF LinesInv
<1>4. /\ rnd \in Nat /\ updated \in Nat /\ at \in Nat /\ Len(lines) \in Nat
  BY RoundTypes
<1>5. RoundInv'
  <2>1. 1..(at' - 1) = {}
    BY <1>1
  <2>2. CASE found
    <3>1. (updated' + 1)..(rnd' - 1) = {}
      BY <1>1, <1>4, <2>2
    <3> QED  BY <1>1, <1>4, <2>1, <2>2, <3>1 DEF RoundInv
  <2>3. CASE ~found
    <3>1. /\ \A r \in (updated + 1)..(rnd - 1) : Saturated(OfRound(r))
          /\ \A j \in 1..(at - 1) : j <= Len(lines) => ~IsNew(lines[j])
      BY <1>0, <1>1, <2>3 DEF RoundInv
    <3>2. \A j \in 1..Len(lines) : j \in 1..(at - 1) /\ j <= Len(lines)
      BY <1>1, <1>4
    <3>3. Saturated(OfRound(rnd))
      BY <3>1, <3>2, RoundTypes DEF Saturated, IsNew
    <3>4. \A r \in (updated + 1)..rnd : r \in (updated + 1)..(rnd - 1) \/ r = rnd
      BY <1>4
    <3>5. \A r \in (updated' + 1)..rnd' : Saturated(OfRound(r))'
      BY <1>1, <1>2, <2>3, <3>1, <3>3, <3>4
    <3> QED  BY <1>1, <1>4, <2>3, <3>5 DEF RoundInv
  <2> QED  BY <2>2, <2>3
<1> QED  BY <1>2, <1>3, <1>5 DEF AllIInv, ReduceIInv

\* When every thread has had a round since the last change, all are saturated.
LEMMA TreeDoneInv == ASSUME AllIInv, TreeDone PROVE AllIInv'
<1>0. RoundInv /\ LinesInv
  BY DEF AllIInv, ReduceIInv
<1>1. /\ Fixed /\ level' = level /\ leaf' = leaf /\ tree' = tree /\ rnd' = rnd /\ at' = at
      /\ updated' = updated /\ vpc = "while" /\ vpc' = "others" /\ ~(updated + NT > rnd)
  BY DEF TreeDone, Continues, Fixed, loopVars
<1>2. TreeInv' /\ \A t : Saturated(t)' <=> Saturated(t)
  BY <1>1, SameTree
<1>3. IInv' /\ LinesInv'
  BY <1>0, <1>1, FixedInv DEF LinesInv
<1>4. rnd \in Nat /\ updated \in Nat /\ at \in Nat \ {0} /\ NT \in Nat
  BY RoundTypes, NTAssumption
<1>5. ASSUME NEW t \in Threads PROVE Saturated(t)
  <2>1. PICK r \in (updated + 1)..(updated + NT) : OfRound(r) = t
    BY <1>4, RoundOfThread, Zenon
  <2>2. r \in (updated + 1)..rnd
    BY <1>1, <1>4
  <2> QED  BY <1>0, <1>1, <2>1, <2>2 DEF RoundInv
<1>6. RoundInv'
  BY <1>1, <1>2, <1>4, <1>5 DEF RoundInv
<1> QED  BY <1>2, <1>3, <1>6 DEF AllIInv, ReduceIInv

\* A tree that no thread leads out of has every state that was found.
LEMMA TreeComplete == ASSUME IInv, TreeInv, pc = "serialize", \A t \in Threads : Saturated(t)
                      PROVE  DOMAIN level = vertices
<1> DEFINE L == DOMAIN level
<1>1. L \subseteq vertices /\ s0 \in L /\ vertices \subseteq States
  BY DEF TreeInv, IInv, TypeOK
<1>2. ASSUME NEW s \in L, NEW t \in Threads PROVE succ[s][t] \in L
  <2>1. Ran(s, t) /\ s \in States /\ succ[s][t] \in States
    BY <1>1, AllExpanded, Zenon DEF IInv, TypeOK
  <2>2. <<s, succ[s][t], t>> \in edges
    BY <2>1 DEF IInv, EdgeInv
  <2> QED  BY <2>2 DEF Saturated
<1>3. Closed(L) /\ L \in SUBSET States
  BY <1>1, <1>2 DEF Closed
<1>4. vertices \subseteq L
  BY <1>1, <1>3 DEF IInv, SoundInv, Reachable
<1> QED  BY <1>1, <1>4

\* A filter that nothing passes is one for edges to s0: every other state has
\* an edge in the tree.
LEMMA OthersInv == ASSUME AllIInv, Others PROVE AllIInv'
<1>0. RoundInv /\ LinesInv /\ TreeInv /\ IInv
  BY DEF AllIInv, ReduceIInv
<1>1. /\ Fixed /\ level' = level /\ leaf' = leaf /\ tree' = tree /\ rnd' = rnd /\ at' = at
      /\ updated' = updated /\ vpc = "others" /\ vpc' \in {"drawn", "raised"}
      /\ vpc' = "raised" => \E e \in Rest : To(e[1]) = {}
  BY Zenon DEF Others, Fixed, loopVars
<1>2. TreeInv' /\ \A t : Saturated(t)' <=> Saturated(t)
  BY <1>1, SameTree
<1>3. IInv' /\ LinesInv'
  BY <1>0, <1>1, FixedInv, Zenon DEF LinesInv
<1>4. /\ rnd \in Nat /\ updated \in Nat /\ at \in Nat \ {0}
      /\ \A t \in Threads : Saturated(t)
  BY <1>0, <1>1 DEF RoundInv
<1>5. ASSUME NEW e \in Rest, To(e[1]) = {} PROVE To(s0) = {}
  <2>1. e \in edges
    BY RoundTypes DEF Rest
  <2>2. e[1] \in DOMAIN level
    <3>1. e[1] \in vertices
      BY <1>0, <2>1 DEF IInv, EdgeInv, Ran
    <3> QED  BY <1>0, <1>1, <1>4, <3>1, TreeComplete DEF LinesInv
  <2>3. CASE e[1] # s0
    <3>1. PICK d \in tree : d[2] = e[1]
      BY <1>0, <2>2, <2>3 DEF TreeInv
    <3>2. PICK i \in 1..Len(lines) : lines[i] = d
      BY <1>0, <3>1, RoundTypes DEF TreeInv
    <3>3. i \in To(e[1])
      BY <3>1, <3>2 DEF To
    <3> QED  BY <1>5, <3>3
  <2> QED  BY <1>5, <2>3
<1>6. To(s0)' = To(s0)
  BY <1>1 DEF To, Fixed
<1>7. RoundInv'
  BY <1>1, <1>2, <1>4, <1>5, <1>6 DEF RoundInv
<1> QED  BY <1>2, <1>3, <1>7 DEF AllIInv, ReduceIInv

\* Every step of the pipe keeps the invariant.
LEMMA AllNextIInv == AllIInv /\ [AllNext]_all => AllIInv'
<1> SUFFICES ASSUME AllIInv, [AllNext]_all PROVE AllIInv'
  OBVIOUS
<1>1. CASE UNCHANGED all
  <2>1. /\ Fixed /\ level' = level /\ leaf' = leaf /\ tree' = tree /\ rnd' = rnd /\ at' = at
        /\ updated' = updated /\ vpc' = vpc /\ found' = found /\ lines' = lines
    BY <1>1 DEF all, Fixed, reduceVars, loopVars
  <2>2. TreeInv' /\ \A t : Saturated(t)' <=> Saturated(t)
    BY <2>1, SameTree
  <2>3. IInv' /\ LinesInv' /\ \A e : IsNew(e)' <=> IsNew(e)
    BY <2>1, FixedInv, Zenon DEF AllIInv, ReduceIInv, LinesInv, IsNew
  <2>4. RoundInv'
    BY <2>1, <2>2, <2>3, Zenon DEF AllIInv, ReduceIInv, RoundInv, To
  <2> QED  BY <2>2, <2>3, <2>4 DEF AllIInv, ReduceIInv
<1> QED  BY <1>1, ExploreIInv, StartsInv, LookInv, ExpandedInv, TreeDoneInv, OthersInv
         DEF AllNext, reduce, Drawn

\* The invariant of the pipe holds in every reachable state.
THEOREM VisualizeInvariant == AllSpec => []AllIInv
BY AllInitIInv, AllNextIInv, PTL DEF AllSpec

\* reduce() draws a tree of all states that were found, whatever the program
\* under check, and can only fail at an edge from s0.
THEOREM VisualizeTreeSpans == AllSpec => []TreeSpans
<1>1. ASSUME AllIInv, vpc \in {"others", "drawn", "raised"}
      PROVE  /\ DOMAIN level = vertices /\ level[s0] = 0
             /\ \A v \in vertices \ {s0} : Cardinality({e \in tree : e[2] = v}) = 1
             /\ \A e \in tree : e[2] # s0 /\ level[e[2]] = level[e[1]] + 1
             /\ \A v \in vertices : leaf[v] <=> \A e \in tree : e[1] # v
             /\ vpc = "raised" => To(s0) = {}
  <2>0. IInv /\ TreeInv /\ pc = "serialize" /\ \A t \in Threads : Saturated(t)
    BY <1>1, Zenon DEF AllIInv, ReduceIInv, LinesInv, RoundInv
  <2>1. DOMAIN level = vertices
    BY <2>0, TreeComplete
  <2>2. ASSUME NEW v \in vertices \ {s0} PROVE Cardinality({e \in tree : e[2] = v}) = 1
    <3>1. PICK d \in tree : d[2] = v
      BY <2>0, <2>1 DEF TreeInv
    <3>2. {e \in tree : e[2] = v} = {d}
      BY <2>0, <3>1 DEF TreeInv
    <3> QED  BY <3>2, FS_Singleton
  <2>3. vpc = "raised" => To(s0) = {}
    BY <1>1 DEF AllIInv, ReduceIInv, RoundInv
  <2> QED  BY <2>0, <2>1, <2>2, <2>3 DEF TreeInv
<1>2. AllIInv => TreeSpans
  BY <1>1 DEF TreeSpans
<1> QED  BY <1>2, VisualizeInvariant, PTL
=============================================================================
