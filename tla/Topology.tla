------------------------------ MODULE Topology ------------------------------
(***************************************************************************)
(* The typed topology: TopologyGraph, which the incident manager and the    *)
(* root-cause engine traverse, and TopologyView, which the cascade detector *)
(* builds from the same edges with a search of its own.                     *)
(*                                                                         *)
(* The edges of one relation type are a set of pairs <<source, target>>.    *)
(***************************************************************************)
EXTENDS Integers, Sequences, FiniteSets, FiniteSetsExt, SequencesExt

MaxHops == 2   \* topology_view.MAX_HOPS, INCIDENT_MAX_TOPOLOGY_HOPS

NoPath == -1   \* TopologyPathNotFoundError, or None

-----------------------------------------------------------------------------
(* TopologyGraph                                                           *)

ValidEdges(nodes, edges) ==
    \A e \in edges : e[1] \in nodes /\ e[2] \in nodes /\ e[1] # e[2]

RelationGraph(edges, direction) ==
    IF direction = "forward" THEN edges ELSE {<<e[2], e[1]>> : e \in edges}

Successors(edges, x) == {e[2] : e \in {d \in edges : d[1] = x}}

(* The nodes at most n edges away from x.                                  *)
Ball(edges, x, n) ==
    LET ball[k \in 0..n] ==
            IF k = 0 THEN {x}
            ELSE ball[k - 1] \cup
                    UNION {Successors(edges, y) : y \in ball[k - 1]}
    IN ball[n]

TopologyDistance(nodes, edges, source, target) ==
    LET reached == {n \in 0..Cardinality(nodes) :
                        target \in Ball(edges, source, n)}
    IN IF reached = {} THEN NoPath ELSE Min(reached)

GetNeighbors(edges, x, hops) == Ball(edges, x, hops) \ {x}

(* IncidentManager._traffic_distance: too far is as good as no path.        *)
TrafficDistance(nodes, edges, source, target) ==
    LET distance == TopologyDistance(nodes, edges, source, target)
    IN IF distance > MaxHops THEN NoPath ELSE distance

-----------------------------------------------------------------------------
(* TopologyView.distance: breadth-first search with a queue of (entity,    *)
(* hops), cut off at MaxHops.                                              *)

Search(source) ==
    [queue |-> <<[at |-> source, hops |-> 0]>>, visited |-> {source},
     answer |-> NoPath]

(* Fault: the hop limit is checked one step too late.                       *)
ExpandBeyond(edges, target, s) ==
    LET head == Head(s.queue)
        next == Successors(edges, head.at)
        new  == SetToSeq(next \ s.visited)
    IN IF head.hops > MaxHops THEN [s EXCEPT !.queue = Tail(@)]
       ELSE IF target \in next THEN [s EXCEPT !.answer = head.hops + 1]
       ELSE [s EXCEPT !.visited = @ \cup next,
                      !.queue = Tail(@) \o
                         [k \in DOMAIN new |->
                             [at |-> new[k], hops |-> head.hops + 1]]]

Expand(edges, target, s) ==
    LET head == Head(s.queue)
        next == Successors(edges, head.at)
        new  == SetToSeq(next \ s.visited)
    IN IF head.hops >= MaxHops THEN [s EXCEPT !.queue = Tail(@)]
       ELSE IF target \in next THEN [s EXCEPT !.answer = head.hops + 1]
       ELSE [s EXCEPT !.visited = @ \cup next,
                      !.queue = Tail(@) \o
                         [k \in DOMAIN new |->
                             [at |-> new[k], hops |-> head.hops + 1]]]

ViewDistance(nodes, edges, source, target) ==
    LET run[k \in 0..Cardinality(nodes)] ==
            IF k = 0 THEN Search(source)
            ELSE LET s == run[k - 1] IN
                 IF s.queue = << >> \/ s.answer # NoPath THEN s
                 ELSE Expand(edges, target, s)
    IN IF source = target THEN 0 ELSE run[Cardinality(nodes)].answer

-----------------------------------------------------------------------------
(* The reference: a path is a sequence of nodes along edges, and the        *)
(* distance the length of a shortest one.                                  *)
Paths(nodes, edges, source, target, n) ==
    {p \in [0..n -> nodes] :
        /\ p[0] = source /\ p[n] = target
        /\ \A k \in 1..n : <<p[k - 1], p[k]>> \in edges}

IsDistance(nodes, edges, source, target, d) ==
    /\ d # NoPath => Paths(nodes, edges, source, target, d) # {}
    /\ \A n \in 0..Cardinality(nodes) - 1 :
          n < d \/ d = NoPath => Paths(nodes, edges, source, target, n) = {}

(* The cascade detector and the incident manager agree on what is near: both *)
(* searches give the length of a shortest path of at most MaxHops edges,    *)
(* whatever cycles and shortcuts the edges form.                            *)
DistancesAgree(nodes, edges) ==
    \A x, y \in nodes :
        LET d == TopologyDistance(nodes, edges, x, y) IN
        /\ IsDistance(nodes, edges, x, y, d)
        /\ ViewDistance(nodes, edges, x, y) = TrafficDistance(nodes, edges, x, y)

(* Who is downstream forward is upstream in reverse: a blast radius and the *)
(* dependency paths that explain it are two views of one relation.         *)
BlastRadiusIsSymmetric(nodes, edges) ==
    \A x, y \in nodes : \A hops \in 1..MaxHops :
        y \in GetNeighbors(RelationGraph(edges, "reverse"), x, hops)
            <=> x \in GetNeighbors(RelationGraph(edges, "forward"), y, hops)
=============================================================================
