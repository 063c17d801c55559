------------------------------ MODULE GraphBuild ------------------------------
(***************************************************************************)
(* From the graph that hnswlib built to the graph that is stored           *)
(* (Index::build between "extracting adjacency" and "quantizing"): the     *)
(* compact upper layers, the hubs, the pruned links, the reverse links and *)
(* the final cap.                                                          *)
(*                                                                         *)
(* hnswlib is a library: the graph it exports is a record                  *)
(*    base   node -> its neighbours on the base layer                      *)
(*    level  node -> its highest layer                                     *)
(*    upper  layer -> node of that layer -> its neighbours there           *)
(*    entry  a node of the highest layer                                   *)
(* and may be any such graph.  A node is its label, the position of its    *)
(* chunk in the corpus.  Embeddings are their distances: gap[a][b] orders  *)
(* the nodes as cosine_distance does, and equal embeddings have gap 0.     *)
(***************************************************************************)
EXTENDS Integers, FiniteSets, Sequences

CONSTANTS Size,         \* number of chunks
          GraphDegree,  \* config.graph_degree
          LowDegree,    \* config.low_degree
          HubShare      \* config.hub_ratio as a fraction <<numerator, denominator>>

\* validate_build_config, and a corpus is never empty.
ASSUME BuildAssumption ==
  /\ Size \in Nat \ {0}
  /\ GraphDegree \in Nat /\ GraphDegree >= 2
  /\ LowDegree \in 1..2 * GraphDegree
  /\ HubShare \in Nat \X (Nat \ {0}) /\ HubShare[1] <= HubShare[2]

Nodes == 0..Size - 1

MaximumDegree == 2 * GraphDegree

-----------------------------------------------------------------------------
\* Every sort of nodes here and in the search is by distance, then by id:
\* explicitly there, by a stable sort of sorted ids here.
Before(distance, a, b) ==
  \/ distance[a] < distance[b]
  \/ distance[a] = distance[b] /\ a < b

\* How many of S are nearer than a.
Rank(distance, S, a) == Cardinality({b \in S : Before(distance, b, a)})

\* The k nearest of S.
First(distance, S, k) == {a \in S : Rank(distance, S, a) < k}

\* S as a list, nearest first.
Sorted(distance, S) ==
  [i \in 1..Cardinality(S) |-> CHOOSE a \in S : Rank(distance, S, a) = i - 1]

Ceiling(numerator, denominator) == (numerator + denominator - 1) \div denominator

-----------------------------------------------------------------------------
\* No hub for a ratio of 0 and at least one for any other.
HubCount == Ceiling(HubShare[1] * Size, HubShare[2])

\* The nodes of highest degree in the exported graph, equal ones by id.
Hubs(base) ==
  First([n \in Nodes |-> -Cardinality(base[n])], Nodes, HubCount)

Cap(base, n) == IF n \in Hubs(base) THEN MaximumDegree ELSE LowDegree

\* The links a node keeps of its own.
Kept(base, gap, n) == First(gap[n], base[n], Cap(base, n)) \ {n}

\* Mutant of Linked: a link is stored at the node that kept it only.
LinkedOneWay(base, gap, n) == Kept(base, gap, n)

\* graph[n] before compaction: what n keeps and those who keep n.
Linked(base, gap, n) == Kept(base, gap, n) \cup {m \in Nodes : n \in Kept(base, gap, m)}

\* The stored list of n, nearest first.
Links(base, gap, n) ==
  Sorted(gap[n], First(gap[n], Linked(base, gap, n), MaximumDegree))

-----------------------------------------------------------------------------
\* Mutant of LayerNodes: a node is listed on its highest layer only.
LayerNodesTopOnly(graph, layer) == {n \in Nodes : graph.level[n] = layer}

\* A layer holds every node that reaches up to it.
LayerNodes(graph, layer) == {n \in Nodes : graph.level[n] >= layer}

UpperLayer(graph, layer) ==
  [n \in LayerNodes(graph, layer) |-> graph.upper[layer][n]]

MaximumLevel(graph) == graph.level[graph.entry]

\* What is written to the .leann file.
Built(graph, gap) ==
  [links  |-> [n \in Nodes |-> Links(graph.base, gap, n)],
   layers |-> [layer \in 1..MaximumLevel(graph) |-> UpperLayer(graph, layer)],
   entry  |-> graph.entry]

\* What hnswlib exports: every layer links its own nodes, and the entry point
\* reaches up to the highest layer.
Exported(graph) ==
  /\ graph.base \in [Nodes -> SUBSET Nodes]
  /\ graph.level \in [Nodes -> Nat]
  /\ graph.entry \in Nodes
  /\ \A n \in Nodes : graph.level[n] <= graph.level[graph.entry]
  /\ \A n \in Nodes : \A layer \in 1..graph.level[n] :
       graph.upper[layer][n] \subseteq {m \in Nodes : graph.level[m] >= layer}

-----------------------------------------------------------------------------
\* What Index::load accepts of the graph: every link ends at a node, upper
\* links at a node of the same layer, the entry point is on every layer.
\* That the layers are nested is not among its checks.
Acceptable(index) ==
  /\ index.entry \in Nodes
  /\ index.links \in [Nodes -> Seq(Nodes)]
  /\ DOMAIN index.layers = 1..Len(index.layers)
  /\ \A layer \in DOMAIN index.layers :
       /\ DOMAIN index.layers[layer] \in SUBSET Nodes
       /\ index.entry \in DOMAIN index.layers[layer]
       /\ \A n \in DOMAIN index.layers[layer] :
            index.layers[layer][n] \in SUBSET DOMAIN index.layers[layer]
=============================================================================
