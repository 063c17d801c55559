-------------------------------- MODULE Search --------------------------------
(***************************************************************************)
(* Index::search and Index::search_embedding: one query against one index. *)
(* Approximate distances route it down the upper layers and fill a bounded *)
(* shortlist, by a scan of all codes or by a best-first beam over the      *)
(* stored graph; the best of the shortlist are then embedded again in      *)
(* batches and ranked by their exact distance.                             *)
(*                                                                         *)
(* Sessions and the files under them are the subject of Reader; here the   *)
(* pair is loaded and valid.  A heap of (distance, id) pairs is a set of   *)
(* nodes, because a node is pushed once and its distance does not change.  *)
(***************************************************************************)
EXTENDS GraphBuild

CONSTANTS Corpora,  \* what there is to build from: [graph, gap]
          Foreign,  \* indexes of other origin that Index::load accepts
          Queries,  \* [approx, exact]: the distance of every node, both ways
          Configs,  \* SearchConfig, its rerank_ratio a fraction `ratio'
          None

ASSUME SearchAssumption ==
  /\ \A c \in Corpora : Exported(c.graph) /\ c.gap \in [Nodes -> [Nodes -> Nat]]
  /\ \A i \in Foreign : Acceptable(i)
  /\ Queries \subseteq [approx : [Nodes -> Nat], exact : [Nodes -> Nat]]
  /\ Configs \subseteq [top_k : Nat, ef_search : Nat, batch : Nat,
                        scan_limit : Nat, ratio : Nat \X (Nat \ {0})]
  /\ None \notin Corpora /\ None \notin Nodes

VARIABLES
  \* inputs, which no step changes
  corpus,      \* what the index was built from, None for a foreign one
  index, query, config,
  \* the search
  pc, layer, routed,
  visited, frontier, shortlist,
  current,     \* the node whose links the inner loop is at
  next,        \* position of that loop, or the node the scan is at
  expanded,    \* the nodes that metrics.expanded_nodes counts
  candidates,  \* those not recomputed yet
  ranked       \* those recomputed; in the end the answer

inputs == <<corpus, index, query, config>>
vars   == <<inputs, pc, layer, routed, visited, frontier, shortlist, current,
            next, expanded, candidates, ranked>>

Init ==
  /\ \/ corpus \in Corpora /\ index = Built(corpus.graph, corpus.gap)
     \/ corpus = None /\ index \in Foreign
  /\ query \in Queries
  /\ config \in Configs
  /\ pc = "validate" /\ layer = 0 /\ routed = index.entry
  /\ visited = {} /\ frontier = {} /\ shortlist = {}
  /\ current = None /\ next = 0 /\ expanded = {}
  /\ candidates = {} /\ ranked = {}

-----------------------------------------------------------------------------
Nearer(a, b) == Before(query.approx, a, b)

ExactBudget == IF config.ef_search < Size THEN config.ef_search ELSE Size

\* The length of the shortlist: exact_budget / rerank_ratio, at most the
\* index and, for a ratio of at most 1, at least exact_budget.
Beam ==
  IF ExactBudget * config.ratio[2] >= Size * config.ratio[1] THEN Size
  ELSE Ceiling(ExactBudget * config.ratio[2], config.ratio[1])

Scans == config.scan_limit > 0 /\ Size <= config.scan_limit

ValidConfig ==
  /\ config.top_k > 0 /\ config.ef_search >= config.top_k
  /\ config.batch > 0
  /\ config.ratio[1] > 0 /\ config.ratio[1] <= config.ratio[2]

Goto(from, to) == pc = from /\ pc' = to

\* The pair and the fingerprint are checked with the configuration; they are
\* valid here.
Validate ==
  /\ Goto("validate", IF ValidConfig THEN "embed" ELSE "rejected")
  /\ UNCHANGED <<inputs, layer, routed, visited, frontier, shortlist, current,
                 next, expanded, candidates, ranked>>

EmbedQuery ==
  /\ Goto("embed", "route")
  /\ layer' = Len(index.layers)
  /\ UNCHANGED <<inputs, routed, visited, frontier, shortlist, current, next,
                 expanded, candidates, ranked>>

\* The embedder throws or returns what does not validate, or a chunk cannot
\* be read: nothing is returned.
Throw ==
  /\ \/ Goto("embed", "failed")
     \/ candidates # {} /\ Goto("recompute", "failed")
  /\ UNCHANGED <<inputs, layer, routed, visited, frontier, shortlist, current,
                 next, expanded, candidates, ranked>>

-----------------------------------------------------------------------------
\* Mutant of Hop: a neighbour as near as the node is taken as better.
HopOnTies ==
  /\ pc = "route" /\ layer > 0
  /\ routed \in DOMAIN index.layers[layer]
  /\ \E best \in index.layers[layer][routed] :
       /\ query.approx[best] <= query.approx[routed]
       /\ \A other \in index.layers[layer][routed] : ~Nearer(other, best)
       /\ routed' = best
  /\ UNCHANGED <<inputs, pc, layer, visited, frontier, shortlist, current, next,
                 expanded, candidates, ranked>>

\* One round of the greedy descent: the best neighbour on this layer, if it
\* is better than the node itself.
Hop ==
  /\ pc = "route" /\ layer > 0
  /\ routed \in DOMAIN index.layers[layer]
  /\ \E best \in index.layers[layer][routed] :
       /\ Nearer(best, routed)
       /\ \A other \in index.layers[layer][routed] : ~Nearer(other, best)
       /\ routed' = best
  /\ UNCHANGED <<inputs, pc, layer, visited, frontier, shortlist, current, next,
                 expanded, candidates, ranked>>

Descend ==
  /\ pc = "route" /\ layer > 0
  /\ routed \in DOMAIN index.layers[layer]
  /\ \A other \in index.layers[layer][routed] : ~Nearer(other, routed)
  /\ layer' = layer - 1
  /\ UNCHANGED <<inputs, pc, routed, visited, frontier, shortlist, current, next,
                 expanded, candidates, ranked>>

\* "upper-layer route does not contain its entry node"
LoseRoute ==
  /\ Goto("route", "lost")
  /\ layer > 0 /\ routed \notin DOMAIN index.layers[layer]
  /\ UNCHANGED <<inputs, layer, routed, visited, frontier, shortlist, current,
                 next, expanded, candidates, ranked>>

\* The routed entry is the first of the beam; the scan takes it out again.
Enter ==
  /\ layer = 0
  /\ Goto("route", IF Scans THEN "scan" ELSE "beam")
  /\ visited' = {routed}
  /\ frontier' = {routed}
  /\ shortlist' = IF Scans THEN {} ELSE {routed}
  /\ UNCHANGED <<inputs, layer, routed, current, next, expanded, candidates,
                 ranked>>

-----------------------------------------------------------------------------
Farthest(S) == {a \in S : \A b \in S : ~Nearer(a, b)}

\* Mutant of Offered: the node that was one too many is the one popped.
OfferedUnlessFull(n) ==
  IF Cardinality(shortlist) >= Beam THEN shortlist ELSE shortlist \cup {n}

\* The shortlist after n is pushed and, if that is one too many, the
\* farthest popped.
Offered(n) ==
  LET S == shortlist \cup {n}
  IN IF Cardinality(S) > Beam THEN S \ Farthest(S) ELSE S

ScanNode ==
  /\ pc = "scan" /\ next < Size
  /\ shortlist' = Offered(next)
  /\ next' = next + 1
  /\ UNCHANGED <<inputs, pc, layer, routed, visited, frontier, current, expanded,
                 candidates, ranked>>

Full == Cardinality(shortlist) >= Beam

\* Mutant of Hopeless: a node as near as some of the shortlist is given up.
HopelessEarly(n) == Full /\ \E s \in shortlist : Nearer(s, n)

\* No node that is left can be better than the shortlist.
Hopeless(n) == Full /\ \A s \in shortlist : Nearer(s, n)

NearestInFrontier(n) == n \in frontier /\ \A m \in frontier : ~Nearer(m, n)

Expand ==
  /\ \E n \in frontier :
       /\ NearestInFrontier(n)
       /\ ~Hopeless(n)
       /\ current' = n
       /\ frontier' = frontier \ {n}
       /\ expanded' = expanded \cup {n}
  /\ next' = 1
  /\ Goto("beam", "links")
  /\ UNCHANGED <<inputs, layer, routed, visited, shortlist, candidates, ranked>>

\* Mutant of Competitive: a tie with the farthest is not settled by id.
CompetitiveStrict(n) ==
  ~Full \/ \E s \in shortlist : query.approx[n] < query.approx[s]

Competitive(n) == ~Full \/ \E s \in shortlist : Nearer(n, s)

\* One link of the inner loop.
VisitLink ==
  /\ pc = "links" /\ next <= Len(index.links[current])
  /\ LET n == index.links[current][next]
     IN IF n \notin visited /\ Competitive(n)
        THEN frontier' = frontier \cup {n} /\ shortlist' = Offered(n)
        ELSE UNCHANGED <<frontier, shortlist>>
  /\ visited' = visited \cup {index.links[current][next]}
  /\ next' = next + 1
  /\ UNCHANGED <<inputs, pc, layer, routed, current, expanded, candidates, ranked>>

LinksDone ==
  /\ Goto("links", "beam")
  /\ next > Len(index.links[current])
  /\ UNCHANGED <<inputs, layer, routed, visited, frontier, shortlist, current,
                 next, expanded, candidates, ranked>>

-----------------------------------------------------------------------------
\* The scan or the beam is over; the best of the shortlist are recomputed.
Choose ==
  /\ \/ pc = "scan" /\ next = Size
     \/ pc = "beam" /\ \A n \in frontier : NearestInFrontier(n) => Hopeless(n)
  /\ pc' = "recompute"
  /\ candidates' = First(query.approx, shortlist, ExactBudget)
  /\ UNCHANGED <<inputs, layer, routed, visited, frontier, shortlist, current,
                 next, expanded, ranked>>

\* One batch, nearest first: its chunks are read and embedded again.
Recompute ==
  /\ pc = "recompute" /\ candidates # {}
  /\ LET batch == First(query.approx, candidates, config.batch)
     IN /\ candidates' = candidates \ batch
        /\ ranked' = ranked \cup batch
  /\ UNCHANGED <<inputs, pc, layer, routed, visited, frontier, shortlist, current,
                 next, expanded>>

Answer ==
  /\ candidates = {}
  /\ Goto("recompute", "answered")
  /\ ranked' = First(query.exact, ranked, config.top_k)
  /\ UNCHANGED <<inputs, layer, routed, visited, frontier, shortlist, current,
                 next, expanded, candidates>>

Next ==
  \/ Validate \/ EmbedQuery \/ Throw
  \/ Hop \/ Descend \/ LoseRoute \/ Enter
  \/ ScanNode \/ Expand \/ VisitLink \/ LinksDone
  \/ Choose \/ Recompute \/ Answer

Final == {"rejected", "failed", "lost", "answered"}

\* A search ends by itself; that is not a deadlock.
Done == pc \in Final /\ UNCHANGED vars

\* A search is one call on one thread.
Spec == Init /\ [][Next \/ Done]_vars /\ WF_vars(Next)

-----------------------------------------------------------------------------
Searching == pc \in {"scan", "beam", "links", "recompute", "answered"}

\* The types; the shortlist never outgrows the beam.
SearchTypeOK ==
  /\ \/ corpus \in Corpora /\ index = Built(corpus.graph, corpus.gap)
     \/ corpus = None /\ index \in Foreign
  /\ query \in Queries /\ config \in Configs
  /\ pc \in Final \cup {"validate", "embed", "route", "scan", "beam", "links",
                       "recompute"}
  /\ layer \in 0..Len(index.layers) /\ routed \in Nodes
  /\ visited \subseteq Nodes /\ frontier \subseteq Nodes
  /\ shortlist \subseteq Nodes /\ Cardinality(shortlist) <= Beam
  /\ current \in Nodes \cup {None} /\ next \in Nat
  /\ expanded \subseteq Nodes /\ candidates \subseteq Nodes /\ ranked \subseteq Nodes

\* The nodes whose approximate distance the scan or the beam has taken.
Considered == IF Scans THEN {n \in Nodes : n < next} ELSE visited

\* At every point of the scan or the beam the shortlist is the best of what
\* was considered: nothing is left out before the shortlist is full, and
\* nothing nearer than any of its members, ties going to the smaller id,
\* however pushes and pops alternate (index.cpp:1150-1206).
ShortlistIsBest ==
  Searching =>
    /\ shortlist \subseteq Considered
    /\ \A n \in Considered \ shortlist : Full /\ \A s \in shortlist : Nearer(s, n)

Targets(n) == {index.links[n][i] : i \in DOMAIN index.links[n]}

\* The beam stops no earlier than its graph allows (index.cpp:1166-1174): no
\* link of a shortlisted node leads to a node that belongs on the shortlist
\* and is not there.
LocallyBest ==
  pc \in {"recompute", "answered"} /\ ~Scans =>
    \A s \in shortlist : \A n \in Targets(s) \ shortlist :
      \A t \in shortlist : Nearer(t, n)

Closed(S) == \A n \in S : Targets(n) \subseteq S

\* What the stored links lead to from the routed entry.
Reachable == {n \in Nodes : \A S \in SUBSET Nodes : routed \in S /\ Closed(S) => n \in S}

\* With a beam as long as the index, which a small rerank_ratio or a large
\* ef_search gives, the beam finds everything its graph leads to.
FindsReachable ==
  pc \in {"recompute", "answered"} /\ ~Scans /\ Beam = Size => Reachable \subseteq shortlist

\* The answer, said without budgets, batches and heaps: of the shortlist the
\* nearest by code, as many as "exact_recomputations <= min(ef_search, N)"
\* (DESIGN.md:188) allows, and of those the top_k by exact distance.  In the scan
\* mode (DESIGN.md:52) neither graph nor routing has a say: the shortlist is the
\* whole corpus.
AnswerIsReference ==
  pc = "answered" =>
    LET read == IF Scans THEN Nodes ELSE shortlist
    IN  ranked = First(query.exact, First(query.approx, read, ExactBudget), config.top_k)

\* An index that Index::build wrote passes the checks of Index::load and never
\* loses the route, on whatever layers its nodes end (index.cpp:530, 917-929
\* and 1107); only files of other origin can.
RouteNeverLost == corpus # None => Acceptable(index) /\ pc # "lost"

\* Pruning takes one direction of a link away only at a node whose list is
\* full of nearer ones (index.cpp:591-629).
OneWayOnlyWhenFull ==
  corpus # None =>
    \A a, b \in Nodes :
      a \in Targets(b) /\ b \notin Targets(a) =>
        /\ Cardinality(Targets(a)) = MaximumDegree
        /\ \A c \in Targets(a) : Before(corpus.gap[a], c, b)

\* Every search ends: the descent cannot go round in a circle of equal
\* distances, and the beam not in the graph.
SearchEnds == <>(pc \in Final)
=============================================================================
