------------------------------- MODULE MCSearch -------------------------------
EXTENDS Search

MCHubShare == <<1, 4>>

\* Chunks on a line, two of them equal: the distance is a difference.
Place == <<0, 1, 3, 3, 4, 6>>
MCGap == [a \in Nodes |-> [b \in Nodes |->
            IF a < b THEN Place[b + 1] - Place[a + 1] ELSE Place[a + 1] - Place[b + 1]]]

Pairs(edges) == [n \in Nodes |-> {m \in Nodes : <<n, m>> \in edges \/ <<m, n>> \in edges}]

\* A star, whose centre overflows; a chain, which pruning cuts; two parts; and
\* links in one direction only.
Star   == Pairs({<<2, n>> : n \in Nodes \ {2}})
Chain  == Pairs({<<0, 3>>, <<3, 1>>, <<1, 4>>, <<4, 2>>, <<2, 5>>, <<3, 4>>})
Parts  == Pairs({<<0, 1>>, <<1, 2>>, <<3, 4>>, <<4, 5>>, <<3, 5>>})
OneWay == [n \in Nodes |-> {(n + 1) % Size, (n + 3) % Size}]

\* The exported graphs: three layers with the entry on top, or one.
Tall(base) ==
  [base  |-> base,
   level |-> [n \in Nodes |-> CASE n = 4 -> 2 [] n \in {1, 2, 5} -> 1 [] OTHER -> 0],
   upper |-> <<[n \in {1, 2, 4, 5} |-> CASE n = 1 -> {2} [] n = 2 -> {1, 5}
                                       [] n = 4 -> {1, 5} [] n = 5 -> {2, 4}],
               [n \in {4} |-> {}]>>,
   entry |-> 4]
Flat(base) == [base |-> base, level |-> [n \in Nodes |-> 0], upper |-> <<>>, entry |-> 1]

MCCorpora ==
  {[graph |-> Tall(base), gap |-> MCGap] : base \in {Star, Chain, Parts, OneWay}}
    \cup {[graph |-> Flat(base), gap |-> MCGap] : base \in {Star, OneWay}}

\* Acceptable, but the second layer is not within the first.
MCForeign ==
  {[links |-> [n \in Nodes |-> <<(n + 1) % Size>>],
    layers |-> <<[n \in {0} |-> {}], [n \in {0, 3} |-> {0, 3} \ {n}]>>,
    entry |-> 0]}

\* Distances in many orders, without and with ties; codes and texts agree or not.
MCQueries ==
  {[approx |-> [n \in Nodes |-> ((a * n + b) % 7) \div d],
    exact  |-> [n \in Nodes |-> (c * n + b) % 7]] :
      a \in 1..6, b \in {0, 2, 5}, c \in {1, 3}, d \in 1..3}

Search(k, ef, batch, scan, ratio) ==
  [top_k |-> k, ef_search |-> ef, batch |-> batch, scan_limit |-> scan, ratio |-> ratio]

\* Beams of 2, 3 and 4, a beam of the whole index from either side, both sides
\* of the scan limit, and configurations that are refused.
MCConfigs ==
  {Search(1, 2, 1, 0, <<1, 1>>), Search(2, 2, 3, 5, <<2, 3>>), Search(1, 1, 1, 0, <<1, 4>>),
   Search(2, 3, 2, 0, <<1, 2>>), Search(3, 9, 4, 0, <<1, 1>>),
   Search(2, 3, 2, 6, <<3, 4>>), Search(2, 2, 2, 7, <<1, 4>>),
   Search(3, 2, 1, 0, <<1, 1>>), Search(1, 1, 0, 0, <<1, 1>>)}
===============================================================================
