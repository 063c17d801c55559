------------------------ MODULE MCDatasetPreparation ------------------------
EXTENDS DatasetPreparation

CONSTANTS first, second, third

\* Four documents with every way of sharing texts, two queries, of which the
\* first has up to two positives; a positive and a query may be missing.
MCDocs == 1 .. 4
MCTexts == {t \in [MCDocs -> MCDocs] :
              \A d \in MCDocs : t[d] <= d /\ t[t[d]] = t[d]}
MCSources ==
  [docs : {MCDocs}, text : MCTexts, queries : {1 .. 2},
   relevant : {(1 :> p @@ 2 :> q) : p \in {{}, {2}, {3}, {1, 2}, {3, 4}}, q \in {{}, {4}}}]
  \cup [docs : {2 .. 4}, text : {[d \in MCDocs |-> d]}, queries : {{1}, {1, 2}},
        relevant : {(1 :> p @@ 2 :> q) : p \in {{1}, {2}}, q \in {{}, {4}}}]

\* Runs that agree on nothing but the output; the seeds rank differently,
\* one with a tie.
MCRank == ("a" :> <<1, 2, 3, 4>>) @@ ("b" :> <<3, 3, 1, 2>>)
MCOptions ==
  (first :> [from |-> "download", seed |-> "a", queries |-> 1, small |-> 2, large |-> 3])
  @@ (second :> [from |-> "archive", seed |-> "b", queries |-> 2, small |-> 2, large |-> 3])
  @@ (third :> [from |-> "directory", seed |-> "a", queries |-> 1, small |-> 1, large |-> 3])
=============================================================================
