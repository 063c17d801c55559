----------------------- MODULE MCEndpointAttestation -----------------------
EXTENDS EndpointAttestation

MCSymmetry == Permutations(Models)
MCLimit == [servers |-> 2, models |-> 1, deletions |-> 1]
MCUnseeded == {"100k"}
MCCount == [t \in Tiers |-> IF t = "100k" THEN 1 ELSE 3]
\* Of rows 1 and 2, equal and longest, the earlier is kept.
MCSize == [r \in 0 .. 2 |-> IF r \in {1, 2} THEN 3 ELSE 2]
MCWanted == {[spaced |-> 1, longest |-> 1, truncated |-> {}],
             [spaced |-> 2, longest |-> 0, truncated |-> {1}]}

\* A capture whose process was not found is followed in a quiet world: of what it
\* reports nothing is stated.
MCFollowed ==
  \/ ~ \/ cap # None /\ cap.at \in {"artifact", "process2", "again"} /\ cap.process = None
       \/ report # None /\ report.process = None
  \/ spent = [servers |-> 1, models |-> 0, deletions |-> 0]
=============================================================================
