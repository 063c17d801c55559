--------------------------- MODULE MCOrchestration ---------------------------
EXTENDS Orchestration

CONSTANTS nomic, other

\* Another model and another top-k for the first one.
MCSettings == {[model |-> nomic, k |-> 10], [model |-> other, k |-> 10],
               [model |-> nomic, k |-> 3]}
MCStages == <<"native-build", "native-stats", "native-search">>
MCWanted == [st \in Range(MCStages) |-> IF st = "native-stats" THEN 1 ELSE 2]
=============================================================================
