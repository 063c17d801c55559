-------------------------- MODULE MCCacheGeneration --------------------------
EXTENDS CacheGeneration

CONSTANTS plain, wide, seeded, nomic, other

\* `plain` and `wide` ask for the same vectors, one request at a time and with
\* requests in flight; `seeded` uses another model and copies a prefix cache.
MCDataOf == [i \in Inputs |-> IF i = seeded THEN other ELSE nomic]
MCPrefixOf == [i \in Inputs |-> IF i = seeded THEN 2 ELSE 0]
=============================================================================
