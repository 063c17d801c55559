------------------------ MODULE MCEvidenceCollection ------------------------
EXTENDS EvidenceCollection

MCDeclared == [t \in Tiers |-> IF t = "100k" THEN 3 ELSE 4]
MCEfs      == {32, 64}
MCConfigs  == {<<32, 0>>, <<64, 0>>}
\* Index a2 was built again: the same sizes, other bytes.
MCStorage  == [i \in {"a", "a2", "o", "o2", "A", "O"} |->
                 IF i \in {"a", "a2"} THEN 1 ELSE IF i \in {"o", "o2"} THEN 2
                 ELSE IF i = "A" THEN 3 ELSE 4]

Small == [vectors |-> <<1, 2, 3>>, truth |-> {0, 1}, model |-> "gguf"]
Large == [vectors |-> <<1, 2, 3, 4>>, truth |-> {0, 3}, model |-> "gguf"]

\* Two repetitions of every search, one of every build.
Run(index, asked, ids(_)) ==
  [present |-> TRUE, complete |-> TRUE, asked |-> asked,
   measurements |-> [i \in 1 .. IF asked = {} THEN 1 ELSE 2 |->
     [index |-> index,
      points |-> [c \in asked |-> [ids |-> ids(c), candidates |-> c[1]]]]]]

Manifest(shared, roles, stages) ==
  [shared |-> shared, roles |-> roles, stages |-> stages, reuse |-> None,
   complete |-> TRUE, context |-> "host", binary |-> "leann", builds |-> 1, searches |-> 2]

NoIds(c) == {}
\* ef_search and complexity 64 find all of the truth, 32 one row of it.
Good(c)  == IF c[1] = 64 THEN {0, 1} ELSE {0, 2}
Weak(c)  == {0, 2}
\* As good as Good, by other rows.
Other(c) == IF c[1] = 64 THEN {0, 1} ELSE {1, 2}
GoodL(c) == IF c[1] = 64 THEN {0, 3} ELSE {0, 2}

NativeBatch(index, efs, ids(_), batch) ==
  [n \in {<<"native-build", 0>>, <<"native-stats", 0>>}
         \cup {<<"native-search", ef>> : ef \in efs} |->
     Run(index, IF n[1] = "native-search" THEN {<<n[2], batch>>} ELSE {}, ids)]
NativeStages(index, efs, ids(_)) == NativeBatch(index, efs, ids, 16)

OfficialStages(index, search, asked, ids(_)) ==
  [n \in {<<"official-build", 0>>, <<search, 0>>} |->
     Run(index, IF n[1] = search THEN asked ELSE {}, ids)]

Reuse(shared, source, index, asked, ids(_)) ==
  [Manifest(shared, {"official-real-search-reuse"},
            [n \in {<<"official-search-real", 0>>} |-> Run(index, asked, ids)])
     EXCEPT !.reuse = [source |-> source, index |-> index, storage |-> MCStorage[index]]]

Sweep == {"native-sweep"}
Cached == "official-search-cached"

MCManifests == [
  n      |-> Manifest(Small, Sweep, NativeStages("a", {32, 64}, Good)),
  n32    |-> Manifest(Small, Sweep, NativeStages("a", {32}, Good)),
  n64    |-> Manifest(Small, Sweep, NativeStages("a2", {64}, Good)),
  weak   |-> Manifest(Small, Sweep, NativeStages("a", {32, 64}, Weak)),
  gate   |-> Manifest(Small, {"native-gate"}, NativeStages("a2", {32}, Good)),
  lost   |-> [Manifest(Small, Sweep, NativeStages("a", {32, 64}, Good))
                EXCEPT !.stages[<<"native-stats", 0>>].present = FALSE],
  stale  |-> [Manifest(Small, Sweep, NativeStages("a", {32, 64}, Good)) EXCEPT !.searches = 1],
  cached |-> Manifest(Small, {"official-cached-sweep"},
                      OfficialStages("o", Cached, MCConfigs, Good)),
  reuse  |-> Reuse(Small, "cached", "o", MCConfigs, Good),
  other  |-> Reuse(Small, "cached", "o", MCConfigs, Other),
  real   |-> Manifest(Small, {"official-real-run"},
                      OfficialStages("o2", "official-search-real", {<<64, 0>>}, Good)),
  L      |-> Manifest(Large, Sweep, NativeStages("A", {32, 64}, GoodL)),
  LC     |-> Manifest(Large, {"official-cached-sweep"},
                      OfficialStages("O", Cached, MCConfigs, GoodL)),
  LR     |-> Reuse(Large, "LC", "O", {<<64, 0>>}, GoodL),
  running |-> [Manifest(Small, Sweep, NativeStages("a", {32, 64}, Good))
                EXCEPT !.complete = FALSE],
  cut    |-> [Manifest(Small, {"official-cached-sweep"},
                       OfficialStages("o", Cached, MCConfigs, Good))
                EXCEPT !.stages[<<Cached, 0>>].complete = FALSE],
  small  |-> Manifest(Small, Sweep, NativeBatch("a", {32, 64}, Good, 8)),
  idle   |-> [Manifest(Small, Sweep, NativeStages("a", {32, 64}, Good))
                EXCEPT !.stages[<<"native-search", 64>>].measurements =
                  [i \in 1 .. 2 |-> [index |-> "a", points |->
                     [c \in {<<64, 16>>} |-> [ids |-> Good(c), candidates |-> 0]]]]],
  both   |-> Manifest(Small, {"native-gate", "official-cached-sweep"},
                      NativeStages("a", {32, 64}, Good)
                        @@ OfficialStages("o", Cached, MCConfigs, Good))]

LargeSpecs == [tier : {"1m"}, path : {"L", "LC", "LR"}]
SmallSpecs == [tier : {"100k"}, path : {"n", "n32", "n64", "weak", "gate", "lost", "stale",
                                        "cached", "reuse", "other", "real"}]

OfSmall(paths) == [tier : {"100k"}, path : paths]

\* Publication: the larger tier is complete, the smaller is any choice of runs.
\* The second choice is of a gate in a combined run, a stage cut off before it
\* was complete, another native batch and searches that recompute nothing; the
\* third leaves out proofs.  Diagnosis: a few manifests, whatever is missing.
MCOptions ==
  [specs : {LargeSpecs \cup s : s \in SUBSET SmallSpecs}
           \cup {LargeSpecs \cup OfSmall({"running", "cached", "reuse"})}
           \cup {LargeSpecs \cup OfSmall(p) :
                   p \in SUBSET {"n", "small", "idle", "both", "cut", "cached", "real"}},
   parity : {Tiers}, attested : {Tiers}, allowIncomplete : {FALSE}]
  \cup [specs : {LargeSpecs \cup OfSmall({"n", "cached", "reuse"})},
        parity : SUBSET Tiers, attested : SUBSET Tiers, allowIncomplete : {FALSE}]
  \cup [specs : {OfSmall(p) :
                   p \in {{"gate"}, {"gate", "lost"}, {"stale"}, {"n64", "cached", "other"},
                         {"real"}, {"n", "n32"}, {"n", "small"}, {"both", "cut"}}}
                \cup {[tier : {"1m"}, path : {"n"}]},
        parity : {{}}, attested : {{}}, allowIncomplete : {TRUE}]

\* Publication with a gate that also ran the cached sweep.
GateOptions ==
  [specs : {LargeSpecs \cup OfSmall({"both", "real"})},
   parity : {Tiers}, attested : {Tiers}, allowIncomplete : {FALSE}]

MCSymmetry == Permutations(Collectors)
=============================================================================
