------------------------- MODULE EvidenceCollection -------------------------
(***************************************************************************)
(* scripts/collect_large_scale_results.py: benchmark manifests become one   *)
(* report of points, builds and matched comparisons, and the report three   *)
(* files and a commit file.  Collecting only reads, so what the collector   *)
(* makes of a command line is an operator, Collect; where the code raises   *)
(* CollectionError it is None.  Writing is a state machine: several         *)
(* collectors, each of which may fail or be killed anywhere, share a prefix.*)
(*                                                                         *)
(* A path stands for the digest of the manifest there.  Records whose       *)
(* digests, schemas and recorded commands do not agree are left out: the    *)
(* code refuses each of them before it uses it.                             *)
(***************************************************************************)
EXTENDS Integers, FiniteSets, SequencesExt

CONSTANTS
  Manifests,   \* path -> a manifest, with its stage files
  Options,     \* the command lines: [specs, parity, attested, allowIncomplete]
  Declared,    \* tier -> the rows of its corpus
  Efs,         \* --required-native-ef
  Configs,     \* the required <<complexity, batch size>>
  MinReal,     \* --minimum-real-points
  MinRecall,   \* --minimum-matched-recall, in hits among TopK
  Tolerance,   \* --recall-match-tolerance, likewise
  TopK,        \* the width of the ground truth
  StorageOf,   \* artifact set -> the sizes of its files
  Collectors, None

Tiers    == {"100k", "1m"}
Profiles == {"native", "official-cached", "official-real"}

ASSUME CollectionAssumption ==
  /\ Declared \in [Tiers -> Nat \ {0}]
  /\ \A o \in Options :
       /\ o.specs \subseteq [tier : Tiers, path : DOMAIN Manifests]
       /\ IsFiniteSet(o.specs)
       /\ o.parity \subseteq Tiers /\ o.attested \subseteq Tiers
  /\ MinReal \in Nat \ {0} /\ TopK \in Nat \ {0}
  /\ MinRecall \in Nat /\ Tolerance \in Nat

\* What a stage may be: a native search is named by the ef it was asked for, with
\* the recompute batch of its run; of every other kind there is one stage.
ASSUME ManifestsAssumption ==
  \A path \in DOMAIN Manifests :
    LET m == Manifests[path] IN
    /\ m.searches \in Nat
    /\ IsFiniteSet(m.shared.truth) /\ IsFiniteSet(DOMAIN m.stages)
    /\ \A n \in DOMAIN m.stages :
         LET asked == m.stages[n].asked
             runs  == m.stages[n].measurements
         IN  /\ n = <<n[1], n[2]>> /\ n[2] \in Nat
             /\ IF n[1] = "native-search"
                  THEN \E c \in asked : asked = {c} /\ c[1] = n[2] ELSE n[2] = 0
             /\ IsFiniteSet(asked) /\ asked \subseteq Nat \X Nat
             /\ Len(runs) \in Nat /\ DOMAIN runs = 1 .. Len(runs)
             /\ \A i \in DOMAIN runs, c \in asked : runs[i].points[c].candidates \in Nat

Issue(code, tier, profile) == [code |-> code, tier |-> tier, profile |-> profile]

-----------------------------------------------------------------------------
(***************************************************************************)
(* One manifest.  A stage is named <<kind, ef_search>>.                     *)
(***************************************************************************)
NativeKinds == {"native-build", "native-search", "native-stats"}
NativeRoles == {"native-gate", "native-sweep"}

Kinds(m)     == {n[1] : n \in DOMAIN m.stages}
HasNative(m) == Kinds(m) \cap NativeKinds # {}

\* The roles that the planned official stages call for.
OfficialRoles(m) ==
  {r \in {"official-cached-sweep", "official-real-run", "official-real-search-reuse"} :
     \/ r = "official-cached-sweep" /\ "official-search-cached" \in Kinds(m)
     \/ /\ "official-search-real" \in Kinds(m)
        /\ r = IF "official-build" \in Kinds(m)
                 THEN "official-real-run" ELSE "official-real-search-reuse"}

RoleMatches(m) ==
  /\ HasNative(m) <=> Cardinality(m.roles \cap NativeRoles) = 1
  /\ m.roles \ NativeRoles = OfficialRoles(m)
  /\ HasNative(m) \/ OfficialRoles(m) # {}

ReuseMatches(m) == m.reuse # None <=> m.roles = {"official-real-search-reuse"}

\* Of a run that only is a gate nothing is published; a gate that shares its run
\* with official stages is published like a sweep.
Gate(m) == m.roles = {"native-gate"}

\* The stages whose results are read.
Measured(m) ==
  {n \in DOMAIN m.stages : m.stages[n].present /\ ~(Gate(m) /\ n[1] \in NativeKinds)}

Runs(m, n)  == m.stages[n].measurements
Searches(m) == {n \in Measured(m) :
                  n[1] \in {"native-search", "official-search-cached", "official-search-real"}}
Builds(m)   == {n \in Measured(m) : n[1] \in {"native-build", "official-build"}}

RepetitionsExact(m) ==
  /\ \A n \in Searches(m) : Len(Runs(m, n)) = m.searches
  /\ \A n \in Builds(m) : Len(Runs(m, n)) = m.builds
  /\ \A n \in Measured(m) : n[1] = "native-stats" => Len(Runs(m, n)) = 1

\* _read_native_csv: TopK different rows of the corpus.
RankedList(m, ids) ==
  ids \subseteq 0 .. Len(m.shared.vectors) - 1 /\ Cardinality(ids) = TopK

\* _validate_official_point: an official point embedded some candidate.
PointValid(m, n, p) ==
  RankedList(m, p.ids) /\ (n[1] \in NativeKinds \/ p.candidates > 0)

\* A search has a result for every configuration it was asked for, and for no
\* other.
ResultsValid(m) ==
  \A n \in Searches(m) : \A i \in DOMAIN Runs(m, n) :
    /\ DOMAIN Runs(m, n)[i].points = m.stages[n].asked
    /\ \A p \in Range(Runs(m, n)[i].points) : PointValid(m, n, p)

\* native-stats describes the index that every build of its run produced.
StatsMatch(m) ==
  LET stats == <<"native-stats", 0>>
      build == <<"native-build", 0>>
  IN  stats \in Measured(m) =>
        /\ build \in Measured(m)
        /\ \A i \in DOMAIN Runs(m, build) : Runs(m, build)[i].index = Runs(m, stats)[1].index

\* _register_shared.
DatasetValid(tier, m) == Len(m.shared.vectors) = Declared[tier]

Ingestible(tier, m) ==
  /\ DatasetValid(tier, m)
  /\ RoleMatches(m) /\ ReuseMatches(m)
  /\ RepetitionsExact(m) /\ ResultsValid(m) /\ StatsMatch(m)

\* A run has one official search; its build counts as of the same mode.
StageProfile(m, n) ==
  CASE n[1] \in NativeKinds -> "native"
    [] n[1] \notin NativeKinds /\ "official-search-real" \in Kinds(m) -> "official-real"
    [] OTHER -> "official-cached"

IngestIssues(tier, m) ==
  (IF m.complete THEN {} ELSE {Issue("manifest-incomplete", tier, "all")})
  \cup {Issue("missing-stage-file", tier, StageProfile(m, n)) :
          n \in {k \in DOMAIN m.stages : ~m.stages[k].present}}
  \cup {Issue("stage-incomplete", tier, StageProfile(m, n)) :
          n \in {k \in DOMAIN m.stages : m.stages[k].present /\ ~m.stages[k].complete}}

-----------------------------------------------------------------------------
(***************************************************************************)
(* All manifests together.                                                  *)
(***************************************************************************)
At(s)        == Manifests[s.path]
TiersOf(o)   == {s.tier : s \in o.specs}
Dataset(o, tier) == At(CHOOSE s \in o.specs : s.tier = tier).shared

\* validate_cross_source_identities, _register_shared: one dataset for each
\* tier, and for all sources one machine, commit and model and one binary.
CrossSource(o) ==
  /\ \A s, t \in o.specs :
       /\ s.tier = t.tier => At(s).shared = At(t).shared
       /\ At(s).context = At(t).context
       /\ At(s).shared.model = At(t).shared.model
  /\ Cardinality({At(s).binary : s \in {t \in o.specs :
       \E n \in Measured(At(t)) : n[1] \in NativeKinds}}) <= 1

\* validate_declared_tier_prefix: row by row, of texts and of vectors.
TierPrefix(o) ==
  Tiers \subseteq TiersOf(o) =>
    IsStrictPrefix(Dataset(o, "100k").vectors, Dataset(o, "1m").vectors)

ProofsAccepted(o) ==
  o.parity \subseteq TiersOf(o) /\ o.attested \subseteq o.parity

ProofIssues(o) ==
  {Issue("missing-embedding-parity", t, "all") : t \in Tiers \ o.parity}
  \cup {Issue("missing-endpoint-attestation", t, "all") : t \in Tiers \ o.attested}

Published(o) == {s \in o.specs : ~Gate(At(s))}

\* recompute_mode: only the cached sweep reads stored vectors.
Mode(m, n) == IF n[1] = "official-search-cached" THEN "cached" ELSE "real"

System(n) == IF n[1] \in NativeKinds THEN "leann.cpp" ELSE "official LEANN"

SamplesOf(s) ==
  LET m == At(s) IN
  UNION {UNION {
    {[tier |-> s.tier, source |-> s.path, system |-> System(n), mode |-> Mode(m, n),
      config |-> c, ordinal |-> i, index |-> Runs(m, n)[i].index, reuse |-> m.reuse,
      ids |-> Runs(m, n)[i].points[c].ids,
      recall |-> Cardinality(Runs(m, n)[i].points[c].ids \cap m.shared.truth),
      candidates |-> Runs(m, n)[i].points[c].candidates] :
       c \in m.stages[n].asked} : i \in DOMAIN Runs(m, n)} : n \in Searches(m)}

\* An official build reports its own files; a native one has storage only if
\* its run has native-stats.
Storage(m, n, i) ==
  IF System(n) = "leann.cpp" /\ <<"native-stats", 0>> \notin Measured(m)
  THEN None ELSE StorageOf[Runs(m, n)[i].index]

BuildsOf(s) ==
  LET m == At(s) IN
  UNION {{[tier |-> s.tier, source |-> s.path, system |-> System(n), ordinal |-> i,
           index |-> Runs(m, n)[i].index, storage |-> Storage(m, n, i)] :
            i \in DOMAIN Runs(m, n)} : n \in Builds(m)}

Profile(x) ==
  CASE x.system = "leann.cpp" -> "native"
    [] x.mode = "cached"      -> "official-cached"
    [] OTHER                  -> "official-real"

-----------------------------------------------------------------------------
(***************************************************************************)
(* _bind_search_indexes.                                                    *)
(***************************************************************************)
ReuseHonest(samples) == \A x \in samples : x.reuse # None => x.reuse.index = x.index

\* The measured builds of exactly this index; those of the run that a
\* search-only run names if there is one.
Matches(x, builds) ==
  {b \in builds :
     /\ b.tier = x.tier /\ b.system = x.system /\ b.index = x.index
     /\ x.reuse # None => /\ b.source = x.reuse.source
                          /\ b.storage = x.reuse.storage}

\* A build of the same run is preferred to an inherited one.
Bound(x, builds) ==
  LET same == {b \in Matches(x, builds) : b.source = x.source}
  IN  IF same # {} THEN same ELSE Matches(x, builds)

BindIssues(samples, builds) ==
  {Issue("unbound-index", x.tier, Profile(x)) :
     x \in {y \in samples : Bound(y, builds) = {}}}
  \cup {Issue("missing-build-metrics", x.tier, Profile(x)) :
     x \in {y \in samples : /\ Bound(y, builds) # {}
                            /\ \A b \in Bound(y, builds) : b.storage = None}}

-----------------------------------------------------------------------------
(***************************************************************************)
(* _aggregate_points and _aggregate_builds.  Repetitions with equal results *)
(* have equal candidate counts, so their mean is each one's.                *)
(***************************************************************************)
Key(x)   == <<x.tier, x.system, x.mode, x.config>>
Group(x, samples) == {y \in samples : Key(y) = Key(x)}

\* Mutant of Poolable: repetitions of separate runs of one protocol.
PoolableRuns(samples) ==
  \A x, y \in samples : Key(x) = Key(y) => x.index = y.index /\ x.ids = y.ids

Poolable(samples) ==
  \A x, y \in samples :
    Key(x) = Key(y) => x.source = y.source /\ x.index = y.index /\ x.ids = y.ids

Points(samples, builds) ==
  {[tier |-> x.tier, system |-> x.system, mode |-> x.mode, config |-> x.config,
    source |-> x.source, index |-> x.index, ids |-> x.ids, recall |-> x.recall,
    candidates |-> x.candidates, repetitions |-> Cardinality(Group(x, samples)),
    builtBy |-> {b.source : b \in Bound(x, builds)}] : x \in samples}

OneStorage(builds) ==
  \A b, c \in {d \in builds : d.storage # None} :
    b.tier = c.tier /\ b.system = c.system => b.storage = c.storage
-----------------------------------------------------------------------------
(***************************************************************************)
(* _matched_comparisons: the predeclared choice of one native and one       *)
(* official real point for each tier.                                       *)
(***************************************************************************)
At_(points, tier, profile) == {p \in points : p.tier = tier /\ Profile(p) = profile}

\* Mutant of Counterpart: the counterpart needs the same recall only.
CounterpartByRecall(real, cached) ==
  cached.config = real.config /\ cached.recall = real.recall

Counterpart(real, cached) ==
  /\ cached.config = real.config
  /\ cached.ids = real.ids /\ cached.recall = real.recall
  /\ cached.candidates = real.candidates

Verified(points, tier) ==
  {r \in At_(points, tier, "official-real") :
     \E c \in At_(points, tier, "official-cached") : Counterpart(r, c)}

Gap(n, r) == Max({n.recall - r.recall, r.recall - n.recall})

Eligible(n, r) ==
  /\ n.recall >= MinRecall /\ r.recall >= MinRecall
  /\ Gap(n, r) <= Tolerance

\* Among equals the first in the order of the points, that of the native batch.
Rank(n, r) ==
  <<Gap(n, r), n.candidates + r.candidates, -Min({n.recall, r.recall}),
    n.config[1], r.config[1], r.config[2], n.config[2]>>

Before(a, b) == \E i \in DOMAIN a : a[i] < b[i] /\ \A j \in 1 .. i - 1 : a[j] = b[j]

Pairs(points, tier) ==
  {p \in At_(points, tier, "native") \X Verified(points, tier) : Eligible(p[1], p[2])}

Matched(points, tier) ==
  {p \in Pairs(points, tier) :
     \A q \in Pairs(points, tier) : ~Before(Rank(q[1], q[2]), Rank(p[1], p[2]))}

\* The ratios of a comparison divide by its candidate counts (and its latencies,
\* which are left out).
RatiosDefined(matched) ==
  \A p \in UNION Range(matched) : p[1].candidates > 0 /\ p[2].candidates > 0

MatchIssues(points) ==
  {Issue("real-cached-counterpart-mismatch", p.tier, "official-real") :
     p \in {q \in points : /\ Profile(q) = "official-real"
                           /\ q \notin Verified(points, q.tier)}}
  \cup {Issue("no-predeclared-matched-pair", t, "official-real") :
     t \in {u \in Tiers : Pairs(points, u) = {}}}

-----------------------------------------------------------------------------
(***************************************************************************)
(* _completeness.                                                           *)
(***************************************************************************)
\* A native sweep is complete with every ef, whatever its batch.
Required(profile) ==
  CASE profile = "native"          -> Efs
    [] profile = "official-cached" -> Configs
    [] OTHER                       -> {}

Setting(profile, config) == IF profile = "native" THEN config[1] ELSE config

Settings(points, profile) == {Setting(profile, p.config) : p \in points}

\* The required points of a sweep do not come from one run.
Split(points, profile) ==
  Cardinality({p.source : p \in {q \in points :
                 Setting(profile, q.config) \in Required(profile)}}) > 1

CompletenessIssues(o, points) ==
  {Issue("missing-tier", t, "all") : t \in Tiers \ TiersOf(o)}
  \cup UNION {LET found == At_(points, t, f)
                 lacks == \/ ~(Required(f) \subseteq Settings(found, f))
                          \/ f = "official-real" /\ Cardinality(found) < MinReal
             IN  (IF found = {} THEN {Issue("missing-profile", t, f)} ELSE {})
                 \cup (IF lacks THEN {Issue("missing-configuration", t, f)} ELSE {})
                 \cup (IF ~lacks /\ Split(found, f) THEN {Issue("split-sweep", t, f)} ELSE {})
            : t \in Tiers, f \in Profiles}

\* collect_results: raised, or a report of what was found.
Collect(o) ==
  LET samples == UNION {SamplesOf(s) : s \in Published(o)}
      builds  == UNION {BuildsOf(s) : s \in Published(o)}
      points  == Points(samples, builds)
      matched == [t \in Tiers |-> Matched(points, t)]
      issues  == (UNION {IngestIssues(s.tier, At(s)) : s \in o.specs})
                 \cup ProofIssues(o) \cup BindIssues(samples, builds)
                 \cup MatchIssues(points) \cup CompletenessIssues(o, points)
  IN  IF /\ \A s \in o.specs : Ingestible(s.tier, At(s))
         /\ CrossSource(o) /\ TierPrefix(o) /\ ProofsAccepted(o)
         /\ ReuseHonest(samples) /\ Poolable(samples) /\ OneStorage(builds)
         /\ RatiosDefined(matched)
         /\ issues = {} \/ o.allowIncomplete
      THEN [status |-> IF issues = {} THEN "complete" ELSE "incomplete",
            issues |-> issues, points |-> points, builds |-> builds,
            matched |-> matched, specs |-> o.specs,
            parity |-> o.parity, attested |-> o.attested]
      ELSE None

\* What the command lines lead to.
Collected == {Collect(o) : o \in Options}

-----------------------------------------------------------------------------
(***************************************************************************)
(* write_outputs: the three files are named by the digest of the report, so *)
(* a file is <<report, kind>>.  Each is written to a temporary name and     *)
(* renamed; the commit file is replaced last.                               *)
(***************************************************************************)
Outputs == {"json", "csv", "markdown"}

VARIABLES
  pc,      \* collector -> the output it writes next, or how it ended
  report,  \* collector -> its report
  files,   \* the generation directory
  commit   \* the report that the commit file names

vars == <<pc, report, files, commit>>

Init ==
  /\ pc = [w \in Collectors |-> "collect"]
  /\ report = [w \in Collectors |-> None]
  /\ files = {} /\ commit = None

Goto(w, from, to) == pc[w] = from /\ pc' = [pc EXCEPT ![w] = to]

Begin(w) ==
  /\ \/ None \in Collected /\ Goto(w, "collect", "raised") /\ UNCHANGED report
     \/ /\ Goto(w, "collect", "json")
        /\ \E r \in Collected \ {None} : report' = [report EXCEPT ![w] = r]
  /\ UNCHANGED <<files, commit>>

Write(w, kind, next) ==
  /\ Goto(w, kind, next)
  /\ files' = files \cup {<<report[w], kind>>}
  /\ UNCHANGED <<report, commit>>

\* Mutant of ReplaceCommit: one file early.
ReplaceCommitEarly(w) ==
  /\ Goto(w, "markdown", "validate")
  /\ commit' = report[w]
  /\ UNCHANGED <<report, files>>

ReplaceCommit(w) ==
  /\ Goto(w, "commit", "validate")
  /\ commit' = report[w]
  /\ UNCHANGED <<report, files>>

\* validate_output_commit reads back whatever the commit file names by now.
Validate(w) ==
  /\ \/ commit = report[w] /\ Goto(w, "validate", "returned")
     \/ commit # report[w] /\ Goto(w, "validate", "raised")
  /\ UNCHANGED <<report, files, commit>>

\* A write fails or the process is killed; a temporary file is not public.
Stop(w) ==
  /\ pc[w] \in Outputs \cup {"commit", "validate"}
  /\ pc' = [pc EXCEPT ![w] = "stopped"]
  /\ UNCHANGED <<report, files, commit>>

Next == \E w \in Collectors :
  \/ Begin(w)
  \/ Write(w, "json", "csv") \/ Write(w, "csv", "markdown") \/ Write(w, "markdown", "commit")
  \/ ReplaceCommit(w) \/ Validate(w) \/ Stop(w)

Spec == Init /\ [][Next]_vars

-----------------------------------------------------------------------------
(***************************************************************************)
(* Properties.                                                             *)
(***************************************************************************)
Reports == {report[w] : w \in Collectors} \ {None}

CollectionTypeOK ==
  /\ pc \in [Collectors -> Outputs \cup
               {"collect", "commit", "validate", "returned", "raised", "stopped"}]
  /\ report \in [Collectors -> Collected \cup {None}]
  /\ files \subseteq Reports \X Outputs
  /\ commit \in Reports \cup {None}
  /\ \A w \in Collectors : pc[w] \notin {"collect", "raised"} => report[w] # None

\* write_outputs, validate_output_commit: whoever is killed or fails and however
\* two collectors interleave, the commit file names three whole files of one
\* report, and one that a reader once found there is never half there again.
CommitWhole == commit # None => \A k \in Outputs : <<commit, k>> \in files

\* Where a reported number comes from.  A point pools exactly the repetitions
\* that its one run declared, and that run is not merely a gate (GateStaysOut
\* asks for more); its index is one that a build of the same system over the same
\* data produced, for a search-only run the build that it names; a complete
\* report leaves no point without its build.
PointsAttributed ==
  \A r \in Reports : \A p \in r.points :
    LET m == Manifests[p.source] IN
    /\ m.roles # {"native-gate"}
    /\ p.repetitions = m.searches
    /\ m.reuse # None => p.builtBy \subseteq {m.reuse.source}
    /\ r.status = "complete" => p.builtBy # {}
    /\ \A b \in p.builtBy :
         /\ Manifests[b].shared = m.shared
         /\ \E n \in DOMAIN Manifests[b].stages :
              /\ n[1] = IF p.system = "leann.cpp" THEN "native-build" ELSE "official-build"
              /\ \E i \in DOMAIN Runs(Manifests[b], n) : Runs(Manifests[b], n)[i].index = p.index

\* What "complete" promises, said of the manifests and proofs and not of the
\* bookkeeping: no manifest and no stage of it is partial, both tiers have their
\* embedding parity and their endpoint attestation, and the smaller tier is the
\* beginning of the larger; for both tiers there is one native run with every ef
\* and one cached run with every configuration, every real point repeats a cached
\* one result by result, and of the pairs that reach the recall none is closer
\* than the matched one.
CompleteCoversMatrix ==
  \A r \in {q \in Reports : q.status = "complete"} :
    /\ \A s \in r.specs : /\ At(s).complete
                          /\ \A n \in DOMAIN At(s).stages :
                               At(s).stages[n].present /\ At(s).stages[n].complete
    /\ Tiers \subseteq r.parity /\ Tiers \subseteq r.attested
    /\ \A s, t \in r.specs : s.tier = "100k" /\ t.tier = "1m" =>
         IsPrefix(At(s).shared.vectors, At(t).shared.vectors)
    /\ \A t \in Tiers :
         LET of(profile) == {p \in r.points : p.tier = t /\ Profile(p) = profile}
             hits(p) == Cardinality(p.ids \cap Manifests[p.source].shared.truth)
         IN
         /\ \E path \in DOMAIN Manifests :
              \A ef \in Efs : \E p \in of("native") : p.source = path /\ p.config[1] = ef
         /\ \E path \in DOMAIN Manifests :
              \A c \in Configs : \E p \in of("official-cached") : p.source = path /\ p.config = c
         /\ \A p \in of("official-real") :
              \E c \in of("official-cached") : c.config = p.config /\ c.ids = p.ids
         /\ \E pair \in r.matched[t] :
              /\ pair[1] \in of("native") /\ pair[2] \in of("official-real")
              /\ hits(pair[1]) >= MinRecall /\ hits(pair[2]) >= MinRecall
              /\ \A n \in of("native"), p \in of("official-real") :
                   hits(n) >= MinRecall /\ hits(p) >= MinRecall
                     => Gap(pair[1], pair[2]) <= Gap(n, p)

\* Not true of the code.  The collector warns that "native gate runs are diagnostic
\* smoke checks and are excluded from publication points and build evidence"
\* (scripts/collect_large_scale_results.py:4488-4489); it leaves out those whose
\* whole role is native-gate (3282, 4464), and reports the native points of a run
\* that is a gate and an official sweep.
GateStaysOut ==
  \A r \in Reports : \A x \in r.points \cup r.builds :
    x.system = "leann.cpp" => "native-gate" \notin Manifests[x.source].roles
=============================================================================
