--------------------------- MODULE CollectionProofs ---------------------------
(***************************************************************************)
(* Theorems about the collector: what it writes, for any number of          *)
(* collectors and whatever they collect, and what it collects.              *)
(***************************************************************************)
EXTENDS EvidenceCollection, FiniteSetTheorems, WellFoundedInduction, TLAPS

\* The outputs a collector has written by the time it is at a point.
WrittenAt == [json |-> {}, csv |-> {"json"}, markdown |-> {"json", "csv"},
              commit |-> Outputs, validate |-> Outputs, returned |-> Outputs]

\* What a collector has written is on disk.
WrittenOnDisk ==
  \A w \in Collectors : pc[w] \in DOMAIN WrittenAt =>
    \A k \in WrittenAt[pc[w]] : <<report[w], k>> \in files

\* A report is taken once, and files and commit only come from one.
NoReportYet == \A w \in Collectors : pc[w] = "collect" => report[w] = None

IInv == CollectionTypeOK /\ NoReportYet /\ WrittenOnDisk /\ CommitWhole

LEMMA InitInv == Init => IInv
<1> SUFFICES ASSUME Init PROVE IInv
  OBVIOUS
<1>1. pc = [w \in Collectors |-> "collect"] /\ report = [w \in Collectors |-> None]
      /\ files = {} /\ commit = None
  BY DEF Init
<1>2. CollectionTypeOK
  BY <1>1 DEF CollectionTypeOK, Reports
<1>3. NoReportYet /\ CommitWhole
  BY <1>1 DEF NoReportYet, CommitWhole
<1>4. WrittenOnDisk
  BY <1>1 DEF WrittenOnDisk, WrittenAt
<1>. QED
  BY <1>2, <1>3, <1>4 DEF IInv

\* Only Begin takes a report.
LEMMA BeginKeeps ==
  ASSUME IInv, NEW w \in Collectors, Begin(w)
  PROVE  IInv'
<1> USE DEF IInv, CollectionTypeOK, NoReportYet
<1>1. CASE None \in Collected /\ Goto(w, "collect", "raised") /\ UNCHANGED report
  <2>1. UNCHANGED <<report, files, commit>> /\ Reports' = Reports
    BY <1>1 DEF Begin, Reports
  <2>2. CollectionTypeOK' /\ NoReportYet'
    BY <1>1, <2>1 DEF Goto
  <2>3. WrittenOnDisk' /\ CommitWhole'
    BY <1>1, <2>1 DEF Goto, WrittenOnDisk, WrittenAt, CommitWhole
  <2>. QED
    BY <2>2, <2>3
<1>2. ASSUME Goto(w, "collect", "json"), NEW r \in Collected \ {None},
             report' = [report EXCEPT ![w] = r]
      PROVE  IInv'
  <2>1. files' = files /\ commit' = commit
    BY DEF Begin
  <2>2. \A v \in Collectors \ {w} : pc'[v] = pc[v] /\ report'[v] = report[v]
    BY <1>2 DEF Goto
  <2>3. pc'[w] = "json" /\ report'[w] = r /\ report[w] = None
    BY <1>2 DEF Goto
  <2>4. Reports \subseteq Reports'
    BY <2>2, <2>3 DEF Reports
  <2>5. CollectionTypeOK'
    <3>1. /\ pc' \in [Collectors -> Outputs \cup
               {"collect", "commit", "validate", "returned", "raised", "stopped"}]
          /\ report' \in [Collectors -> Collected \cup {None}]
      BY <1>2 DEF Goto, Outputs
    <3>2. files' \subseteq Reports' \X Outputs /\ commit' \in Reports' \cup {None}
      BY <2>1, <2>4
    <3>3. \A v \in Collectors : pc'[v] \notin {"collect", "raised"} => report'[v] # None
      BY <2>2, <2>3
    <3>. QED
      BY <3>1, <3>2, <3>3
  <2>6. NoReportYet'
    BY <2>2, <2>3
  <2>7. WrittenOnDisk' /\ CommitWhole'
    BY <2>1, <2>2, <2>3 DEF WrittenOnDisk, WrittenAt, CommitWhole
  <2>. QED
    BY <2>5, <2>6, <2>7
<1>. QED
  BY <1>1, <1>2 DEF Begin

\* A step of a collector that has its report: it writes what its next point says.
LEMMA WriteKeeps ==
  ASSUME IInv, NEW w \in Collectors,
         \/ Write(w, "json", "csv") \/ Write(w, "csv", "markdown")
         \/ Write(w, "markdown", "commit")
  PROVE  IInv'
<1> USE DEF IInv, CollectionTypeOK, NoReportYet
<1>1. PICK k \in Outputs : files' = files \cup {<<report[w], k>>}
  BY DEF Write, Outputs
<1>2. report' = report /\ commit' = commit /\ report[w] \in Reports /\ Reports' = Reports
  BY DEF Write, Goto, Reports
<1>3. CollectionTypeOK' /\ NoReportYet'
  BY <1>1, <1>2 DEF Write, Goto, Outputs
<1>4. WrittenOnDisk'
  BY <1>2 DEF WrittenOnDisk, WrittenAt, Write, Goto, Outputs
<1>5. CommitWhole'
  BY <1>1, <1>2 DEF CommitWhole
<1>. QED
  BY <1>3, <1>4, <1>5

LEMMA CommitKeeps ==
  ASSUME IInv, NEW w \in Collectors, ReplaceCommit(w)
  PROVE  IInv'
<1> USE DEF IInv, CollectionTypeOK, NoReportYet
<1>1. report' = report /\ files' = files /\ commit' = report[w]
      /\ report[w] \in Reports /\ Reports' = Reports
  BY DEF ReplaceCommit, Goto, Reports
<1>2. CollectionTypeOK' /\ NoReportYet'
  BY <1>1 DEF ReplaceCommit, Goto
<1>3. WrittenOnDisk'
  BY <1>1 DEF WrittenOnDisk, WrittenAt, ReplaceCommit, Goto
<1>4. CommitWhole'
  BY <1>1 DEF CommitWhole, WrittenOnDisk, WrittenAt, ReplaceCommit, Goto
<1>. QED
  BY <1>2, <1>3, <1>4

LEMMA EndKeeps ==
  ASSUME IInv, NEW w \in Collectors, Validate(w) \/ Stop(w)
  PROVE  IInv'
<1> USE DEF IInv, CollectionTypeOK, NoReportYet
<1>1. UNCHANGED <<report, files, commit>> /\ Reports' = Reports
  BY DEF Validate, Stop, Reports
<1>2. CollectionTypeOK' /\ NoReportYet'
  BY <1>1 DEF Validate, Stop, Goto, Outputs
<1>3. WrittenOnDisk' /\ CommitWhole'
  BY <1>1 DEF WrittenOnDisk, WrittenAt, Validate, Stop, Goto, CommitWhole
<1>. QED
  BY <1>2, <1>3

LEMMA NextKeeps == IInv /\ [Next]_vars => IInv'
<1>1. CASE UNCHANGED vars
  BY <1>1 DEF vars, IInv, CollectionTypeOK, NoReportYet, WrittenOnDisk, CommitWhole,
     Reports
<1>. QED
  BY <1>1, BeginKeeps, WriteKeeps, CommitKeeps, EndKeeps DEF Next

LEMMA Invariance == Spec => []IInv
<1>. QED
  BY InitInv, NextKeeps, PTL DEF Spec

\* Every file and the commit are of a report that some collector took, and a
\* collector past Begin has one, whatever was collected.
THEOREM TypeCorrect == Spec => []CollectionTypeOK
<1>1. IInv => CollectionTypeOK
  BY DEF IInv
<1>. QED
  BY <1>1, Invariance, PTL

\* write_outputs: for any number of collectors, killed or failing anywhere, the
\* commit file names three files that are all there.
THEOREM CommitsAreWhole == Spec => []CommitWhole
<1>1. IInv => CommitWhole
  BY DEF IInv
<1>. QED
  BY <1>1, Invariance, PTL

-----------------------------------------------------------------------------
(***************************************************************************)
(* Collect: what the reports say of the manifests, for any manifests and    *)
(* any command line.                                                        *)
(***************************************************************************)
\* What a command line that is accepted makes of its manifests.
Samples(o) == UNION {SamplesOf(s) : s \in Published(o)}
Built(o)   == UNION {BuildsOf(s) : s \in Published(o)}
Pooled(o)  == Points(Samples(o), Built(o))
Issues(o)  ==
  (UNION {IngestIssues(s.tier, At(s)) : s \in o.specs})
    \cup ProofIssues(o) \cup BindIssues(Samples(o), Built(o))
    \cup MatchIssues(Pooled(o)) \cup CompletenessIssues(o, Pooled(o))

ReportOf(o, r) ==
  /\ \A s \in o.specs : Ingestible(s.tier, At(s))
  /\ CrossSource(o) /\ TierPrefix(o) /\ Poolable(Samples(o))
  /\ r.status = "complete" => Issues(o) = {}
  /\ r.points = Pooled(o) /\ r.specs = o.specs
  /\ r.parity = o.parity /\ r.attested = o.attested
  /\ \A t \in Tiers : r.matched[t] = Matched(Pooled(o), t)

\* A sample by where it was measured.
SampleAt(s, n, i, c) ==
  LET m == At(s) IN
  [tier |-> s.tier, source |-> s.path, system |-> System(n), mode |-> Mode(m, n),
   config |-> c, ordinal |-> i, index |-> Runs(m, n)[i].index, reuse |-> m.reuse,
   ids |-> Runs(m, n)[i].points[c].ids,
   recall |-> Cardinality(Runs(m, n)[i].points[c].ids \cap m.shared.truth),
   candidates |-> Runs(m, n)[i].points[c].candidates]

PointAt(x, o) ==
  [tier |-> x.tier, system |-> x.system, mode |-> x.mode, config |-> x.config,
   source |-> x.source, index |-> x.index, ids |-> x.ids, recall |-> x.recall,
   candidates |-> x.candidates, repetitions |-> Cardinality(Group(x, Samples(o))),
   builtBy |-> {b.source : b \in Bound(x, Built(o))}]

\* Nothing is reported that Collect did not accept.
LEMMA Taken ==
  ASSUME NEW r \in Collected \ {None}
  PROVE  \E o \in Options : ReportOf(o, r)
<1>1. PICK o \in Options : r = Collect(o)
  BY DEF Collected
<1> DEFINE accepted ==
             /\ \A s \in o.specs : Ingestible(s.tier, At(s))
             /\ CrossSource(o) /\ TierPrefix(o) /\ ProofsAccepted(o)
             /\ ReuseHonest(Samples(o)) /\ Poolable(Samples(o)) /\ OneStorage(Built(o))
             /\ RatiosDefined([t \in Tiers |-> Matched(Pooled(o), t)])
             /\ Issues(o) = {} \/ o.allowIncomplete
           made == [status |-> IF Issues(o) = {} THEN "complete" ELSE "incomplete",
                    issues |-> Issues(o), points |-> Pooled(o), builds |-> Built(o),
                    matched |-> [t \in Tiers |-> Matched(Pooled(o), t)], specs |-> o.specs,
                    parity |-> o.parity, attested |-> o.attested]
<1>2. r = IF accepted THEN made ELSE None
  BY <1>1 DEF Collect, Samples, Built, Pooled, Issues
<1>3. accepted /\ r = made
  BY <1>2
<1>. QED
  BY <1>3 DEF ReportOf

\* Where samples, builds and points come from.
LEMMA SampleOrigin ==
  ASSUME NEW o, NEW x \in Samples(o)
  PROVE  \E s \in Published(o) : \E n \in Searches(At(s)) :
           \E i \in DOMAIN Runs(At(s), n), c \in At(s).stages[n].asked :
             x = SampleAt(s, n, i, c)
<1>1. PICK s \in Published(o) : x \in SamplesOf(s)
  BY DEF Samples
<1>2. PICK n \in Searches(At(s)) : \E i \in DOMAIN Runs(At(s), n), c \in At(s).stages[n].asked :
             x = SampleAt(s, n, i, c)
  BY <1>1 DEF SamplesOf, SampleAt
<1>. QED
  BY <1>1, <1>2

LEMMA SampleThere ==
  ASSUME NEW o, NEW s \in Published(o), NEW n \in Searches(At(s)),
         NEW i \in DOMAIN Runs(At(s), n), NEW c \in At(s).stages[n].asked
  PROVE  SampleAt(s, n, i, c) \in Samples(o)
<1>1. SamplesOf(s) = UNION {UNION {{SampleAt(s, k, j, d) : d \in At(s).stages[k].asked} :
                                   j \in DOMAIN Runs(At(s), k)} : k \in Searches(At(s))}
  BY DEF SamplesOf, SampleAt
<1> DEFINE Repetition(k, j) == {SampleAt(s, k, j, d) : d \in At(s).stages[k].asked}
           Stage(k) == UNION {Repetition(k, j) : j \in DOMAIN Runs(At(s), k)}
<1>2. SampleAt(s, n, i, c) \in Repetition(n, i)
  OBVIOUS
<1>3. SampleAt(s, n, i, c) \in Stage(n)
  <2>. HIDE DEF Repetition
  <2>. QED
    BY <1>2
<1>4. SampleAt(s, n, i, c) \in UNION {Stage(k) : k \in Searches(At(s))}
  <2>. HIDE DEF Stage
  <2>. QED
    BY <1>3
<1>. QED
  BY <1>1, <1>4 DEF Samples

LEMMA BuildOrigin ==
  ASSUME NEW o, NEW b \in Built(o)
  PROVE  \E s \in Published(o) : \E n \in Builds(At(s)) : \E i \in DOMAIN Runs(At(s), n) :
           /\ b.tier = s.tier /\ b.source = s.path /\ b.system = System(n)
           /\ b.index = Runs(At(s), n)[i].index
<1>1. PICK s \in Published(o) : b \in BuildsOf(s)
  BY DEF Built
<1>2. PICK n \in Builds(At(s)) : \E i \in DOMAIN Runs(At(s), n) :
        b = [tier |-> s.tier, source |-> s.path, system |-> System(n), ordinal |-> i,
             index |-> Runs(At(s), n)[i].index, storage |-> Storage(At(s), n, i)]
  BY <1>1 DEF BuildsOf
<1>. QED
  BY <1>1, <1>2

LEMMA PointOrigin ==
  ASSUME NEW o, NEW p \in Pooled(o)
  PROVE  \E x \in Samples(o) : p = PointAt(x, o)
BY DEF Pooled, Points, PointAt

\* A specification is its tier and its path.
LEMMA PairIs ==
  ASSUME NEW A, NEW B, NEW t \in [tier : A, path : B]
  PROVE  t.tier \in A /\ t.path \in B /\ t = [tier |-> t.tier, path |-> t.path]
OBVIOUS

\* As many things as the numbers that name them.
LEMMA Numbered ==
  ASSUME NEW N \in Nat, NEW G, NEW f, f = [j \in 1 .. N |-> f[j]],
         \A j \in 1 .. N : f[j] \in G,
         \A y \in G : \E j \in 1 .. N : f[j] = y,
         \A j, k \in 1 .. N : f[j] = f[k] => j = k
  PROVE  Cardinality(G) = N
<1> DEFINE R == 1 .. N
<1>1. IsFiniteSet(R) /\ Cardinality(R) = N
  BY FS_Interval
<1>2. /\ f = [j \in R |-> f[j]]
      /\ \A j \in R : f[j] \in G
      /\ \A y \in G : \E j \in R : f[j] = y
      /\ \A j, k \in R : f[j] = f[k] => j = k
  OBVIOUS
<1>. HIDE DEF R
<1>3. f \in [R -> G]
  BY <1>2
<1>4. f \in Bijection(R, G)
  BY <1>2, <1>3 DEF Bijection, Injection, Surjection, IsInjective
<1>. QED
  BY <1>1, <1>4, FS_Bijection DEF ExistsBijection

\* What is known of a published run.
LEMMA SpecFacts ==
  ASSUME NEW o \in Options, NEW s \in o.specs
  PROVE  /\ s.tier \in Tiers /\ s.path \in DOMAIN Manifests /\ At(s) = Manifests[s.path]
         /\ \A t \in o.specs : t.tier = s.tier /\ t.path = s.path => t = s
<1> DEFINE P == DOMAIN Manifests
<1>1. o.specs \subseteq [tier : Tiers, path : P]
  BY CollectionAssumption
<1>. HIDE DEF P
<1>2. \A t \in o.specs : t.tier \in Tiers /\ t.path \in P /\ t = [tier |-> t.tier, path |-> t.path]
  BY <1>1, PairIs
<1>. USE DEF P
<1>. QED
  BY <1>1, <1>2 DEF At

\* ManifestsAssumption, said of one manifest.
LEMMA StageFacts ==
  ASSUME NEW path \in DOMAIN Manifests, NEW m, m = Manifests[path]
  PROVE  /\ m.searches \in Nat
         /\ IsFiniteSet(m.shared.truth) /\ IsFiniteSet(DOMAIN m.stages)
         /\ \A n \in DOMAIN m.stages :
              /\ n = <<n[1], n[2]>> /\ n[2] \in Nat
              /\ n[1] = "native-search" => \A c \in m.stages[n].asked : c[1] = n[2]
              /\ n[1] # "native-search" => n[2] = 0
              /\ IsFiniteSet(m.stages[n].asked) /\ m.stages[n].asked \subseteq Nat \X Nat
              /\ Len(Runs(m, n)) \in Nat /\ DOMAIN Runs(m, n) = 1 .. Len(Runs(m, n))
              /\ \A i \in DOMAIN Runs(m, n), c \in m.stages[n].asked :
                   Runs(m, n)[i].points[c].candidates \in Nat
<1>1. ASSUME NEW n \in DOMAIN m.stages, n[1] = "native-search", NEW c \in m.stages[n].asked
      PROVE  c[1] = n[2]
  <2>1. PICK e \in m.stages[n].asked : m.stages[n].asked = {e} /\ e[1] = n[2]
    BY <1>1, ManifestsAssumption
  <2>. QED
    BY <1>1, <2>1, Zenon
<1>. QED
  BY <1>1, ManifestsAssumption DEF Runs

\* Searches of one run that are pooled under one key are one stage.
LEMMA OneStage ==
  ASSUME NEW path \in DOMAIN Manifests, NEW m, m = Manifests[path],
         NEW n \in Searches(m), NEW k \in Searches(m), NEW c,
         c \in m.stages[n].asked, c \in m.stages[k].asked,
         System(n) = System(k), Mode(m, n) = Mode(m, k)
  PROVE  n = k
<1>1. n \in DOMAIN m.stages /\ k \in DOMAIN m.stages
  BY DEF Searches, Measured
<1>2. n = <<n[1], n[2]>> /\ k = <<k[1], k[2]>>
  BY <1>1, StageFacts
<1>3. n[1] = k[1]
  <2>1. /\ n[1] \in {"native-search", "official-search-cached", "official-search-real"}
        /\ k[1] \in {"native-search", "official-search-cached", "official-search-real"}
    BY DEF Searches
  <2>2. n[1] = "official-search-cached" <=> k[1] = "official-search-cached"
    BY DEF Mode
  <2>3. n[1] \in NativeKinds <=> k[1] \in NativeKinds
    BY DEF System
  <2> DEFINE a == n[1]
             b == k[1]
  <2>. HIDE DEF a, b
  <2>4. a = b
    BY <2>1, <2>2, <2>3 DEF NativeKinds, a, b
  <2>. QED
    BY <2>4 DEF a, b
<1>4. n[2] = k[2]
  <2>1. CASE n[1] = "native-search"
    <3>1. \A j \in DOMAIN m.stages :
            j[1] = "native-search" => \A d \in m.stages[j].asked : d[1] = j[2]
      BY StageFacts
    <3>2. c[1] = n[2] /\ c[1] = k[2]
      BY <1>1, <1>3, <2>1, <3>1, Zenon
    <3>. QED
      BY <3>2
  <2>2. CASE n[1] # "native-search"
    BY <1>1, <1>3, <2>2, StageFacts
  <2>. QED
    BY <2>1, <2>2
<1>. QED
  BY <1>2, <1>3, <1>4

\* A group is the repetitions of one stage.
LEMMA GroupSize ==
  ASSUME NEW o \in Options, \A s \in o.specs : Ingestible(s.tier, At(s)),
         Poolable(Samples(o)), NEW s \in Published(o), NEW n \in Searches(At(s)),
         NEW i \in DOMAIN Runs(At(s), n), NEW c \in At(s).stages[n].asked
  PROVE  Cardinality(Group(SampleAt(s, n, i, c), Samples(o))) = At(s).searches
<1> DEFINE m == At(s)
           N == m.searches
           G == Group(SampleAt(s, n, i, c), Samples(o))
           R == 1 .. N
           f == [j \in R |-> SampleAt(s, n, j, c)]
<1>1. /\ s \in o.specs /\ s.path \in DOMAIN Manifests /\ m = Manifests[s.path]
      /\ N \in Nat /\ n \in DOMAIN m.stages
  BY SpecFacts, StageFacts DEF Published, Searches, Measured
<1>2. DOMAIN Runs(m, n) = R
  <2>1. Len(Runs(m, n)) = N
    BY <1>1 DEF Ingestible, RepetitionsExact
  <2>2. DOMAIN Runs(m, n) = 1 .. Len(Runs(m, n))
    BY <1>1, StageFacts DEF Runs
  <2>. QED
    BY <2>1, <2>2
<1>3. ASSUME NEW j \in R PROVE f[j] \in G
  <2>1. SampleAt(s, n, j, c) \in Samples(o)
    BY <1>2, SampleThere
  <2>2. Key(SampleAt(s, n, j, c)) = Key(SampleAt(s, n, i, c))
    BY DEF SampleAt, Key
  <2>. QED
    BY <2>1, <2>2 DEF Group
<1>4. ASSUME NEW y \in G PROVE \E j \in R : f[j] = y
  <2>1. y \in Samples(o) /\ Key(y) = Key(SampleAt(s, n, i, c))
    BY DEF Group
  <2>10. PICK t \in Published(o) : \E k \in Searches(At(t)) :
          \E j \in DOMAIN Runs(At(t), k), d \in At(t).stages[k].asked : y = SampleAt(t, k, j, d)
    BY <2>1, SampleOrigin
  <2>2. PICK k \in Searches(At(t)) :
          \E j \in DOMAIN Runs(At(t), k), d \in At(t).stages[k].asked : y = SampleAt(t, k, j, d)
    BY <2>10
  <2>3. PICK j \in DOMAIN Runs(At(t), k), d \in At(t).stages[k].asked : y = SampleAt(t, k, j, d)
    BY <2>2
  <2>4. SampleAt(s, n, i, c) \in Samples(o)
    BY SampleThere
  <2>5. t.tier = s.tier /\ System(k) = System(n) /\ Mode(At(t), k) = Mode(m, n) /\ d = c
    BY <2>1, <2>3 DEF Key, SampleAt
  <2>6. t.path = s.path
    BY <2>1, <2>3, <2>4 DEF Poolable, SampleAt
  <2>7. t = s
    BY <2>5, <2>6, SpecFacts DEF Published
  <2>8. k = n
    <3>. HIDE DEF m
    <3>1. k \in Searches(m) /\ n \in Searches(m) /\ c \in m.stages[k].asked
          /\ c \in m.stages[n].asked /\ System(k) = System(n) /\ Mode(m, k) = Mode(m, n)
      BY <2>2, <2>3, <2>5, <2>7 DEF m
    <3>. QED
      BY <1>1, <3>1, OneStage
  <2>9. j \in R
    BY <1>2, <2>3, <2>7, <2>8
  <2>. QED
    BY <2>3, <2>5, <2>7, <2>8, <2>9
<1>5. \A j, k \in R : f[j] = f[k] => j = k
  BY DEF SampleAt
<1>6. f = [j \in R |-> f[j]]
  <2> DEFINE S(j) == SampleAt(s, n, j, c)
             g == [j \in R |-> S(j)]
  <2>1. f = g
    OBVIOUS
  <2>. HIDE DEF S, f, R
  <2>2. \A j \in R : f[j] = S(j)
    BY <2>1
  <2>. QED
    BY <2>1, <2>2
<1>7. /\ N \in Nat
      /\ f = [j \in 1 .. N |-> f[j]]
      /\ \A j \in 1 .. N : f[j] \in G
      /\ \A y \in G : \E j \in 1 .. N : f[j] = y
      /\ \A j, k \in 1 .. N : f[j] = f[k] => j = k
  <2>. HIDE DEF f, G
  <2>. QED
    BY <1>1, <1>3, <1>4, <1>5, <1>6
<1>. HIDE DEF G, f, N
<1>8. Cardinality(G) = N
  BY <1>7, Numbered
<1>. QED
  BY <1>8 DEF G, N

\* A complete report has no issue of any kind.
LEMMA NoIssues ==
  ASSUME NEW o, Issues(o) = {}
  PROVE  /\ \A s \in o.specs : IngestIssues(s.tier, At(s)) = {}
         /\ ProofIssues(o) = {} /\ BindIssues(Samples(o), Built(o)) = {}
         /\ MatchIssues(Pooled(o)) = {} /\ CompletenessIssues(o, Pooled(o)) = {}
<1> DEFINE A == UNION {IngestIssues(s.tier, At(s)) : s \in o.specs}
           B == ProofIssues(o)
           C == BindIssues(Samples(o), Built(o))
           D == MatchIssues(Pooled(o))
           E == CompletenessIssues(o, Pooled(o))
<1>1. A \cup B \cup C \cup D \cup E = {}
  <2>1. Issues(o) = A \cup B \cup C \cup D \cup E
    BY Zenon DEF Issues
  <2>. HIDE DEF A, B, C, D, E
  <2>. QED
    BY <2>1
<1>. HIDE DEF A, B, C, D, E
<1>2. A = {} /\ B = {} /\ C = {} /\ D = {} /\ E = {}
  BY <1>1
<1>3. ASSUME NEW s \in o.specs PROVE IngestIssues(s.tier, At(s)) = {}
  <2> DEFINE I(t) == IngestIssues(t.tier, At(t))
  <2>1. UNION {I(t) : t \in o.specs} = {}
    BY <1>2 DEF A
  <2>. HIDE DEF I
  <2>2. I(s) = {}
    BY <2>1
  <2>. QED
    BY <2>2 DEF I
<1>. QED
  BY <1>2, <1>3 DEF B, C, D, E

\* Where the number comes from of one point.
LEMMA PointAttributed ==
  ASSUME NEW o \in Options, NEW r, ReportOf(o, r), NEW p \in r.points
  PROVE  LET m == Manifests[p.source] IN
         /\ m.roles # {"native-gate"}
         /\ p.repetitions = m.searches
         /\ m.reuse # None => p.builtBy \subseteq {m.reuse.source}
         /\ r.status = "complete" => p.builtBy # {}
         /\ \A b \in p.builtBy :
              /\ Manifests[b].shared = m.shared
              /\ \E n \in DOMAIN Manifests[b].stages :
                   /\ n[1] = IF p.system = "leann.cpp" THEN "native-build" ELSE "official-build"
                   /\ \E i \in DOMAIN Runs(Manifests[b], n) : Runs(Manifests[b], n)[i].index = p.index
<1>1. p \in Pooled(o)
  BY DEF ReportOf
<1>2. PICK x \in Samples(o) : p = PointAt(x, o)
  BY <1>1, PointOrigin
<1>3. PICK s \in Published(o) : \E n \in Searches(At(s)) :
           \E i \in DOMAIN Runs(At(s), n), c \in At(s).stages[n].asked :
             x = SampleAt(s, n, i, c)
  BY SampleOrigin
<1>4. PICK n \in Searches(At(s)) :
           \E i \in DOMAIN Runs(At(s), n), c \in At(s).stages[n].asked :
             x = SampleAt(s, n, i, c)
  BY <1>3
<1>5. PICK i \in DOMAIN Runs(At(s), n), c \in At(s).stages[n].asked : x = SampleAt(s, n, i, c)
  BY <1>4
<1> DEFINE m == At(s)
<1>6. s \in o.specs /\ Manifests[s.path] = m /\ m.roles # {"native-gate"}
  BY SpecFacts DEF Published, Gate
<1>7. x.source = s.path /\ x.tier = s.tier /\ x.reuse = m.reuse
  BY <1>5 DEF SampleAt
<1>8. /\ p.source = s.path /\ p.system = x.system /\ p.index = x.index
      /\ p.repetitions = Cardinality(Group(x, Samples(o)))
      /\ p.builtBy = {b.source : b \in Bound(x, Built(o))}
  BY <1>2, <1>7 DEF PointAt
<1>9. p.repetitions = m.searches
  BY <1>5, <1>8, GroupSize DEF ReportOf
<1>10. ASSUME NEW b \in Bound(x, Built(o))
       PROVE  /\ b \in Built(o) /\ b.tier = x.tier /\ b.system = x.system
              /\ b.index = x.index /\ (x.reuse # None => b.source = x.reuse.source)
  BY <1>10 DEF Bound, Matches
<1>11. m.reuse # None => p.builtBy \subseteq {m.reuse.source}
  BY <1>7, <1>8, <1>10
<1>12. r.status = "complete" => p.builtBy # {}
  <2>1. SUFFICES ASSUME r.status = "complete", Bound(x, Built(o)) = {} PROVE FALSE
    BY <1>8
  <2>2. Issue("unbound-index", x.tier, Profile(x)) \in BindIssues(Samples(o), Built(o))
    <3>1. x \in {y \in Samples(o) : Bound(y, Built(o)) = {}}
      BY <2>1
    <3> DEFINE Lost == {y \in Samples(o) : Bound(y, Built(o)) = {}}
               F(y) == Issue("unbound-index", y.tier, Profile(y))
    <3>2. {F(y) : y \in Lost} \subseteq BindIssues(Samples(o), Built(o))
      BY DEF BindIssues
    <3>3. F(x) \in {F(y) : y \in Lost}
      <4>. HIDE DEF F, Lost
      <4>. QED
        BY <3>1 DEF Lost
    <3>4. F(x) \in BindIssues(Samples(o), Built(o))
      <4>. HIDE DEF F, Lost
      <4>. QED
        BY <3>2, <3>3
    <3>. QED
      BY <3>4
  <2>3. Issues(o) = {}
    BY <2>1 DEF ReportOf
  <2>4. BindIssues(Samples(o), Built(o)) = {}
    BY <2>3, NoIssues
  <2>. QED
    BY <2>2, <2>4
<1>13. ASSUME NEW b \in Bound(x, Built(o))
       PROVE  /\ Manifests[b.source].shared = m.shared
              /\ \E k \in DOMAIN Manifests[b.source].stages :
                   /\ k[1] = IF p.system = "leann.cpp" THEN "native-build" ELSE "official-build"
                   /\ \E j \in DOMAIN Runs(Manifests[b.source], k) :
                        Runs(Manifests[b.source], k)[j].index = p.index
  <2>1. PICK t \in Published(o) : \E k \in Builds(At(t)) : \E j \in DOMAIN Runs(At(t), k) :
           /\ b.tier = t.tier /\ b.source = t.path /\ b.system = System(k)
           /\ b.index = Runs(At(t), k)[j].index
    BY <1>10, BuildOrigin
  <2>2. PICK k \in Builds(At(t)) : \E j \in DOMAIN Runs(At(t), k) :
           /\ b.tier = t.tier /\ b.source = t.path /\ b.system = System(k)
           /\ b.index = Runs(At(t), k)[j].index
    BY <2>1
  <2>3. t \in o.specs /\ Manifests[b.source] = At(t) /\ t.tier = s.tier
    BY <1>7, <1>10, <2>2, SpecFacts DEF Published
  <2>4. At(t).shared = m.shared
    BY <1>6, <2>3 DEF ReportOf, CrossSource
  <2>5. k \in DOMAIN At(t).stages /\ k[1] \in {"native-build", "official-build"}
    BY DEF Builds, Measured
  <2>6. p.system = System(k)
    BY <1>8, <1>10, <2>2
  <2>7. k[1] = IF p.system = "leann.cpp" THEN "native-build" ELSE "official-build"
    BY <2>5, <2>6 DEF System, NativeKinds
  <2>. QED
    BY <1>8, <1>10, <2>2, <2>3, <2>4, <2>5, <2>7
<1>14. ASSUME NEW d \in p.builtBy
       PROVE  /\ Manifests[d].shared = m.shared
              /\ \E k \in DOMAIN Manifests[d].stages :
                   /\ k[1] = IF p.system = "leann.cpp" THEN "native-build" ELSE "official-build"
                   /\ \E j \in DOMAIN Runs(Manifests[d], k) : Runs(Manifests[d], k)[j].index = p.index
  <2>1. PICK b \in Bound(x, Built(o)) : d = b.source
    BY <1>8
  <2>. QED
    BY <1>13, <2>1
<1>15. Manifests[p.source] = m
  BY <1>6, <1>8
<1>. HIDE DEF m
<1>. QED
  BY <1>6, <1>9, <1>11, <1>12, <1>14, <1>15

\* What _completeness found nothing to say about.
LEMMA CompleteProfile ==
  ASSUME NEW o, NEW points, CompletenessIssues(o, points) = {}, NEW t \in Tiers, NEW f \in Profiles
  PROVE  /\ At_(points, t, f) # {}
         /\ Required(f) \subseteq Settings(At_(points, t, f), f)
         /\ ~Split(At_(points, t, f), f)
<1> DEFINE Lacks(u, g) ==
             \/ ~(Required(g) \subseteq Settings(At_(points, u, g), g))
             \/ g = "official-real" /\ Cardinality(At_(points, u, g)) < MinReal
           A(u, g) == IF At_(points, u, g) = {} THEN {Issue("missing-profile", u, g)} ELSE {}
           B(u, g) == IF Lacks(u, g) THEN {Issue("missing-configuration", u, g)} ELSE {}
           C(u, g) == IF ~Lacks(u, g) /\ Split(At_(points, u, g), g)
                      THEN {Issue("split-sweep", u, g)} ELSE {}
           K(u, g) == A(u, g) \cup B(u, g) \cup C(u, g)
<1>1. UNION {K(u, g) : u \in Tiers, g \in Profiles} = {}
  <2> DEFINE M == {Issue("missing-tier", u, "all") : u \in Tiers \ TiersOf(o)}
             N == UNION {K(u, g) : u \in Tiers, g \in Profiles}
  <2>1. CompletenessIssues(o, points) = M \cup N
    BY DEF CompletenessIssues
  <2>. HIDE DEF M, N
  <2>2. N = {}
    BY <2>1
  <2>. QED
    BY <2>2 DEF N
<1>2. K(t, f) = {}
  <2>. HIDE DEF K
  <2>. QED
    BY <1>1
<1>3. A(t, f) = {} /\ B(t, f) = {} /\ C(t, f) = {}
  <2>. HIDE DEF A, B, C
  <2>. QED
    BY <1>2
<1>4. At_(points, t, f) # {}
  BY <1>3
<1>5. ~Lacks(t, f)
  <2>. HIDE DEF Lacks
  <2>. QED
    BY <1>3
<1>6. ~Split(At_(points, t, f), f)
  <2>. HIDE DEF Lacks
  <2>. QED
    BY <1>3, <1>5
<1>. QED
  BY <1>4, <1>5, <1>6

\* Points come from the runs of the command line, with the numbers measured there.
LEMMA PointFacts ==
  ASSUME NEW o \in Options, NEW p \in Pooled(o)
  PROVE  /\ p.source \in {s.path : s \in o.specs} /\ p.source \in DOMAIN Manifests
         /\ p.tier \in Tiers
         /\ p.recall = Cardinality(p.ids \cap Manifests[p.source].shared.truth)
         /\ p.recall \in Nat /\ p.candidates \in Nat
         /\ p.config[1] \in Nat /\ p.config[2] \in Nat
<1>1. PICK x \in Samples(o) : p = PointAt(x, o)
  BY PointOrigin
<1>2. PICK s \in Published(o) : \E n \in Searches(At(s)) :
           \E i \in DOMAIN Runs(At(s), n), c \in At(s).stages[n].asked :
             x = SampleAt(s, n, i, c)
  BY SampleOrigin
<1>3. PICK n \in Searches(At(s)) :
           \E i \in DOMAIN Runs(At(s), n), c \in At(s).stages[n].asked :
             x = SampleAt(s, n, i, c)
  BY <1>2
<1>4. PICK i \in DOMAIN Runs(At(s), n), c \in At(s).stages[n].asked : x = SampleAt(s, n, i, c)
  BY <1>3
<1> DEFINE m == At(s)
<1>5. /\ p.source = s.path /\ p.tier = s.tier /\ p.config = c
      /\ p.ids = Runs(m, n)[i].points[c].ids
      /\ p.recall = Cardinality(Runs(m, n)[i].points[c].ids \cap m.shared.truth)
      /\ p.candidates = Runs(m, n)[i].points[c].candidates
  BY <1>1, <1>4 DEF PointAt, SampleAt
<1>6. s \in o.specs /\ s.path \in DOMAIN Manifests /\ m = Manifests[s.path] /\ s.tier \in Tiers
  BY SpecFacts DEF Published
<1>7. n \in DOMAIN m.stages
  BY DEF Searches, Measured
<1>. HIDE DEF m
<1>8. /\ IsFiniteSet(m.shared.truth)
      /\ c \in Nat \X Nat
      /\ Runs(m, n)[i].points[c].candidates \in Nat
  BY <1>4, <1>6, <1>7, StageFacts DEF m
<1>9. p.recall \in Nat
  <2>1. IsFiniteSet(Runs(m, n)[i].points[c].ids \cap m.shared.truth)
    BY <1>8, FS_Intersection
  <2>. QED
    BY <1>5, <2>1, FS_CardinalityType
<1>. QED
  BY <1>5, <1>6, <1>8, <1>9

\* What a function names of a finite set is finite.
LEMMA ImageFinite ==
  ASSUME NEW S, IsFiniteSet(S), NEW f, DOMAIN f = S
  PROVE  IsFiniteSet({f[x] : x \in S})
<1> DEFINE T == {f[x] : x \in S}
           g == [x \in S |-> f[x]]
<1>1. g \in Surjection(S, T)
  BY DEF Surjection
<1>. HIDE DEF g, T
<1>2. IsFiniteSet(T)
  BY <1>1, FS_Surjection DEF ExistsSurjection
<1>. QED
  BY <1>2 DEF T

\* A sweep whose required points are of one run.
LEMMA OneRun ==
  ASSUME NEW o \in Options, NEW t \in Tiers, NEW f \in Profiles,
         CompletenessIssues(o, Pooled(o)) = {}
  PROVE  \E path \in DOMAIN Manifests : \A c \in Required(f) :
           \E p \in At_(Pooled(o), t, f) : p.source = path /\ Setting(f, p.config) = c
<1> DEFINE F == At_(Pooled(o), t, f)
           P == {p.source : p \in {q \in F : Setting(f, q.config) \in Required(f)}}
<1>1. F # {} /\ Required(f) \subseteq Settings(F, f) /\ ~(Cardinality(P) > 1)
  BY CompleteProfile DEF Split
<1>2. \A p \in F : p \in Pooled(o)
  BY DEF At_
<1>. HIDE DEF F
<1>3. IsFiniteSet(P)
  <2> DEFINE S == {s.path : s \in o.specs}
             g == [s \in o.specs |-> s.path]
  <2>1. IsFiniteSet(S)
    <3>1. S = {g[s] : s \in o.specs} /\ DOMAIN g = o.specs
      OBVIOUS
    <3>2. IsFiniteSet(o.specs)
      BY CollectionAssumption
    <3>. HIDE DEF S, g
    <3>. QED
      BY <3>1, <3>2, ImageFinite
  <2>2. P \subseteq S
    BY <1>2, PointFacts
  <2>. HIDE DEF P, S
  <2>. QED
    BY <2>1, <2>2, FS_Subset
<1>4. \A a, b \in P : a = b
  <2>. HIDE DEF P
  <2>. SUFFICES ASSUME NEW a \in P, NEW b \in P, a # b PROVE FALSE
    OBVIOUS
  <2>1. Cardinality({a, b}) = 2 /\ {a, b} \in SUBSET P
    <3>1. IsFiniteSet({a}) /\ Cardinality({a}) = 1
      BY FS_Singleton
    <3>2. Cardinality({a} \cup {b}) = 1 + 1
      <4> DEFINE A == {a}
      <4>1. IsFiniteSet(A) /\ Cardinality(A) = 1 /\ b \notin A
        BY <3>1
      <4>. HIDE DEF A
      <4>2. Cardinality(A \cup {b}) = 1 + 1
        BY <4>1, FS_AddElement
      <4>. QED
        BY <4>2 DEF A
    <3>3. {a} \cup {b} = {a, b}
      OBVIOUS
    <3>. QED
      BY <3>2, <3>3
  <2>2. Cardinality({a, b}) <= Cardinality(P) /\ Cardinality(P) \in Nat
    BY <1>3, <2>1, FS_Subset, FS_CardinalityType
  <2>. QED
    BY <1>1, <2>1, <2>2
<1>5. PICK q \in F : Required(f) # {} => Setting(f, q.config) \in Required(f)
  BY <1>1 DEF Settings
<1>6. q.source \in DOMAIN Manifests
  BY <1>2, PointFacts
<1>7. ASSUME NEW c \in Required(f)
      PROVE  \E p \in F : p.source = q.source /\ Setting(f, p.config) = c
  <2>1. PICK p \in F : Setting(f, p.config) = c
    BY <1>1 DEF Settings
  <2>2. p.source \in P /\ q.source \in P
    BY <1>5, <2>1
  <2>. QED
    BY <1>4, <2>1, <2>2
<1>. QED
  BY <1>6, <1>7 DEF F

\* Finitely many finite sets are finite together.
LEMMA FamilyFinite ==
  ASSUME NEW S, IsFiniteSet(S), NEW f, DOMAIN f = S, \A x \in S : IsFiniteSet(f[x])
  PROVE  IsFiniteSet(UNION {f[x] : x \in S})
<1> DEFINE T == {f[x] : x \in S}
<1>1. IsFiniteSet(T)
  BY ImageFinite
<1>2. \A U \in T : IsFiniteSet(U)
  OBVIOUS
<1>. HIDE DEF T
<1>3. IsFiniteSet(UNION T)
  BY <1>1, <1>2, FS_UNION
<1>. QED
  BY <1>3 DEF T

\* Finitely many stages, repetitions and configurations give finitely many points.
LEMMA PooledFinite ==
  ASSUME NEW o \in Options
  PROVE  IsFiniteSet(Pooled(o))
<1>1. ASSUME NEW s \in Published(o) PROVE IsFiniteSet(SamplesOf(s))
  <2> DEFINE m == At(s)
             R(n, i) == {SampleAt(s, n, i, c) : c \in m.stages[n].asked}
             U(n) == UNION {R(n, i) : i \in DOMAIN Runs(m, n)}
  <2>1. s.path \in DOMAIN Manifests /\ m = Manifests[s.path] /\ Searches(m) \subseteq DOMAIN m.stages
    BY SpecFacts DEF Published, Searches, Measured
  <2>2. SamplesOf(s) = UNION {U(n) : n \in Searches(m)}
    BY DEF SamplesOf, SampleAt
  <2>. HIDE DEF m
  <2>3. ASSUME NEW n \in Searches(m), NEW i \in DOMAIN Runs(m, n) PROVE IsFiniteSet(R(n, i))
    <3> DEFINE A == m.stages[n].asked
               g == [c \in A |-> SampleAt(s, n, i, c)]
    <3>1. IsFiniteSet(A)
      BY <2>1, StageFacts
    <3>2. DOMAIN g = A /\ R(n, i) = {g[c] : c \in A}
      OBVIOUS
    <3>. HIDE DEF A, g, R
    <3>. QED
      BY <3>1, <3>2, ImageFinite
  <2>. HIDE DEF R
  <2>4. ASSUME NEW n \in Searches(m) PROVE IsFiniteSet(U(n))
    <3> DEFINE D == DOMAIN Runs(m, n)
               g == [i \in D |-> R(n, i)]
    <3>1. IsFiniteSet(D)
      <4>1. Len(Runs(m, n)) \in Nat /\ D = 1 .. Len(Runs(m, n))
        BY <2>1, StageFacts
      <4>. HIDE DEF D
      <4>. QED
        BY <4>1, FS_Interval
    <3>2. DOMAIN g = D /\ U(n) = UNION {g[i] : i \in D} /\ \A i \in D : IsFiniteSet(g[i])
      BY <2>3
    <3>. HIDE DEF D, g, U
    <3>. QED
      BY <3>1, <3>2, FamilyFinite
  <2>. HIDE DEF U
  <2> DEFINE S == Searches(m)
             h == [n \in S |-> U(n)]
  <2>5. IsFiniteSet(S)
    BY <2>1, StageFacts, FS_Subset
  <2>6. DOMAIN h = S /\ SamplesOf(s) = UNION {h[n] : n \in S} /\ \A n \in S : IsFiniteSet(h[n])
    BY <2>2, <2>4
  <2>. HIDE DEF S, h
  <2>. QED
    BY <2>5, <2>6, FamilyFinite
<1>2. IsFiniteSet(Samples(o))
  <2> DEFINE P == Published(o)
             h == [s \in P |-> SamplesOf(s)]
  <2>1. IsFiniteSet(P)
    BY CollectionAssumption, FS_Subset DEF Published
  <2>2. DOMAIN h = P /\ Samples(o) = UNION {h[s] : s \in P} /\ \A s \in P : IsFiniteSet(h[s])
    BY <1>1 DEF Samples
  <2>. HIDE DEF P, h
  <2>. QED
    BY <2>1, <2>2, FamilyFinite
<1>. QED
  <2> DEFINE X == Samples(o)
             g == [x \in X |-> PointAt(x, o)]
  <2>1. DOMAIN g = X /\ Pooled(o) = {g[x] : x \in X}
    BY DEF Pooled, Points, PointAt
  <2>2. IsFiniteSet(X)
    BY <1>2
  <2>. HIDE DEF X, g
  <2>. QED
    BY <2>1, <2>2, ImageFinite

\* The numbers that pairs are ranked by.
LEMMA GapIs ==
  ASSUME NEW n, NEW r, n.recall \in Nat, r.recall \in Nat
  PROVE  Gap(n, r) \in Int /\ Min({n.recall, r.recall}) \in Int
<1> DEFINE a == n.recall - r.recall
           b == r.recall - n.recall
<1>1. a \in Int /\ b \in Int
  OBVIOUS
<1>. HIDE DEF a, b
<1>2. \E x \in {a, b} : \A y \in {a, b} : x >= y
  BY <1>1
<1>3. Max({a, b}) \in {a, b}
  BY <1>2 DEF Max
<1>4. Min({n.recall, r.recall}) \in {n.recall, r.recall}
  <2>1. \E x \in {n.recall, r.recall} : \A y \in {n.recall, r.recall} : x <= y
    OBVIOUS
  <2>. QED
    BY <2>1 DEF Min
<1>5. Gap(n, r) = Max({a, b})
  BY DEF Gap, a, b
<1>. QED
  BY <1>1, <1>3, <1>4, <1>5

LEMMA RankIs ==
  ASSUME NEW o \in Options, NEW n \in Pooled(o), NEW r \in Pooled(o)
  PROVE  Rank(n, r) \in [1 .. 7 -> Int] /\ Rank(n, r)[1] = Gap(n, r)
<1>1. /\ n.recall \in Nat /\ r.recall \in Nat /\ n.candidates \in Nat /\ r.candidates \in Nat
      /\ n.config[1] \in Nat /\ n.config[2] \in Nat
      /\ r.config[1] \in Nat /\ r.config[2] \in Nat
  BY PointFacts
<1>2. Gap(n, r) \in Int /\ Min({n.recall, r.recall}) \in Int
  BY <1>1, GapIs
<1> DEFINE g == Gap(n, r)
           h == Min({n.recall, r.recall})
           c == n.candidates + r.candidates
           x == n.config[1]
           y == r.config[1]
           z == r.config[2]
           w == n.config[2]
<1>3. g \in Int /\ h \in Int /\ c \in Int /\ x \in Int /\ y \in Int /\ z \in Int /\ w \in Int
  BY <1>1, <1>2
<1>4. Rank(n, r) = <<g, c, -h, x, y, z, w>>
  BY DEF Rank
<1>. HIDE DEF g, h, c, x, y, z, w
<1>5. -h \in Int
  BY <1>3
<1> DEFINE k == -h
<1>. HIDE DEF k
<1>6. <<g, c, k, x, y, z, w>> \in [1 .. 7 -> Int]
  BY <1>3, <1>5 DEF k
<1>. QED
  BY <1>4, <1>6 DEF k, g

\* Ranks are compared lexicographically.
LEMMA BeforeOrder ==
  ASSUME NEW N \in Nat, NEW a \in [1 .. N -> Int], NEW b \in [1 .. N -> Int], NEW c \in [1 .. N -> Int]
  PROVE  ~Before(a, a) /\ (Before(a, b) /\ Before(b, c) => Before(a, c))
<1>1. ~Before(a, a)
  BY DEF Before
<1>2. ASSUME Before(a, b), Before(b, c) PROVE Before(a, c)
  <2>1. PICK i \in 1 .. N : a[i] < b[i] /\ \A j \in 1 .. i - 1 : a[j] = b[j]
    BY <1>2 DEF Before
  <2>2. PICK k \in 1 .. N : b[k] < c[k] /\ \A j \in 1 .. k - 1 : b[j] = c[j]
    BY <1>2 DEF Before
  <2>3. CASE i < k
    <3>1. a[i] < c[i] /\ \A j \in 1 .. i - 1 : a[j] = c[j]
      BY <2>1, <2>2, <2>3
    <3>. QED
      BY <3>1 DEF Before
  <2>4. CASE i = k
    <3>1. a[i] < c[i] /\ \A j \in 1 .. i - 1 : a[j] = c[j]
      BY <2>1, <2>2, <2>4
    <3>. QED
      BY <3>1 DEF Before
  <2>5. CASE k < i
    <3>1. a[k] < c[k] /\ \A j \in 1 .. k - 1 : a[j] = c[j]
      BY <2>1, <2>2, <2>5
    <3>. QED
      BY <3>1 DEF Before
  <2>. QED
    BY <2>3, <2>4, <2>5
<1>. QED
  BY <1>1, <1>2

\* Of some subsets of a finite set one has none of the others below it.
LEMMA MinimalSubset ==
  ASSUME NEW S, IsFiniteSet(S), NEW F \in SUBSET SUBSET S, F # {}
  PROVE  \E U \in F : \A V \in F : V \subseteq U => V = U
<1>1. IsWellFoundedOn(StrictSubsetOrdering(S), SUBSET S)
  BY FS_StrictSubsetOrderingWellFounded, FS_FiniteSubsetsOfFinite
<1>2. PICK U \in F : \A V \in F : ~ (<<V, U>> \in StrictSubsetOrdering(S))
  BY <1>1, WFMin
<1>. QED
  BY <1>2 DEF StrictSubsetOrdering

\* A strict order on a finite set that is not empty leaves somebody first.
LEMMA FirstExists ==
  ASSUME NEW S, IsFiniteSet(S), S # {}, NEW R,
         \A a, b, c \in S : <<a, b>> \in R /\ <<b, c>> \in R => <<a, c>> \in R,
         \A a \in S : <<a, a>> \notin R
  PROVE  \E x \in S : \A y \in S : <<y, x>> \notin R
<1> DEFINE F == {V \in SUBSET S : V # {} /\ \A a \in V, b \in S : <<b, a>> \in R => b \in V}
<1>1. F \in SUBSET SUBSET S /\ S \in F
  OBVIOUS
<1>2. PICK V \in F : \A W \in F : W \subseteq V => W = V
  <2>. HIDE DEF F
  <2>. QED
    BY <1>1, MinimalSubset
<1>3. PICK x \in V : TRUE
  BY <1>2
<1> DEFINE W == {b \in V : <<b, x>> \in R}
<1>4. V \subseteq S /\ W \subseteq V /\ W # V
  BY <1>2, <1>3
<1>5. \A a \in W, b \in S : <<b, a>> \in R => b \in W
  BY <1>2, <1>3, <1>4
<1>6. W = {}
  <2>. SUFFICES ASSUME W # {} PROVE FALSE
    OBVIOUS
  <2>1. W \in F
    BY <1>4, <1>5
  <2>. QED
    BY <1>2, <1>4, <2>1
<1>. QED
  BY <1>2, <1>3, <1>4, <1>6

\* _matched_comparisons finds a pair of which none is before it.
LEMMA BestPair ==
  ASSUME NEW o \in Options, NEW t, Pairs(Pooled(o), t) # {}
  PROVE  Matched(Pooled(o), t) # {}
<1> DEFINE S == Pairs(Pooled(o), t)
           R == {p \in S \X S : Before(Rank(p[1][1], p[1][2]), Rank(p[2][1], p[2][2]))}
<1>1. \A p \in S : p[1] \in Pooled(o) /\ p[2] \in Pooled(o)
  BY DEF Pairs, Verified, At_
<1>2. IsFiniteSet(S)
  <2> DEFINE P == Pooled(o)
  <2>1. S \subseteq P \X P
    BY DEF Pairs, Verified, At_
  <2>2. IsFiniteSet(P)
    BY PooledFinite
  <2>. HIDE DEF S, P
  <2>3. IsFiniteSet(P \X P)
    BY <2>2, FS_Product
  <2>. QED
    BY <2>1, <2>3, FS_Subset
<1>. HIDE DEF S
<1>3. \A p, q \in S : <<p, q>> \in R <=> Before(Rank(p[1], p[2]), Rank(q[1], q[2]))
  OBVIOUS
<1>. HIDE DEF R
<1>4. \A p \in S : Rank(p[1], p[2]) \in [1 .. 7 -> Int]
  BY <1>1, RankIs
<1> DEFINE V == [1 .. 7 -> Int]
<1>10. \A a, b, c \in V : ~Before(a, a) /\ (Before(a, b) /\ Before(b, c) => Before(a, c))
  BY BeforeOrder
<1>11. \A p \in S : Rank(p[1], p[2]) \in V
  BY <1>4
<1>. HIDE DEF V
<1>5. \A p \in S : <<p, p>> \notin R
  BY <1>3, <1>10, <1>11
<1>6. ASSUME NEW p \in S, NEW q \in S, NEW u \in S, <<p, q>> \in R, <<q, u>> \in R
      PROVE  <<p, u>> \in R
  BY <1>3, <1>6, <1>10, <1>11
<1>7. PICK p \in S : \A q \in S : <<q, p>> \notin R
  <2>1. S # {}
    BY DEF S
  <2>. QED
    BY <1>2, <1>5, <1>6, <2>1, FirstExists
<1>8. \A q \in S : ~Before(Rank(q[1], q[2]), Rank(p[1], p[2]))
  BY <1>3, <1>7
<1>9. p \in Matched(Pooled(o), t)
  BY <1>8 DEF Matched, S
<1>. QED
  BY <1>9

\* Nothing to report of the comparisons of a complete report.
LEMMA NoMatchIssue ==
  ASSUME NEW points, MatchIssues(points) = {}
  PROVE  /\ \A p \in points : Profile(p) = "official-real" => p \in Verified(points, p.tier)
         /\ \A t \in Tiers : Pairs(points, t) # {}
<1> DEFINE Lost == {q \in points : /\ Profile(q) = "official-real"
                                   /\ q \notin Verified(points, q.tier)}
           F(p) == Issue("real-cached-counterpart-mismatch", p.tier, "official-real")
           None_ == {u \in Tiers : Pairs(points, u) = {}}
           G(u) == Issue("no-predeclared-matched-pair", u, "official-real")
<1>1. {F(p) : p \in Lost} = {} /\ {G(u) : u \in None_} = {}
  <2>1. MatchIssues(points) = {F(p) : p \in Lost} \cup {G(u) : u \in None_}
    BY DEF MatchIssues
  <2>. HIDE DEF F, G, Lost, None_
  <2>. QED
    BY <2>1
<1>2. Lost = {} /\ None_ = {}
  <2>. HIDE DEF F, G, Lost, None_
  <2>. QED
    BY <1>1
<1>. QED
  BY <1>2

\* What CompleteCoversMatrix says of one tier.
TierCovers(points, matched, t) ==
  LET of(profile) == {p \in points : p.tier = t /\ Profile(p) = profile}
      hits(p) == Cardinality(p.ids \cap Manifests[p.source].shared.truth)
  IN
  /\ \E path \in DOMAIN Manifests :
       \A ef \in Efs : \E p \in of("native") : p.source = path /\ p.config[1] = ef
  /\ \E path \in DOMAIN Manifests :
       \A c \in Configs : \E p \in of("official-cached") : p.source = path /\ p.config = c
  /\ \A p \in of("official-real") :
       \E c \in of("official-cached") : c.config = p.config /\ c.ids = p.ids
  /\ \E pair \in matched :
       /\ pair[1] \in of("native") /\ pair[2] \in of("official-real")
       /\ hits(pair[1]) >= MinRecall /\ hits(pair[2]) >= MinRecall
       /\ \A n \in of("native"), p \in of("official-real") :
            hits(n) >= MinRecall /\ hits(p) >= MinRecall
              => Gap(pair[1], pair[2]) <= Gap(n, p)

\* One tier of a complete report.
LEMMA TierCovered ==
  ASSUME NEW o \in Options, Issues(o) = {}, NEW t \in Tiers
  PROVE  TierCovers(Pooled(o), Matched(Pooled(o), t), t)
<1> DEFINE of(profile) == At_(Pooled(o), t, profile)
           hits(p) == Cardinality(p.ids \cap Manifests[p.source].shared.truth)
<1>1. CompletenessIssues(o, Pooled(o)) = {} /\ MatchIssues(Pooled(o)) = {}
  BY NoIssues
<1>2. \E path \in DOMAIN Manifests :
        \A ef \in Efs : \E p \in of("native") : p.source = path /\ p.config[1] = ef
  <2>1. PICK path \in DOMAIN Manifests : \A c \in Required("native") :
           \E p \in of("native") : p.source = path /\ Setting("native", p.config) = c
    BY <1>1, OneRun DEF Profiles
  <2>2. Required("native") = Efs /\ \A c : Setting("native", c) = c[1]
    BY DEF Required, Setting
  <2>. HIDE DEF of
  <2>. QED
    BY <2>1, <2>2
<1>3. \E path \in DOMAIN Manifests :
        \A c \in Configs : \E p \in of("official-cached") : p.source = path /\ p.config = c
  <2>1. PICK path \in DOMAIN Manifests : \A c \in Required("official-cached") :
           \E p \in of("official-cached") :
             p.source = path /\ Setting("official-cached", p.config) = c
    BY <1>1, OneRun DEF Profiles
  <2>2. Required("official-cached") = Configs /\ \A c : Setting("official-cached", c) = c
    BY DEF Required, Setting
  <2>. HIDE DEF of
  <2>. QED
    BY <2>1, <2>2
<1>4. \A p \in of("official-real") : p \in Verified(Pooled(o), t)
  BY <1>1, NoMatchIssue DEF At_
<1>5. \A p \in of("official-real") :
        \E c \in of("official-cached") : c.config = p.config /\ c.ids = p.ids
  BY <1>4 DEF Verified, Counterpart
<1>6. PICK pair \in Matched(Pooled(o), t) : TRUE
  BY <1>1, BestPair, NoMatchIssue
<1>7. /\ pair[1] \in of("native") /\ pair[2] \in of("official-real")
      /\ Eligible(pair[1], pair[2])
      /\ \A q \in Pairs(Pooled(o), t) : ~Before(Rank(q[1], q[2]), Rank(pair[1], pair[2]))
  BY DEF Matched, Pairs, Verified, At_
<1>8. \A f : \A p \in of(f) : p \in Pooled(o) /\ p.recall = hits(p) /\ p.recall \in Nat
  BY PointFacts DEF At_
<1>9. ASSUME NEW n \in of("native"), NEW p \in of("official-real"),
             hits(n) >= MinRecall, hits(p) >= MinRecall
      PROVE  Gap(pair[1], pair[2]) <= Gap(n, p)
  <2>1. Gap(n, p) \in Int /\ Gap(pair[1], pair[2]) \in Int
    BY <1>7, <1>8, GapIs
  <2>2. CASE Gap(n, p) > Tolerance
    <3>1. Gap(pair[1], pair[2]) <= Tolerance /\ Tolerance \in Nat
      BY <1>7, CollectionAssumption DEF Eligible
    <3>. QED
      BY <2>1, <2>2, <3>1
  <2>3. CASE Gap(n, p) <= Tolerance
    <3>1. Eligible(n, p)
      BY <1>8, <1>9, <2>3 DEF Eligible
    <3>2. <<n, p>> \in Pairs(Pooled(o), t)
      BY <1>4, <3>1 DEF Pairs
    <3>3. ~Before(Rank(n, p), Rank(pair[1], pair[2]))
      BY <1>7, <3>2
    <3>4. /\ Rank(n, p) \in [1 .. 7 -> Int] /\ Rank(n, p)[1] = Gap(n, p)
          /\ Rank(pair[1], pair[2])[1] = Gap(pair[1], pair[2])
      <4>1. n \in Pooled(o) /\ p \in Pooled(o) /\ pair[1] \in Pooled(o) /\ pair[2] \in Pooled(o)
        BY <1>7, <1>8
      <4>. QED
        BY <4>1, RankIs
    <3> DEFINE a == Rank(n, p)
               b == Rank(pair[1], pair[2])
    <3>5. ~(a[1] < b[1])
      <4>1. ~Before(a, b) /\ DOMAIN a = 1 .. 7
        BY <3>3, <3>4
      <4>. HIDE DEF a, b
      <4>. QED
        BY <4>1 DEF Before
    <3>. QED
      BY <2>1, <3>4, <3>5
  <2>. QED
    BY <2>1, <2>2, <2>3, CollectionAssumption
<1>10. hits(pair[1]) >= MinRecall /\ hits(pair[2]) >= MinRecall
  BY <1>7, <1>8 DEF Eligible
<1>11. \A f : of(f) = {p \in Pooled(o) : p.tier = t /\ Profile(p) = f}
  BY DEF At_
<1>12. \E q \in Matched(Pooled(o), t) :
         /\ q[1] \in of("native") /\ q[2] \in of("official-real")
         /\ hits(q[1]) >= MinRecall /\ hits(q[2]) >= MinRecall
         /\ \A n \in of("native"), p \in of("official-real") :
              hits(n) >= MinRecall /\ hits(p) >= MinRecall => Gap(q[1], q[2]) <= Gap(n, p)
  <2>. HIDE DEF of, hits
  <2>. QED
    BY <1>6, <1>7, <1>9, <1>10
<1>. QED
  BY <1>2, <1>3, <1>5, <1>12, Zenon DEF TierCovers, At_

\* All of a complete report.
LEMMA CompleteCovered ==
  ASSUME NEW o \in Options, NEW r, ReportOf(o, r), r.status = "complete"
  PROVE  /\ \A s \in r.specs : /\ At(s).complete
                                /\ \A n \in DOMAIN At(s).stages :
                                     At(s).stages[n].present /\ At(s).stages[n].complete
         /\ Tiers \subseteq r.parity /\ Tiers \subseteq r.attested
         /\ \A s, t \in r.specs : s.tier = "100k" /\ t.tier = "1m" =>
              IsPrefix(At(s).shared.vectors, At(t).shared.vectors)
<1>1. r.specs = o.specs /\ Issues(o) = {} /\ CrossSource(o) /\ TierPrefix(o)
  BY DEF ReportOf
<1>2. ASSUME NEW s \in o.specs
      PROVE  /\ At(s).complete
             /\ \A n \in DOMAIN At(s).stages :
                  At(s).stages[n].present /\ At(s).stages[n].complete
  <2> DEFINE m == At(s)
             A == IF m.complete THEN {} ELSE {Issue("manifest-incomplete", s.tier, "all")}
             Lost == {k \in DOMAIN m.stages : ~m.stages[k].present}
             Cut == {k \in DOMAIN m.stages : m.stages[k].present /\ ~m.stages[k].complete}
             F(n) == Issue("missing-stage-file", s.tier, StageProfile(m, n))
             G(n) == Issue("stage-incomplete", s.tier, StageProfile(m, n))
  <2>1. A \cup {F(n) : n \in Lost} \cup {G(n) : n \in Cut} = {}
    BY <1>1, NoIssues DEF IngestIssues
  <2>2. A = {} /\ Lost = {} /\ Cut = {}
    <3>. HIDE DEF A, F, G, Lost, Cut
    <3>. QED
      BY <2>1
  <2>. QED
    BY <2>2
<1>3. ASSUME NEW s \in o.specs, NEW t \in o.specs, s.tier = "100k", t.tier = "1m"
      PROVE  IsPrefix(At(s).shared.vectors, At(t).shared.vectors)
  <2>1. Tiers \subseteq TiersOf(o)
    BY <1>3 DEF Tiers, TiersOf
  <2>2. Dataset(o, "100k") = At(s).shared /\ Dataset(o, "1m") = At(t).shared
    BY <1>1, <1>3 DEF Dataset, CrossSource
  <2>3. IsStrictPrefix(At(s).shared.vectors, At(t).shared.vectors)
    BY <1>1, <2>1, <2>2 DEF TierPrefix
  <2>. QED
    BY <2>3 DEF IsStrictPrefix
<1>4. Tiers \subseteq r.parity /\ Tiers \subseteq r.attested
  <2> DEFINE Alone == Tiers \ o.parity
             Bare == Tiers \ o.attested
             F(t) == Issue("missing-embedding-parity", t, "all")
             G(t) == Issue("missing-endpoint-attestation", t, "all")
  <2>1. {F(t) : t \in Alone} \cup {G(t) : t \in Bare} = {}
    BY <1>1, NoIssues DEF ProofIssues
  <2>2. Alone = {} /\ Bare = {}
    <3>. HIDE DEF Alone, Bare, F, G
    <3>. QED
      BY <2>1
  <2>. QED
    BY <2>2 DEF ReportOf
<1>. QED
  BY <1>1, <1>2, <1>3, <1>4

\* A report is one that Collect made of some command line.
LEMMA ReportTaken ==
  ASSUME CollectionTypeOK, NEW r \in Reports
  PROVE  \E o \in Options : ReportOf(o, r)
<1>1. r \in Collected \ {None}
  BY DEF CollectionTypeOK, Reports
<1>. QED
  BY <1>1, Taken

\* The two properties say of every report what the lemmas say of one.
LEMMA ReportsAttributed == CollectionTypeOK => PointsAttributed
<1> SUFFICES ASSUME CollectionTypeOK, NEW r \in Reports
             PROVE  \A p \in r.points :
    LET m == Manifests[p.source] IN
    /\ m.roles # {"native-gate"}
    /\ p.repetitions = m.searches
    /\ m.reuse # None => p.builtBy \subseteq {m.reuse.source}
    /\ r.status = "complete" => p.builtBy # {}
    /\ \A b \in p.builtBy :
         /\ Manifests[b].shared = m.shared
         /\ \E n \in DOMAIN Manifests[b].stages :
              /\ n[1] = IF p.system = "leann.cpp" THEN "native-build" ELSE "official-build"
              /\ \E i \in DOMAIN Runs(Manifests[b], n) : Runs(Manifests[b], n)[i].index = p.index
  BY Zenon DEF PointsAttributed
<1>1. PICK o \in Options : ReportOf(o, r)
  BY ReportTaken
<1>. QED
  BY <1>1, PointAttributed

LEMMA ReportsCover == CollectionTypeOK => CompleteCoversMatrix
<1> SUFFICES ASSUME CollectionTypeOK, NEW r \in Reports, r.status = "complete"
             PROVE
    /\ \A s \in r.specs : /\ At(s).complete
                           /\ \A n \in DOMAIN At(s).stages :
                                At(s).stages[n].present /\ At(s).stages[n].complete
    /\ Tiers \subseteq r.parity /\ Tiers \subseteq r.attested
    /\ \A s, t \in r.specs : s.tier = "100k" /\ t.tier = "1m" =>
         IsPrefix(At(s).shared.vectors, At(t).shared.vectors)
    /\ \A t \in Tiers : TierCovers(r.points, r.matched[t], t)
  BY Zenon DEF CompleteCoversMatrix, TierCovers
<1>1. PICK o \in Options : ReportOf(o, r)
  BY ReportTaken
<1>2. Issues(o) = {} /\ r.points = Pooled(o) /\ \A t \in Tiers : r.matched[t] = Matched(Pooled(o), t)
  BY <1>1 DEF ReportOf
<1>. QED
  BY <1>1, <1>2, CompleteCovered, TierCovered

\* _bind_search_indexes, _aggregate_points: whatever is collected, a point pools the
\* repetitions that its one run declared, and its index is one that a build of the same
\* system over the same data produced.
THEOREM PointsAttributedHolds == Spec => []PointsAttributed
<1>. QED
  BY ReportsAttributed, TypeCorrect, PTL

\* _completeness, _matched_comparisons: whatever is collected, "complete" means that the
\* required matrix is covered, run by run, and that no pair is closer than the matched one.
THEOREM CompleteCoversMatrixHolds == Spec => []CompleteCoversMatrix
<1>. QED
  BY ReportsCover, TypeCorrect, PTL
=============================================================================
