--------------------------- MODULE PreparationProofs ---------------------------
(***************************************************************************)
(* Theorems about runs of prepare_beir_nq_scale.py, for any number of them, *)
(* any corpora and any options.                                             *)
(***************************************************************************)
EXTENDS DatasetPreparation, FiniteSetTheorems, WellFoundedInduction, TLAPS

\* What a run that gets through prepare makes of the source.
Corpus(r)   == IndexCorpus(source, Options[r])
Accepted(r) == /\ QueriesAccepted(source, Options[r]) /\ CorpusAccepted(source, Options[r])
               /\ SelectionAccepted(Corpus(r), Options[r])
Selected(r) == SelectDocuments(Corpus(r), Options[r])
Files(r)    == [tiers |-> WriteDocuments(Selected(r), Options[r]),
                queries |-> WriteQueries(source, Options[r])]
Result(r)   == [tiers |-> Files(r).tiers, queries |-> Files(r).queries,
                manifest |-> BuildManifest(Files(r), Options[r])]
Draft(r)    == [tiers |-> Files(r).tiers, queries |-> Files(r).queries, manifest |-> None]

Points == {"start", "acquire", "fetched", "extract", "select", "write", "describe",
           "publish", "park", "install", "restore", "discard", "cleanup", "ended"}

\* The shape of the variables that the argument needs.
Shape ==
  /\ source \in Sources
  /\ pc \in [Runs -> Points]
  /\ previous \in [Runs -> BOOLEAN]
  /\ DOMAIN temp = Runs /\ DOMAIN staged = Runs /\ DOMAIN backup = Runs
  /\ DOMAIN input = Runs /\ DOMAIN chosen = Runs

\* A run that needs the archive extracts one that was compared.
ArchiveCompared ==
  \A r \in Runs :
    /\ pc[r] = "extract" /\ Options[r].from # "directory" => archive = Good
    /\ input[r] # Bad

\* The staging directory of a run is its result when the run publishes it.
StagedKnown ==
  \A r \in Runs :
    /\ pc[r] \in {"write", "describe", "publish", "park", "install"} =>
         Accepted(r) /\ chosen[r] = Selected(r)
    /\ pc[r] = "describe" => staged[r] = Draft(r)
    /\ pc[r] \in {"publish", "park", "install"} => staged[r] = Result(r)

Whole(d) == d = None \/ IsWhole(d)

\* What is public is whole or was never a data set, and what a run has put
\* aside is whole until the run removes it.
PublicWhole ==
  /\ output = Other \/ Whole(output)
  /\ \A r \in Runs :
       /\ pc[r] \in {"park", "install", "restore", "discard"} => output # Other
       /\ backup[r] = Torn \/ Whole(backup[r])
       /\ backup[r] = Torn => pc[r] \in {"cleanup", "ended"}

\* A whole data set that is public or in a backup that no run removes.
Kept == \/ IsWhole(output)
        \/ \E r \in Runs : pc[r] # "discard" /\ IsWhole(backup[r])

\* A run removes its backup only after it published.
RemovalSafe == (\E r \in Runs : pc[r] = "discard") => Kept

IInv == Shape /\ ArchiveCompared /\ StagedKnown /\ PublicWhole /\ RemovalSafe

-----------------------------------------------------------------------------
LEMMA ResultWhole == ASSUME source \in Sources, NEW r \in Runs, Accepted(r)
                     PROVE  IsWhole(Result(r))
<1>1. Result(r).manifest # None /\ Result(r) \notin {None, Other, Torn}
  BY MarksAssumption DEF Result, Files, Selected, Accepted, Corpus
<1>2. Result(r).manifest.files = Files(r)
  BY DEF Result, BuildManifest
<1>3. Files(r) = [tiers |-> Result(r).tiers, queries |-> Result(r).queries]
  BY DEF Result, Files
<1>. QED
  BY <1>1, <1>2, <1>3 DEF IsWhole

LEMMA MarksNotWhole == ~IsWhole(None) /\ ~IsWhole(Other) /\ ~IsWhole(Torn)
BY DEF IsWhole

LEMMA InitInv == Init => IInv
<1> SUFFICES ASSUME Init PROVE IInv
  OBVIOUS
<1>. USE DEF Init
<1>1. Shape
  BY DEF Shape, Points
<1>2. ArchiveCompared
  BY MarksAssumption DEF ArchiveCompared
<1>3. StagedKnown
  BY DEF StagedKnown
<1>4. PublicWhole
  BY MarksAssumption DEF PublicWhole, Whole
<1>5. RemovalSafe
  BY DEF RemovalSafe
<1>. QED
  BY <1>1, <1>2, <1>3, <1>4, <1>5 DEF IInv

\* A run moves only its own pc, selection and directories.
LEMMA Own ==
  ASSUME Shape, NEW r \in Runs, Step(r) \/ Kill(r)
  PROVE  /\ Shape'
         /\ source' = source
         /\ archive' \in {archive, Good}
         /\ \A q \in Runs \ {r} :
              /\ pc'[q] = pc[q] /\ previous'[q] = previous[q]
              /\ input'[q] = input[q] /\ chosen'[q] = chosen[q]
              /\ staged'[q] = staged[q] /\ backup'[q] = backup[q]
<1> USE DEF Shape, Points, files, memory, Goto, Staging
<1>1. CASE Start(r) \/ Fail(r) \/ Acquire(r) \/ Download(r) \/ InstallArchive(r)
  BY <1>1 DEF Start, Fail, Acquire, Download, InstallArchive
<1>2. CASE Extract(r) \/ Select(r) \/ Write(r) \/ Describe(r)
  BY <1>2 DEF Extract, Select, Write, Describe
<1>3. CASE Look(r) \/ Park(r) \/ ParkFails(r)
  BY <1>3 DEF Look, Park, ParkFails
<1>4. CASE Install(r) \/ InstallFails(r) \/ Restore(r)
  BY <1>4 DEF Install, InstallFails, Restore
<1>5. CASE Discard(r) \/ Cleanup(r) \/ Kill(r)
  BY <1>5 DEF Discard, Cleanup, Kill
<1>. QED
  BY <1>1, <1>2, <1>3, <1>4, <1>5 DEF Step

-----------------------------------------------------------------------------
\* Only a downloaded archive whose MD5 was compared is put under its name.
LEMMA ArchiveKeeps ==
  ASSUME IInv, NEW r \in Runs, Step(r) \/ Kill(r)
  PROVE  ArchiveCompared'
<1> USE DEF IInv, Shape, ArchiveCompared, Goto, files, memory
<1>1. \A q \in Runs \ {r} : pc'[q] = "extract" /\ Options[q].from # "directory" => archive' = Good
  BY Own
<1>2. \A q \in Runs \ {r} : input'[q] # Bad
  BY Own
<1>3. pc'[r] = "extract" /\ Options[r].from # "directory" => archive' = Good
  <2>1. CASE Acquire(r) \/ InstallArchive(r)
    BY <2>1 DEF Acquire, Acquired, InstallArchive
  <2>2. CASE ~(Acquire(r) \/ InstallArchive(r))
    <3>1. CASE Start(r) \/ Fail(r) \/ Download(r) \/ Extract(r) \/ Select(r)
               \/ Write(r) \/ Describe(r) \/ Look(r) \/ Park(r)
      BY <3>1 DEF Start, Fail, Download, Extract, Select, Write, Describe, Look, Park
    <3>2. CASE ParkFails(r) \/ Install(r) \/ InstallFails(r) \/ Restore(r)
               \/ Discard(r) \/ Cleanup(r) \/ Kill(r)
      BY <3>2 DEF ParkFails, Install, InstallFails, Restore, Discard, Cleanup, Kill
    <3>. QED
      BY <2>2, <3>1, <3>2 DEF Step
  <2>. QED
    BY <2>1, <2>2
<1>4. input'[r] # Bad
  <2>1. CASE Extract(r)
    BY <2>1, MarksAssumption DEF Extract
  <2>2. CASE ~Extract(r)
    <3>1. input' = input
      BY <2>2 DEF Step, Start, Acquire, Download, InstallArchive, Select, Write,
         Describe, Look, Park, ParkFails, Install, InstallFails, Restore, Discard,
         Cleanup, Fail, Kill
    <3>. QED
      BY <3>1
  <2>. QED
    BY <2>1, <2>2
<1>. QED
  BY <1>1, <1>2, <1>3, <1>4

LEMMA StagedKeeps ==
  ASSUME IInv, NEW r \in Runs, Step(r) \/ Kill(r)
  PROVE  StagedKnown'
<1> USE DEF IInv, Shape, StagedKnown, Goto, files, memory, Staging
<1>1. \A q \in Runs : /\ Accepted(q)' = Accepted(q)
                      /\ Selected(q)' = Selected(q)
                      /\ Draft(q)' = Draft(q) /\ Result(q)' = Result(q)
  BY Own DEF Accepted, Selected, Draft, Result, Files, Corpus
<1> DEFINE Fits(q) ==
      /\ pc[q] \in {"write", "describe", "publish", "park", "install"} =>
           Accepted(q) /\ chosen[q] = Selected(q)
      /\ pc[q] = "describe" => staged[q] = Draft(q)
      /\ pc[q] \in {"publish", "park", "install"} => staged[q] = Result(q)
<1>2. \A q \in Runs \ {r} : Fits(q)'
  BY <1>1, Own
<1>3. Fits(r)'
  <2>1. CASE Select(r)
    BY <1>1, <2>1 DEF Select, Accepted, Selected, Corpus
  <2>2. CASE Write(r)
    BY <1>1, <2>2 DEF Write, Draft, Files
  <2>3. CASE Describe(r)
    <3>1. staged[r] = Draft(r) /\ chosen[r] = Selected(r) /\ Accepted(r)
      BY <2>3 DEF Describe
    <3>2. staged'[r] = [staged[r] EXCEPT !.manifest = BuildManifest(Files(r), Options[r])]
      BY <2>3, <3>1 DEF Describe, Files
    <3>3. staged'[r] = Result(r)
      BY <3>1, <3>2 DEF Draft, Result
    <3>4. pc'[r] = "publish" /\ chosen' = chosen
      BY <2>3 DEF Describe
    <3>. QED
      BY <1>1, <3>1, <3>3, <3>4
  <2>4. CASE Look(r) \/ Park(r)
    BY <1>1, <2>4 DEF Look, Park
  <2>5. CASE Start(r) \/ Acquire(r) \/ Download(r) \/ InstallArchive(r) \/ Extract(r)
             \/ Fail(r) \/ ParkFails(r)
    BY <2>5 DEF Start, Acquire, Download, InstallArchive, Extract, Fail, ParkFails
  <2>6. CASE Install(r) \/ InstallFails(r) \/ Restore(r) \/ Discard(r) \/ Cleanup(r)
             \/ Kill(r)
    BY <2>6 DEF Install, InstallFails, Restore, Discard, Cleanup, Kill
  <2>. QED
    BY <2>1, <2>2, <2>3, <2>4, <2>5, <2>6 DEF Step
<1>. QED
  BY <1>2, <1>3

-----------------------------------------------------------------------------
\* The steps that neither move nor remove a directory.
Still(r) ==
  \/ Start(r) \/ Acquire(r) \/ Download(r) \/ InstallArchive(r) \/ Extract(r)
  \/ Select(r) \/ Write(r) \/ Describe(r) \/ Look(r) \/ ParkFails(r)
  \/ InstallFails(r) \/ Cleanup(r) \/ Fail(r) \/ (Kill(r) /\ pc[r] # "discard")

\* They leave everything where it is, and only a run that saw no foreign file
\* goes on to publish.
LEMMA StillLeaves ==
  ASSUME Shape, NEW r \in Runs, Still(r)
  PROVE  /\ output' = output /\ \A q \in Runs : backup'[q] = backup[q]
         /\ pc[r] # "discard" /\ pc'[r] # "discard"
         /\ pc'[r] \in {"park", "install"} => output # Other
         /\ pc'[r] = "restore" => pc[r] = "install"
         /\ pc[r] \in {"cleanup", "ended"} => pc'[r] \in {"cleanup", "ended"}
<1> USE DEF Shape, Goto, files, memory, Points
<1>1. CASE Start(r) \/ Acquire(r) \/ Download(r) \/ InstallArchive(r) \/ Extract(r)
  BY <1>1 DEF Start, Acquire, Download, InstallArchive, Extract
<1>2. CASE Select(r) \/ Write(r) \/ Describe(r) \/ Fail(r)
  BY <1>2 DEF Select, Write, Describe, Fail
<1>3. CASE Look(r) \/ ParkFails(r) \/ InstallFails(r) \/ Cleanup(r)
  BY <1>3 DEF Look, ParkFails, InstallFails, Cleanup
<1>4. CASE Kill(r) /\ pc[r] # "discard"
  BY <1>4 DEF Kill
<1>. QED
  BY <1>1, <1>2, <1>3, <1>4 DEF Still

\* The steps that do, with what they do to the public directory and to a backup.
LEMMA Moves ==
  ASSUME IInv, NEW r \in Runs, Step(r) \/ Kill(r), ~Still(r)
  PROVE  \/ /\ pc[r] = "park" /\ pc'[r] = "install"
            /\ IsWhole(output) /\ output' = None /\ backup'[r] = output
         \/ /\ pc[r] = "install" /\ pc'[r] \in {"discard", "cleanup"}
            /\ IsWhole(output') /\ backup' = backup
         \/ /\ pc[r] = "restore" /\ pc'[r] = "cleanup"
            /\ \/ output' = output /\ backup' = backup
               \/ IsWhole(output') /\ output' = backup[r] /\ backup'[r] = None
         \/ /\ pc[r] = "discard" /\ pc'[r] \in {"cleanup", "ended"}
            /\ output' = output /\ backup'[r] \in {None, Torn}
<1> USE DEF IInv, Shape, Goto, files, memory, Staging
<1>1. CASE Park(r)
  <2>1. pc[r] = "park" /\ pc'[r] = "install" /\ output' = None /\ backup'[r] = output
    BY <1>1 DEF Park
  <2>2. IsWhole(output)
    BY <1>1, <2>1 DEF Park, PublicWhole, Whole
  <2>. QED
    BY <2>1, <2>2
<1>2. CASE Install(r)
  <2>1. pc[r] = "install" /\ pc'[r] \in {"discard", "cleanup"} /\ backup' = backup
    BY <1>2 DEF Install
  <2>2. output' = Result(r)
    BY <1>2 DEF Install, StagedKnown
  <2>3. IsWhole(Result(r))
    BY <2>1, ResultWhole DEF StagedKnown
  <2>4. IsWhole(output')
    BY <2>2, <2>3
  <2>. QED
    BY <2>1, <2>4
<1>3. CASE Restore(r)
  <2>1. pc[r] = "restore" /\ pc'[r] = "cleanup"
    BY <1>3 DEF Restore
  <2>2. backup[r] # Torn /\ Whole(backup[r])
    BY <2>1 DEF PublicWhole
  <2>3. CASE output' = output /\ backup' = backup
    BY <2>1, <2>3
  <2>4. CASE ~(output' = output /\ backup' = backup)
    <3>1. Restorable(r) /\ output' = backup[r] /\ backup'[r] = None
      BY <1>3, <2>4 DEF Restore
    <3>2. IsWhole(backup[r])
      BY <2>2, <3>1 DEF Restorable, Whole
    <3>3. IsWhole(output')
      BY <3>1, <3>2
    <3>. QED
      BY <2>1, <3>1, <3>3
  <2>. QED
    BY <2>3, <2>4
<1>4. CASE Discard(r)
  BY <1>4 DEF Discard
<1>5. CASE Kill(r)
  BY <1>5 DEF Kill, Still
<1>. QED
  BY <1>1, <1>2, <1>3, <1>4, <1>5 DEF Step, Still

LEMMA PublicKeeps ==
  ASSUME IInv, NEW r \in Runs, Step(r) \/ Kill(r)
  PROVE  PublicWhole'
<1> USE DEF IInv, Shape, Whole
<1>0. None # Torn /\ None # Other /\ Other # Torn
  BY MarksAssumption
<1>1. CASE Still(r)
  BY <1>1, StillLeaves, Own DEF PublicWhole, Points
<1>2. CASE ~Still(r)
  <2>1. \A q \in Runs \ {r} : pc'[q] = pc[q] /\ backup'[q] = backup[q]
    BY Own
  <2>2. output' # Other \/ output' = output
    BY <1>0, <1>2, Moves, MarksNotWhole
  <2>3. output' = Other \/ Whole(output')
    BY <1>2, Moves DEF PublicWhole
  <2>4. backup'[r] = Torn \/ Whole(backup'[r])
    BY <1>2, Moves DEF PublicWhole
  <2>5. backup'[r] = Torn => pc'[r] \in {"cleanup", "ended"}
    BY <1>0, <1>2, Moves, MarksNotWhole DEF PublicWhole
  <2>6. pc'[r] \in {"park", "install", "restore", "discard"} => output' # Other
    BY <1>0, <1>2, Moves, MarksNotWhole
  <2>. QED
    BY <2>1, <2>2, <2>3, <2>4, <2>5, <2>6 DEF PublicWhole
<1>. QED
  BY <1>1, <1>2

\* What is kept is kept by every step: a run that removes its own backup does
\* not count that one.
LEMMA KeptStays ==
  ASSUME IInv, NEW r \in Runs, Step(r) \/ Kill(r), Kept
  PROVE  Kept'
<1> USE DEF IInv, Shape, IsWhole
<1>1. \A q \in Runs \ {r} : pc'[q] = pc[q] /\ backup'[q] = backup[q]
  BY Own
<1>2. CASE Still(r)
  BY <1>1, <1>2, StillLeaves DEF Kept
<1>3. CASE ~Still(r)
  <2>1. CASE IsWhole(output)
    BY <1>1, <1>3, <2>1, Moves DEF Kept
  <2>2. ASSUME NEW q \in Runs, pc[q] # "discard", IsWhole(backup[q])
        PROVE  Kept'
    <3>1. CASE q # r
      BY <1>1, <2>2, <3>1 DEF Kept
    <3>2. CASE q = r
      BY <1>3, <2>2, <3>2, Moves DEF Kept
    <3>. QED
      BY <3>1, <3>2
  <2>. QED
    BY <2>1, <2>2 DEF Kept
<1>. QED
  BY <1>2, <1>3

LEMMA RemovalKeeps ==
  ASSUME IInv, NEW r \in Runs, Step(r) \/ Kill(r)
  PROVE  RemovalSafe'
<1>1. CASE \E q \in Runs : pc[q] = "discard"
  BY <1>1, KeptStays DEF IInv, RemovalSafe
<1>2. CASE \A q \in Runs : pc[q] # "discard"
  <2>1. pc'[r] = "discard" => IsWhole(output)'
    BY <1>2, StillLeaves, Moves DEF IInv
  <2>. QED
    BY <1>2, <2>1, Own DEF RemovalSafe, Kept, IInv
<1>. QED
  BY <1>1, <1>2

LEMMA NextKeeps == IInv /\ [Next]_vars => IInv'
<1> SUFFICES ASSUME IInv, [Next]_vars PROVE IInv'
  OBVIOUS
<1>1. CASE UNCHANGED vars
  BY <1>1 DEF vars, files, memory, IInv, Shape, ArchiveCompared, StagedKnown,
     PublicWhole, RemovalSafe, Kept, Accepted, Selected, Draft, Result, Files, Corpus,
     Whole, IsWhole
<1>2. ASSUME NEW r \in Runs, Step(r) \/ Kill(r) PROVE IInv'
  BY <1>2, Own, ArchiveKeeps, StagedKeeps, PublicKeeps, RemovalKeeps DEF IInv
<1>. QED
  BY <1>1, <1>2 DEF Next, Done

LEMMA Invariance == Spec => []IInv
<1>. QED
  BY InitInv, NextKeeps, PTL DEF Spec

-----------------------------------------------------------------------------
\* For any number of runs, sources and options, whatever fails or is killed:
\* the public directory is one run's whole result (or no data set), and no run
\* works on an archive that was not compared.
THEOREM OutputIsWhole == Spec => []OutputWhole
<1>1. IInv => OutputWhole
  BY DEF IInv, PublicWhole, ArchiveCompared, OutputWhole, Whole
<1>. QED
  BY <1>1, Invariance, PTL

LEMMA StepLosesNothing ==
  ASSUME IInv, NEW r \in Runs, Step(r) \/ Kill(r), SomewhereWhole
  PROVE  SomewhereWhole'
<1>1. CASE pc[r] = "discard"
  <2>1. Kept'
    BY <1>1, KeptStays DEF IInv, RemovalSafe
  <2>. QED
    BY <2>1 DEF Kept, SomewhereWhole
<1>2. CASE pc[r] # "discard"
  <2>1. CASE IsWhole(output)
    BY <2>1, KeptStays DEF Kept, SomewhereWhole
  <2>2. ASSUME NEW q \in Runs, IsWhole(backup[q]) PROVE SomewhereWhole'
    <3>1. CASE pc[q] = "discard"
      BY <3>1, KeptStays DEF IInv, RemovalSafe, Kept, SomewhereWhole
    <3>2. CASE pc[q] # "discard"
      BY <2>2, <3>2, KeptStays DEF Kept, SomewhereWhole
    <3>. QED
      BY <3>1, <3>2
  <2>. QED
    BY <2>1, <2>2 DEF SomewhereWhole
<1>. QED
  BY <1>1, <1>2

\* publish_directory: for any number of overlapping runs there is always a whole
\* data set on disk once there was one, public or in a backup.
THEOREM DatasetIsNeverLost == Spec => DatasetNeverLost
<1>1. IInv /\ [Next]_vars => (SomewhereWhole => SomewhereWhole') \/ UNCHANGED vars
  <2> SUFFICES ASSUME IInv, Next, SomewhereWhole PROVE SomewhereWhole' \/ UNCHANGED vars
    OBVIOUS
  <2>. QED
    BY StepLosesNothing DEF Next, Done
<1>2. IInv /\ [Next]_vars => [SomewhereWhole => SomewhereWhole']_vars
  BY <1>1
<1>. QED
  BY <1>2, Invariance, PTL DEF Spec, DatasetNeverLost

-----------------------------------------------------------------------------
(***************************************************************************)
(* What is selected.  The loop over the candidates is a fold, a function    *)
(* CHOSEN to satisfy a recursion over sets of places.  That the documents   *)
(* in After satisfy it is shown directly; that nothing else does is shown   *)
(* of a smallest set on which something else would differ.                  *)
(***************************************************************************)
\* Every document has a rank.
RanksOK(seed) == \A d \in Docs : Rank[seed][d] \in Nat

\* How many of G are before x, and those of G that have fewer than m before them.
Place(x, G, seed)   == Cardinality({e \in G : Before(e, x, seed)})
FirstOf(G, m, seed) == {x \in G : Place(x, G, seed) < m}

\* By rank and then by identifier documents are in a strict total order.
LEMMA DocsOrder ==
  ASSUME NEW seed, RanksOK(seed)
  PROVE  /\ \A a \in Docs : ~Before(a, a, seed)
         /\ \A a, b \in Docs : a = b \/ Before(a, b, seed) \/ Before(b, a, seed)
         /\ \A a, b, c \in Docs :
              Before(a, b, seed) /\ Before(b, c, seed) => Before(a, c, seed)
<1>1. \A r \in Docs : r \in Nat /\ Rank[seed][r] \in Nat
  BY PreparationAssumption DEF RanksOK
<1>2. ASSUME NEW a \in Docs, NEW b \in Docs
      PROVE  ~Before(a, a, seed) /\ (a = b \/ Before(a, b, seed) \/ Before(b, a, seed))
  <2>1. a \in Nat /\ b \in Nat /\ Rank[seed][a] \in Nat /\ Rank[seed][b] \in Nat
    BY <1>1
  <2>. QED
    BY <2>1 DEF Before
<1>3. ASSUME NEW a \in Docs, NEW b \in Docs, NEW c \in Docs,
             Before(a, b, seed), Before(b, c, seed)
      PROVE  Before(a, c, seed)
  <2>1. /\ a \in Nat /\ b \in Nat /\ c \in Nat
        /\ Rank[seed][a] \in Nat /\ Rank[seed][b] \in Nat /\ Rank[seed][c] \in Nat
    BY <1>1
  <2>2. /\ Rank[seed][a] < Rank[seed][b] \/ (Rank[seed][a] = Rank[seed][b] /\ a < b)
        /\ Rank[seed][b] < Rank[seed][c] \/ (Rank[seed][b] = Rank[seed][c] /\ b < c)
    BY <1>3 DEF Before
  <2>3. Rank[seed][a] < Rank[seed][c] \/ (Rank[seed][a] = Rank[seed][c] /\ a < c)
    BY <2>1, <2>2
  <2>. QED
    BY <2>3 DEF Before
<1>. QED
  BY <1>2, <1>3

\* A set of documents is finite.
LEMMA DocsFinite ==
  ASSUME NEW S \in SUBSET Docs
  PROVE  IsFiniteSet(S) /\ Cardinality(S) \in Nat
BY PreparationAssumption, FS_Subset, FS_CardinalityType

\* A proper subset is smaller.
LEMMA SmallerSubset ==
  ASSUME NEW T, IsFiniteSet(T), NEW U \in SUBSET T, NEW x \in T, x \notin U
  PROVE  Cardinality(U) < Cardinality(T)
<1>1. Cardinality(U) <= Cardinality(T) /\ Cardinality(U) # Cardinality(T)
  BY FS_Subset
<1>2. Cardinality(U) \in Nat /\ Cardinality(T) \in Nat
  BY FS_Subset, FS_CardinalityType
<1>. QED
  BY <1>1, <1>2

\* The numbers below k are k.
LEMMA Below ==
  ASSUME NEW k \in Nat
  PROVE  IsFiniteSet(0 .. k - 1) /\ Cardinality(0 .. k - 1) = k
<1>1. k - 1 \in Int /\ 0 \in Int
  OBVIOUS
<1>2. /\ IsFiniteSet(0 .. k - 1)
      /\ Cardinality(0 .. k - 1) = IF 0 > k - 1 THEN 0 ELSE k - 1 - 0 + 1
  BY <1>1, FS_Interval
<1>. QED
  BY <1>2

\* Places are a bijection between the documents of a set and the numbers below
\* their count, in the order of the documents.
LEMMA PlaceFacts ==
  ASSUME NEW seed, RanksOK(seed), NEW S \in SUBSET Docs
  PROVE  /\ Cardinality(S) \in Nat
         /\ \A a \in S : Place(a, S, seed) \in 0 .. Cardinality(S) - 1
         /\ \A a, b \in S : Before(a, b, seed) <=> Place(a, S, seed) < Place(b, S, seed)
         /\ \A a, b \in S : Place(a, S, seed) = Place(b, S, seed) => a = b
         /\ \A i \in 0 .. Cardinality(S) - 1 : \E a \in S : Place(a, S, seed) = i
<1>. DEFINE Earlier(a) == {e \in S : Before(e, a, seed)}
            size == Cardinality(S)
            P(a) == Place(a, S, seed)
<1>1. IsFiniteSet(S) /\ size \in Nat
  BY DocsFinite
<1>2. \A a \in S : /\ IsFiniteSet(Earlier(a)) /\ Cardinality(Earlier(a)) \in Nat
                   /\ P(a) = Cardinality(Earlier(a))
  BY <1>1, FS_Subset, FS_CardinalityType DEF Place
<1>4. ASSUME NEW a \in S
      PROVE  P(a) \in 0 .. size - 1
  <2>1. Earlier(a) \in SUBSET S /\ a \notin Earlier(a)
    BY DocsOrder
  <2>2. Cardinality(Earlier(a)) < size
    BY <1>1, SmallerSubset, <2>1
  <2>. HIDE DEF Earlier, size, P
  <2>. QED
    BY <1>1, <1>2, <2>2
<1>5. ASSUME NEW a \in S, NEW b \in S, Before(a, b, seed)
      PROVE  P(a) < P(b)
  <2>1. Earlier(a) \in SUBSET Earlier(b) /\ a \in Earlier(b) /\ a \notin Earlier(a)
    BY <1>5, DocsOrder
  <2>2. Cardinality(Earlier(a)) < Cardinality(Earlier(b))
    BY <1>2, SmallerSubset, <2>1
  <2>. HIDE DEF Earlier, P
  <2>. QED
    BY <1>2, <2>2
<1>. HIDE DEF Earlier, P
<1>6. \A a \in S : P(a) \in Nat
  BY <1>2
<1>7. \A a, b \in S : a = b \/ P(a) < P(b) \/ P(b) < P(a)
  BY <1>5, DocsOrder
<1>8. \A a, b \in S : P(a) = P(b) => a = b
  BY <1>6, <1>7
<1>9. \A a, b \in S : Before(a, b, seed) <=> P(a) < P(b)
  <2>. SUFFICES ASSUME NEW a \in S, NEW b \in S, P(a) < P(b), ~Before(a, b, seed)
                PROVE  FALSE
    BY <1>5
  <2>1. a = b \/ P(b) < P(a)
    BY <1>5, DocsOrder
  <2>. QED
    BY <1>6, <2>1
<1>10. \A i \in 0 .. size - 1 : \E a \in S : P(a) = i
  <2>. DEFINE f == [a \in S |-> P(a)]
  <2>1. f \in Injection(S, 0 .. size - 1)
    BY <1>4, <1>8 DEF Injection, IsInjective
  <2>2. IsFiniteSet(0 .. size - 1) /\ Cardinality(0 .. size - 1) = size
    BY <1>1, Below
  <2>3. f \in Surjection(S, 0 .. size - 1)
    <3>. HIDE DEF f
    <3>. QED
      BY <2>1, <2>2, FS_Injection
  <2>. QED
    BY <2>3 DEF Surjection
<1>. HIDE DEF size
<1>11. size \in Nat /\ \A a \in S : P(a) \in 0 .. size - 1
  BY <1>1, <1>4
<1>. QED
  BY <1>8, <1>9, <1>10, <1>11, Zenon DEF size, P

\* The first m of a set are m, or all if there are no more.
LEMMA FirstOfFacts ==
  ASSUME NEW seed, RanksOK(seed), NEW S \in SUBSET Docs, NEW m \in Nat
  PROVE  /\ FirstOf(S, m, seed) \in SUBSET S
         /\ Cardinality(S) <= m => FirstOf(S, m, seed) = S
         /\ Cardinality(S) >= m => Cardinality(FirstOf(S, m, seed)) = m
<1>. DEFINE F == FirstOf(S, m, seed)
            P(a) == Place(a, S, seed)
            size == Cardinality(S)
<1>1. /\ size \in Nat /\ \A a \in S : P(a) \in 0 .. size - 1
      /\ \A a, b \in S : P(a) = P(b) => a = b
      /\ \A i \in 0 .. size - 1 : \E a \in S : P(a) = i
  BY PlaceFacts
<1>2. F \in SUBSET S /\ \A a \in S : a \in F <=> P(a) < m
  BY DEF FirstOf
<1>. HIDE DEF F, P, size
<1>3. ASSUME size <= m PROVE F = S
  <2>1. \A a \in S : P(a) < m
    BY <1>1, <1>3
  <2>. QED
    BY <1>2, <2>1
<1>4. ASSUME size >= m PROVE Cardinality(F) = m
  <2>1. \A i \in 0 .. m - 1 : i \in 0 .. size - 1
    BY <1>1, <1>4
  <2>. DEFINE f == [a \in F |-> P(a)]
  <2>2. \A a \in F : a \in S /\ P(a) \in 0 .. m - 1
    BY <1>1, <1>2
  <2>3. f \in Injection(F, 0 .. m - 1)
    BY <1>1, <2>2 DEF Injection, IsInjective
  <2>4. f \in Surjection(F, 0 .. m - 1)
    <3>. SUFFICES ASSUME NEW i \in 0 .. m - 1 PROVE \E a \in F : f[a] = i
      BY <2>3 DEF Surjection, Injection
    <3>1. PICK a \in S : P(a) = i
      BY <1>1, <2>1
    <3>2. P(a) < m
      BY <3>1
    <3>3. a \in F
      BY <1>2, <3>2
    <3>. QED
      BY <3>1, <3>3
  <2>5. IsFiniteSet(0 .. m - 1) /\ Cardinality(0 .. m - 1) = m
    BY Below
  <2>. HIDE DEF f
  <2>. QED
    BY <2>3, <2>4, <2>5, FS_Injection
<1>. QED
  BY <1>2, <1>3, <1>4 DEF F, size

\* One document after all others changes the place of none of them.
LEMMA FirstWithLast ==
  ASSUME NEW seed, RanksOK(seed), NEW G \in SUBSET Docs, NEW d \in Docs \ G,
         \A e \in G : Before(e, d, seed), NEW m \in Nat
  PROVE  FirstOf(G \cup {d}, m, seed)
           = IF Cardinality(G) < m THEN FirstOf(G, m, seed) \cup {d} ELSE FirstOf(G, m, seed)
<1>. DEFINE H == G \cup {d}
<1>1. \A x \in G : Place(x, H, seed) = Place(x, G, seed)
  <2>. SUFFICES ASSUME NEW x \in G PROVE Place(x, H, seed) = Place(x, G, seed)
    OBVIOUS
  <2>1. ~Before(d, x, seed)
    BY DocsOrder
  <2>2. {e \in H : Before(e, x, seed)} = {e \in G : Before(e, x, seed)}
    BY <2>1
  <2>. QED
    BY <2>2 DEF Place
<1>2. Place(d, H, seed) = Cardinality(G)
  <2>1. ~Before(d, d, seed)
    BY DocsOrder
  <2>2. {e \in H : Before(e, d, seed)} = G
    BY <2>1
  <2>. QED
    BY <2>2 DEF Place
<1>3. \A x \in H : x \in G \/ x = d
  OBVIOUS
<1>. QED
  BY <1>1, <1>2, <1>3 DEF FirstOf

\* Sorting lists every document of a set once, in their order.
LEMMA OrderedFacts ==
  ASSUME NEW seed, RanksOK(seed), NEW S \in SUBSET Docs
  PROVE  /\ Ordered(S, seed) \in [1 .. Cardinality(S) -> S]
         /\ \A i, j \in 1 .. Cardinality(S) :
              i < j => Before(Ordered(S, seed)[i], Ordered(S, seed)[j], seed)
         /\ \A i, j \in 1 .. Cardinality(S) : Ordered(S, seed)[i] = Ordered(S, seed)[j] => i = j
         /\ \A a \in S : \E i \in 1 .. Cardinality(S) : Ordered(S, seed)[i] = a
<1>. DEFINE size == Cardinality(S)
            P(a) == Place(a, S, seed)
            I == 1 .. size
            s == Ordered(S, seed)
<1>1. /\ size \in Nat /\ \A a \in S : P(a) \in 0 .. size - 1
      /\ \A a, b \in S : P(a) = P(b) => a = b
      /\ \A a, b \in S : Before(a, b, seed) <=> P(a) < P(b)
      /\ \A i \in 0 .. size - 1 : \E a \in S : P(a) = i
  BY PlaceFacts
<1>2. s = [i \in I |-> CHOOSE a \in S : P(a) = i - 1]
  BY DEF Ordered, Place
<1>3. \A i \in I : i \in Int /\ i - 1 \in 0 .. size - 1
  BY <1>1
<1>4. \A i \in 0 .. size - 1 : i + 1 \in I
  BY <1>1
<1>. HIDE DEF P, size, s
<1>5. ASSUME NEW i \in I PROVE s[i] \in S /\ P(s[i]) = i - 1
  <2>1. s[i] = CHOOSE a \in S : P(a) = i - 1
    BY <1>2
  <2>2. \E a \in S : P(a) = i - 1
    BY <1>1, <1>3
  <2>. QED
    BY <2>1, <2>2
<1>6. s \in [I -> S]
  <2>. HIDE DEF I
  <2>. QED
    BY <1>2, <1>5
<1>7. \A i, j \in I : i < j => Before(s[i], s[j], seed)
  <2>. SUFFICES ASSUME NEW i \in I, NEW j \in I, i < j PROVE Before(s[i], s[j], seed)
    OBVIOUS
  <2>1. P(s[i]) < P(s[j])
    BY <1>3, <1>5
  <2>. QED
    BY <1>1, <1>5, <2>1
<1>8. \A i, j \in I : s[i] = s[j] => i = j
  <2>. SUFFICES ASSUME NEW i \in I, NEW j \in I, s[i] = s[j] PROVE i = j
    OBVIOUS
  <2>1. i - 1 = j - 1
    BY <1>5
  <2>. QED
    BY <1>3, <2>1
<1>9. \A a \in S : \E i \in I : s[i] = a
  <2>. SUFFICES ASSUME NEW a \in S PROVE \E i \in I : s[i] = a
    OBVIOUS
  <2>1. P(a) \in 0 .. size - 1
    BY <1>1
  <2>. DEFINE i == P(a) + 1
  <2>2. i \in I /\ i - 1 = P(a)
    BY <1>1, <1>4, <2>1
  <2>. HIDE DEF i
  <2>3. s[i] \in S /\ P(s[i]) = P(a)
    BY <1>5, <2>2
  <2>. QED
    BY <1>1, <2>2, <2>3
<1>. QED
  BY <1>6, <1>7, <1>8, <1>9, Zenon DEF s, I, size

\* The positives P and the sizes of the tiers fit.
Setting(P, o) ==
  /\ RanksOK(o.seed) /\ P \in SUBSET Docs
  /\ o.small \in Nat /\ o.large \in Nat
  /\ Cardinality(P) <= o.small /\ o.small < o.large

\* The first document of T for every text that no positive has.
FirstTexts(T, P, corpus, o) ==
  {d \in T : /\ \A p \in P : corpus[p].text # corpus[d].text
             /\ \A e \in T \ {d} : corpus[e].text = corpus[d].text => Before(d, e, o.seed)}

\* What the loop has selected after the candidates T.
After(T, P, corpus, o) ==
  LET G == FirstTexts(T, P, corpus, o)
      S == FirstOf(G, o.small - Cardinality(P), o.seed)
      L == FirstOf(G, o.large - Cardinality(P), o.seed)
  IN  [used |-> {corpus[d].text : d \in P \cup L}, small |-> P \cup S, rest |-> L \ S]

\* Of some subsets of a finite set one has none of the others below it.
LEMMA MinimalSubset ==
  ASSUME NEW S, IsFiniteSet(S), NEW F \in SUBSET SUBSET S, F # {}
  PROVE  \E U \in F : \A V \in F : V \subseteq U => V = U
<1>1. IsWellFoundedOn(StrictSubsetOrdering(S), SUBSET S)
  BY FS_StrictSubsetOrderingWellFounded, FS_FiniteSubsetsOfFinite
<1>2. PICK U \in F : \A V \in F : ~ (<<V, U>> \in StrictSubsetOrdering(S))
  BY <1>1, WFMin
<1>. QED
  BY <1>2 DEF StrictSubsetOrdering

\* Some document of a set is before all the others.
LEMMA EarliestExists ==
  ASSUME NEW seed, RanksOK(seed), NEW S \in SUBSET Docs, S # {}
  PROVE  \E x \in S : \A y \in S \ {x} : Before(x, y, seed)
<1>1. Cardinality(S) \in Nat /\ Cardinality(S) # 0
  BY DocsFinite, FS_EmptySet
<1>2. 0 \in 0 .. Cardinality(S) - 1
  BY <1>1
<1>3. PICK x \in S : Place(x, S, seed) = 0
  BY <1>2, PlaceFacts
<1>4. \A y \in S : Place(y, S, seed) \in 0 .. Cardinality(S) - 1
  BY PlaceFacts
<1>5. \A y \in S : ~(Place(y, S, seed) < 0)
  BY <1>4
<1>6. \A y \in S : ~Before(y, x, seed)
  BY <1>3, <1>5, PlaceFacts
<1>. QED
  BY <1>6, DocsOrder

\* A text that some candidate has is the text of a first one or of a positive.
LEMMA TextHasFirst ==
  ASSUME NEW o, NEW corpus, NEW P, RanksOK(o.seed), NEW T \in SUBSET Docs,
         NEW e \in T, \A p \in P : corpus[p].text # corpus[e].text
  PROVE  \E g \in FirstTexts(T, P, corpus, o) : corpus[g].text = corpus[e].text
<1> DEFINE E == {x \in T : corpus[x].text = corpus[e].text}
<1>1. E \in SUBSET Docs /\ E # {}
  OBVIOUS
<1>2. PICK g \in E : \A y \in E \ {g} : Before(g, y, o.seed)
  <2>. HIDE DEF E
  <2>. QED
    BY <1>1, EarliestExists
<1>. QED
  BY <1>2 DEF FirstTexts

\* The text of d is taken by one of S.
TextUsed(d, S, corpus) == corpus[d].text \in {corpus[e].text : e \in S}

\* One candidate more, after all others.
LEMMA FirstTextsWithLast ==
  ASSUME NEW o, NEW corpus, NEW P, RanksOK(o.seed), NEW T \in SUBSET Docs,
         NEW d \in Docs \ T, \A e \in T : Before(e, d, o.seed)
  PROVE  /\ TextUsed(d, P \cup FirstTexts(T, P, corpus, o), corpus) =>
              FirstTexts(T \cup {d}, P, corpus, o) = FirstTexts(T, P, corpus, o)
         /\ ~TextUsed(d, P \cup FirstTexts(T, P, corpus, o), corpus) =>
              FirstTexts(T \cup {d}, P, corpus, o) = FirstTexts(T, P, corpus, o) \cup {d}
<1> DEFINE G == FirstTexts(T, P, corpus, o)
           H == FirstTexts(T \cup {d}, P, corpus, o)
<1>1. \A x \in T : x \in H <=> x \in G
  BY DEF FirstTexts
<1>2. \A x \in H : x \in T \/ x = d
  BY DEF FirstTexts
<1>3. \A e \in T : ~Before(d, e, o.seed)
  BY DocsOrder
<1>4. d \in H <=> /\ \A p \in P : corpus[p].text # corpus[d].text
                  /\ \A e \in T : corpus[e].text # corpus[d].text
  BY <1>3 DEF FirstTexts
<1>5. G \subseteq T
  BY DEF FirstTexts
<1>6. (\E e \in T : corpus[e].text = corpus[d].text) =>
        corpus[d].text \in {corpus[e].text : e \in P \cup G}
  <2>. SUFFICES ASSUME NEW e \in T, corpus[e].text = corpus[d].text,
                       \A p \in P : corpus[p].text # corpus[d].text
                PROVE  \E g \in G : corpus[g].text = corpus[d].text
    BY DEF G
  <2>1. \A p \in P : corpus[p].text # corpus[e].text
    OBVIOUS
  <2>. QED
    BY <2>1, TextHasFirst
<1>7. d \in H <=> corpus[d].text \notin {corpus[e].text : e \in P \cup G}
  <2>. HIDE DEF G, H
  <2>1. ASSUME d \in H PROVE \A e \in P \cup G : corpus[e].text # corpus[d].text
    BY <1>4, <1>5, <2>1
  <2>2. ASSUME corpus[d].text \notin {corpus[e].text : e \in P \cup G} PROVE d \in H
    <3>1. \A p \in P : corpus[p].text # corpus[d].text
      BY <2>2
    <3>2. \A e \in T : corpus[e].text # corpus[d].text
      BY <1>6, <2>2
    <3>. QED
      BY <1>4, <3>1, <3>2
  <2>. QED
    BY <2>1, <2>2
<1>. HIDE DEF G, H
<1>8. CASE d \in H
  <2>1. H = G \cup {d}
    BY <1>1, <1>2, <1>5, <1>8
  <2>. QED
    BY <1>7, <1>8, <2>1 DEF G, H, TextUsed
<1>9. CASE d \notin H
  <2>1. H = G
    BY <1>1, <1>2, <1>5, <1>9
  <2>. QED
    BY <1>7, <1>9, <2>1 DEF G, H, TextUsed
<1>. QED
  BY <1>8, <1>9

\* A tier counts the positives and what was added to them.
LEMMA CountTogether ==
  ASSUME NEW P \in SUBSET Docs, NEW G \in SUBSET Docs, P \cap G = {}
  PROVE  Cardinality(P \cup G) = Cardinality(P) + Cardinality(G)
<1>1. IsFiniteSet(P) /\ IsFiniteSet(G)
  BY DocsFinite
<1>2. Cardinality(P \cup G) = Cardinality(P) + Cardinality(G) - Cardinality(P \cap G)
  BY <1>1, FS_Union
<1>3. Cardinality(P \cap G) = 0
  BY FS_EmptySet
<1>4. Cardinality(P) \in Nat /\ Cardinality(G) \in Nat
  BY DocsFinite
<1>. QED
  BY <1>2, <1>3, <1>4

\* The sizes of the tiers so far.
LEMMA AfterSizes ==
  ASSUME NEW o, NEW P, Setting(P, o), NEW corpus, NEW T \in SUBSET (Docs \ P)
  PROVE  LET G == FirstTexts(T, P, corpus, o)
             Sp == o.small - Cardinality(P)
             Lp == o.large - Cardinality(P)
             a == After(T, P, corpus, o)
         IN  /\ G \in SUBSET (Docs \ P) /\ Cardinality(G) \in Nat
             /\ Sp \in Nat /\ Lp \in Nat /\ Sp < Lp
             /\ FirstOf(G, Sp, o.seed) \subseteq FirstOf(G, Lp, o.seed)
             /\ a.small \cup a.rest = P \cup FirstOf(G, Lp, o.seed)
             /\ Cardinality(a.small) = o.small <=> Cardinality(G) >= Sp
             /\ Cardinality(a.small) < o.small <=> Cardinality(G) < Sp
             /\ Cardinality(a.small \cup a.rest) = o.large <=> Cardinality(G) >= Lp
<1> DEFINE G == FirstTexts(T, P, corpus, o)
           c == Cardinality(P)
           Sp == o.small - c
           Lp == o.large - c
           S == FirstOf(G, Sp, o.seed)
           L == FirstOf(G, Lp, o.seed)
           a == After(T, P, corpus, o)
           g == Cardinality(G)
<1>1. G \in SUBSET (Docs \ P)
  BY DEF FirstTexts
<1>2. P \in SUBSET Docs /\ RanksOK(o.seed)
  BY DEF Setting
<1>3. c \in Nat /\ g \in Nat
  BY <1>1, <1>2, DocsFinite
<1>4. o.small \in Nat /\ o.large \in Nat /\ c <= o.small /\ o.small < o.large
  BY DEF Setting
<1>5. Sp \in Nat /\ Lp \in Nat /\ Sp < Lp
  BY <1>3, <1>4
<1>6. S \subseteq L
  <2>1. \A x \in G : Place(x, G, o.seed) \in 0 .. g - 1
    BY <1>1, <1>2, PlaceFacts
  <2>2. \A x \in G : Place(x, G, o.seed) < Sp => Place(x, G, o.seed) < Lp
    <3>. HIDE DEF G, g, Sp, Lp
    <3>. QED
      BY <1>5, <2>1
  <2>. QED
    BY <2>2 DEF FirstOf
<1>7. a = [used |-> {corpus[d].text : d \in P \cup L}, small |-> P \cup S, rest |-> L \ S]
  BY DEF After
<1>8. a.small = P \cup S /\ a.rest = L \ S
  BY <1>7
<1>. HIDE DEF G, a
<1>9. a.small \cup a.rest = P \cup L
  BY <1>6, <1>8
<1>10. /\ S \in SUBSET G /\ (g <= Sp => S = G) /\ (g >= Sp => Cardinality(S) = Sp)
       /\ L \in SUBSET G /\ (g <= Lp => L = G) /\ (g >= Lp => Cardinality(L) = Lp)
  BY <1>1, <1>2, <1>5, FirstOfFacts
<1>. HIDE DEF S, L, g, c
<1>11. Cardinality(P \cup S) = c + Cardinality(S) /\ Cardinality(P \cup L) = c + Cardinality(L)
  <2>1. S \in SUBSET Docs /\ L \in SUBSET Docs /\ P \cap S = {} /\ P \cap L = {}
    BY <1>1, <1>10
  <2>. QED
    BY <1>2, <2>1, CountTogether DEF c
<1>12. /\ g <= Sp => Cardinality(S) = g
       /\ g <= Lp => Cardinality(L) = g
  BY <1>10 DEF g
<1>13. /\ Cardinality(P \cup S) = o.small <=> g >= Sp
       /\ Cardinality(P \cup S) < o.small <=> g < Sp
  <2>1. CASE g >= Sp
    BY <1>3, <1>4, <1>10, <1>11, <2>1
  <2>2. CASE g < Sp
    BY <1>3, <1>4, <1>11, <1>12, <2>2
  <2>. QED
    BY <1>3, <1>4, <2>1, <2>2
<1>14. Cardinality(P \cup L) = o.large <=> g >= Lp
  <2>1. CASE g >= Lp
    BY <1>3, <1>4, <1>10, <1>11, <2>1
  <2>2. CASE g < Lp
    BY <1>3, <1>4, <1>11, <1>12, <2>2
  <2>. QED
    BY <1>3, <1>4, <2>1, <2>2
<1>15. /\ Cardinality(a.small) = o.small <=> g >= Sp
       /\ Cardinality(a.small) < o.small <=> g < Sp
       /\ Cardinality(a.small \cup a.rest) = o.large <=> g >= Lp
  BY <1>8, <1>9, <1>13, <1>14
<1>16. G \in SUBSET (Docs \ P) /\ g \in Nat
  BY <1>1, <1>3
<1>. HIDE DEF Sp, Lp
<1>. QED
  BY <1>5, <1>6, <1>9, <1>15, <1>16, Zenon DEF G, g, a, S, L, Sp, Lp, c

\* One candidate: what the loop does to what it has selected.
LEMMA CandidateStep ==
  ASSUME NEW o, NEW P, Setting(P, o), NEW corpus, NEW T \in SUBSET (Docs \ P),
         NEW d \in (Docs \ P) \ T, \A e \in T : Before(e, d, o.seed)
  PROVE  Candidate(After(T, P, corpus, o), d, corpus, o) = After(T \cup {d}, P, corpus, o)
<1> DEFINE G == FirstTexts(T, P, corpus, o)
           H == FirstTexts(T \cup {d}, P, corpus, o)
           Sp == o.small - Cardinality(P)
           Lp == o.large - Cardinality(P)
           S == FirstOf(G, Sp, o.seed)
           L == FirstOf(G, Lp, o.seed)
           a == After(T, P, corpus, o)
           g == Cardinality(G)
           text == corpus[d].text
<1>1. RanksOK(o.seed) /\ P \in SUBSET Docs
  BY DEF Setting
<1>2. /\ G \in SUBSET (Docs \ P) /\ g \in Nat
      /\ Sp \in Nat /\ Lp \in Nat /\ Sp < Lp /\ S \subseteq L
      /\ a.small \cup a.rest = P \cup L
      /\ Cardinality(a.small) < o.small <=> g < Sp
      /\ Cardinality(a.small \cup a.rest) = o.large <=> g >= Lp
  BY AfterSizes
<1>3. a = [used |-> {corpus[x].text : x \in P \cup L}, small |-> P \cup S, rest |-> L \ S]
  BY DEF After
<1>4. After(T \cup {d}, P, corpus, o)
        = [used |-> {corpus[x].text : x \in P \cup FirstOf(H, Lp, o.seed)},
           small |-> P \cup FirstOf(H, Sp, o.seed),
           rest |-> FirstOf(H, Lp, o.seed) \ FirstOf(H, Sp, o.seed)]
  BY DEF After
<1>5. /\ text \in {corpus[e].text : e \in P \cup G} => H = G
      /\ text \notin {corpus[e].text : e \in P \cup G} => H = G \cup {d}
  <2>1. T \in SUBSET Docs /\ d \in Docs \ T
    OBVIOUS
  <2>2. /\ TextUsed(d, P \cup G, corpus) => H = G
        /\ ~TextUsed(d, P \cup G, corpus) => H = G \cup {d}
    BY <1>1, <2>1, FirstTextsWithLast
  <2>. QED
    BY <2>2 DEF TextUsed
<1>6. d \notin G /\ \A e \in G : Before(e, d, o.seed)
  BY DEF FirstTexts
<1>7. ASSUME NEW m \in Nat
      PROVE  FirstOf(G \cup {d}, m, o.seed)
               = IF g < m THEN FirstOf(G, m, o.seed) \cup {d} ELSE FirstOf(G, m, o.seed)
  <2>1. G \in SUBSET Docs /\ d \in Docs \ G
    BY <1>2, <1>6
  <2>. HIDE DEF G
  <2>. QED
    BY <1>1, <1>6, <2>1, FirstWithLast
<1>8. g <= Lp => L = G
  <2>1. G \in SUBSET Docs
    BY <1>2
  <2>. QED
    BY <1>1, <1>2, <2>1, FirstOfFacts
<1>9. Candidate(a, d, corpus, o)
        = IF g >= Lp \/ text \in a.used THEN a
          ELSE [used  |-> a.used \cup {text},
                small |-> IF g < Sp THEN a.small \cup {d} ELSE a.small,
                rest  |-> IF g < Sp THEN a.rest ELSE a.rest \cup {d}]
  BY <1>2 DEF Candidate
<1> DEFINE b == Candidate(a, d, corpus, o)
           z == After(T \cup {d}, P, corpus, o)
<1>. HIDE DEF G, H, S, L, a, g, Sp, Lp, b, z
<1>10. CASE H = G
  <2>1. z = a
    BY <1>3, <1>4, <1>10 DEF S, L, z
  <2>2. g >= Lp \/ text \in a.used
    <3>1. text \in {corpus[e].text : e \in P \cup G}
      BY <1>5, <1>6, <1>10
    <3>2. CASE g < Lp
      <4>1. L = G
        BY <1>2, <1>8, <3>2
      <4>. QED
        BY <1>3, <3>1, <4>1
    <3>. QED
      BY <1>2, <3>2
  <2>. QED
    BY <1>9, <2>1, <2>2 DEF a, z
<1>11. CASE H # G /\ g >= Lp
  <2>1. H = G \cup {d}
    BY <1>5, <1>11
  <2>2. ~(g < Lp) /\ ~(g < Sp)
    BY <1>2, <1>11
  <2>3. FirstOf(H, Lp, o.seed) = L /\ FirstOf(H, Sp, o.seed) = S
    BY <1>2, <1>7, <2>1, <2>2 DEF L, S
  <2>4. z = a
    BY <1>3, <1>4, <2>3 DEF z
  <2>. QED
    BY <1>9, <1>11, <2>4 DEF a, z
<1>12. CASE H # G /\ g < Lp
  <2>1. H = G \cup {d} /\ text \notin {corpus[e].text : e \in P \cup G}
    BY <1>5, <1>12
  <2>2. L = G
    BY <1>2, <1>8, <1>12
  <2>3. FirstOf(H, Lp, o.seed) = L \cup {d}
    BY <1>2, <1>7, <1>12, <2>1 DEF L
  <2>4. FirstOf(H, Sp, o.seed) = IF g < Sp THEN S \cup {d} ELSE S
    BY <1>2, <1>7, <2>1 DEF S
  <2>5. text \notin a.used /\ ~(g >= Lp)
    BY <1>2, <1>3, <1>12, <2>1, <2>2
  <2>6. b = [used  |-> a.used \cup {text},
             small |-> IF g < Sp THEN a.small \cup {d} ELSE a.small,
             rest  |-> IF g < Sp THEN a.rest ELSE a.rest \cup {d}]
    BY <1>9, <2>5 DEF b
  <2>7. a.used = {corpus[x].text : x \in P \cup L} /\ a.small = P \cup S /\ a.rest = L \ S
    BY <1>3
  <2>8. a.used \cup {text} = {corpus[x].text : x \in P \cup (L \cup {d})}
    BY <2>7
  <2>9. d \notin L /\ d \notin S
    BY <1>2, <1>6, <2>2
  <2>10. CASE g < Sp
    <3>1. z = [used |-> {corpus[x].text : x \in P \cup (L \cup {d})},
               small |-> P \cup (S \cup {d}), rest |-> (L \cup {d}) \ (S \cup {d})]
      BY <1>4, <2>3, <2>4, <2>10 DEF z
    <3>2. P \cup (S \cup {d}) = (P \cup S) \cup {d} /\ (L \cup {d}) \ (S \cup {d}) = L \ S
      BY <2>9
    <3>3. b = [used |-> a.used \cup {text}, small |-> (P \cup S) \cup {d}, rest |-> L \ S]
      BY <2>6, <2>7, <2>10
    <3>. QED
      BY <2>8, <3>1, <3>2, <3>3 DEF b, z, a
  <2>11. CASE ~(g < Sp)
    <3>1. z = [used |-> {corpus[x].text : x \in P \cup (L \cup {d})},
               small |-> P \cup S, rest |-> (L \cup {d}) \ S]
      BY <1>4, <2>3, <2>4, <2>11 DEF z
    <3>2. (L \cup {d}) \ S = (L \ S) \cup {d}
      BY <2>9
    <3>3. b = [used |-> a.used \cup {text}, small |-> P \cup S, rest |-> (L \ S) \cup {d}]
      BY <2>6, <2>7, <2>11
    <3>. QED
      BY <2>8, <3>1, <3>2, <3>3 DEF b, z, a
  <2>. QED
    BY <2>10, <2>11
<1>13. g >= Lp \/ g < Lp
  BY <1>2
<1>. QED
  BY <1>10, <1>11, <1>12, <1>13

\* The documents at some places of the list F, and what a function computes that
\* satisfies the recursion of the loop.
DocsAt(F, s) == {F[i] : i \in s}

Looped(F, P, corpus, o, f) ==
  [s \in SUBSET DOMAIN F |->
     IF s = {} THEN [used |-> {corpus[d].text : d \in P}, small |-> P, rest |-> {}]
     ELSE Candidate(f[s \ {Max(s)}], F[Max(s)], corpus, o)]

\* What it is meant to compute.
LoopedIs(F, P, corpus, o) ==
  [s \in SUBSET DOMAIN F |-> After(DocsAt(F, s), P, corpus, o)]

\* The last of some places.
LEMMA LastPlace ==
  ASSUME NEW n \in Nat, NEW s \in SUBSET (1 .. n), s # {}
  PROVE  Max(s) \in s /\ \A i \in s \ {Max(s)} : i < Max(s)
<1> DEFINE NotBefore(m) == {i \in s : i >= m}
           E == {NotBefore(m) : m \in s}
<1>1. E \in SUBSET SUBSET (1 .. n) /\ E # {}
  OBVIOUS
<1>3. PICK U \in E : \A V \in E : V \subseteq U => V = U
  <2> DEFINE P == 1 .. n
  <2>1. IsFiniteSet(P)
    BY FS_Interval
  <2>2. E \in SUBSET SUBSET P /\ E # {}
    BY <1>1
  <2>. HIDE DEF E, P
  <2>. QED
    BY <2>1, <2>2, MinimalSubset
<1>4. PICK m \in s : U = NotBefore(m)
  BY <1>3
<1>5. \A i \in s : i \in Int
  OBVIOUS
<1>6. ASSUME NEW i \in s PROVE m >= i
  <2>1. i \in Int /\ m \in Int
    BY <1>5
  <2>. SUFFICES ASSUME ~(m >= i) PROVE FALSE
    OBVIOUS
  <2>2. \A j \in s : j >= i => j >= m
    BY <1>5, <2>1
  <2>3. NotBefore(i) \subseteq NotBefore(m) /\ NotBefore(i) \in E
    BY <2>2
  <2>4. NotBefore(i) = NotBefore(m)
    <3>. HIDE DEF E, NotBefore
    <3>. QED
      BY <1>3, <1>4, <2>3
  <2>5. m \in NotBefore(m) /\ m \notin NotBefore(i)
    BY <2>1
  <2>. QED
    BY <2>4, <2>5
<1>7. \E x \in s : \A y \in s : x >= y
  BY <1>6
<1>8. Max(s) \in s /\ \A y \in s : Max(s) >= y
  BY <1>7 DEF Max
<1> DEFINE M == Max(s)
<1>. HIDE DEF NotBefore, E, M
<1>9. M \in s /\ \A y \in s : M >= y
  BY <1>8 DEF M
<1>10. \A y \in s \ {M} : y < M
  <2>. SUFFICES ASSUME NEW y \in s \ {M} PROVE y < M
    OBVIOUS
  <2>1. y \in Int /\ M \in Int /\ M >= y /\ M # y
    BY <1>5, <1>9
  <2>. QED
    BY <2>1
<1>. QED
  BY <1>9, <1>10 DEF M

\* One place more is one candidate more.
LEMMA LoopStep ==
  ASSUME NEW o, NEW P, Setting(P, o), NEW corpus, NEW C \in SUBSET (Docs \ P),
         NEW s \in SUBSET (1 .. Cardinality(C)), s # {}
  PROVE  LET F == Ordered(C, o.seed) IN
         Candidate(After(DocsAt(F, s \ {Max(s)}), P, corpus, o), F[Max(s)], corpus, o)
           = After(DocsAt(F, s), P, corpus, o)
<1> DEFINE F == Ordered(C, o.seed)
           n == Cardinality(C)
           m == Max(s)
           t == s \ {m}
           I == 1 .. n
<1>1. RanksOK(o.seed) /\ P \in SUBSET Docs /\ C \in SUBSET Docs
  BY DEF Setting
<1>2. n \in Nat
  BY <1>1, DocsFinite
<1>3. /\ F \in [I -> C]
      /\ \A i, j \in I : i < j => Before(F[i], F[j], o.seed)
      /\ \A i, j \in I : F[i] = F[j] => i = j
  BY <1>1, OrderedFacts
<1>. HIDE DEF F, n
<1>4. m \in s /\ \A i \in t : i < m
  BY <1>2, LastPlace DEF n
<1>. HIDE DEF m, I
<1>5. s \subseteq I
  BY DEF I, n
<1>6. DocsAt(F, t) \in SUBSET (Docs \ P)
  BY <1>3, <1>5 DEF DocsAt
<1>7. F[m] \in (Docs \ P) \ DocsAt(F, t)
  <2>1. \A i \in t : F[i] # F[m]
    BY <1>3, <1>4, <1>5
  <2>. QED
    BY <1>3, <1>4, <1>5, <2>1 DEF DocsAt
<1>8. \A e \in DocsAt(F, t) : Before(e, F[m], o.seed)
  BY <1>3, <1>4, <1>5 DEF DocsAt
<1>9. DocsAt(F, s) = DocsAt(F, t) \cup {F[m]}
  BY <1>4 DEF DocsAt
<1> DEFINE T == DocsAt(F, t)
           d == F[m]
<1>10. T \in SUBSET (Docs \ P) /\ d \in (Docs \ P) \ T /\ \A e \in T : Before(e, d, o.seed)
  BY <1>6, <1>7, <1>8
<1>. HIDE DEF T, d, t
<1>11. Candidate(After(T, P, corpus, o), d, corpus, o) = After(T \cup {d}, P, corpus, o)
  BY <1>10, CandidateStep
<1>. QED
  BY <1>9, <1>11 DEF T, d, t, m, F

\* Before the first candidate.
LEMMA LoopBegins ==
  ASSUME NEW o, NEW P, NEW corpus, NEW F
  PROVE  After(DocsAt(F, {}), P, corpus, o)
           = [used |-> {corpus[d].text : d \in P}, small |-> P, rest |-> {}]
<1>1. DocsAt(F, {}) = {}
  BY DEF DocsAt
<1>2. FirstTexts({}, P, corpus, o) = {}
  BY DEF FirstTexts
<1>3. \A m : FirstOf({}, m, o.seed) = {}
  BY DEF FirstOf
<1>4. P \cup {} = P /\ {} \ {} = {}
  OBVIOUS
<1>. QED
  BY <1>1, <1>2, <1>3, <1>4 DEF After

\* What it computes at every set of places.
LEMMA LoopIs ==
  ASSUME NEW o, NEW P, Setting(P, o), NEW corpus, NEW C \in SUBSET (Docs \ P)
  PROVE  LET F == Ordered(C, o.seed)
             h == LoopedIs(F, P, corpus, o)
         IN  /\ h = Looped(F, P, corpus, o, h)
             /\ \A f : f = Looped(F, P, corpus, o, f) => \A s \in SUBSET DOMAIN F : f[s] = h[s]
<1> DEFINE F == Ordered(C, o.seed)
           h == [s \in SUBSET DOMAIN F |-> After(DocsAt(F, s), P, corpus, o)]
           base == [used |-> {corpus[d].text : d \in P}, small |-> P, rest |-> {}]
           n == Cardinality(C)
<1>1. DOMAIN F = 1 .. n /\ n \in Nat
  BY DocsFinite DEF Ordered, Setting
<1> DEFINE D == SUBSET DOMAIN F
<1>2. \A s \in D : s # {} => Max(s) \in s /\ s \ {Max(s)} \in D
  BY <1>1, LastPlace
<1>3. \A s \in D : h[s] = After(DocsAt(F, s), P, corpus, o)
  OBVIOUS
<1>. HIDE DEF h, n
<1>4. h[{}] = base
  <2>1. {} \in D
    OBVIOUS
  <2>. QED
    BY <1>3, <2>1, LoopBegins
<1>5. ASSUME NEW s \in D, s # {}
      PROVE  h[s] = Candidate(h[s \ {Max(s)}], F[Max(s)], corpus, o)
  <2>1. s \in SUBSET (1 .. Cardinality(C))
    BY <1>1 DEF n
  <2>2. Candidate(After(DocsAt(F, s \ {Max(s)}), P, corpus, o), F[Max(s)], corpus, o)
           = After(DocsAt(F, s), P, corpus, o)
    BY <1>5, <2>1, LoopStep
  <2>. HIDE DEF F
  <2>. QED
    BY <1>2, <1>3, <1>5, <2>2
<1> DEFINE A(f, s) == IF s = {} THEN base ELSE Candidate(f[s \ {Max(s)}], F[Max(s)], corpus, o)
<1>6. \A f : Looped(F, P, corpus, o, f) = [s \in D |-> A(f, s)]
  BY DEF Looped
<1>7. h = [s \in D |-> h[s]]
  BY DEF h
<1>8. \A s \in D : h[s] = A(h, s)
  BY <1>4, <1>5
<1>9. h = Looped(F, P, corpus, o, h)
  <2>. HIDE DEF A, D
  <2>. QED
    BY <1>6, <1>7, <1>8
<1>10. ASSUME NEW f, f = Looped(F, P, corpus, o, f)
       PROVE  \A s \in D : f[s] = h[s]
  <2>1. \A s \in D : f[s] = A(f, s)
    <3>1. f = [s \in D |-> A(f, s)]
      BY <1>6, <1>10
    <3>. HIDE DEF A, D
    <3>. QED
      BY <3>1
  <2> DEFINE Wrong == {s \in D : f[s] # h[s]}
  <2>2. SUFFICES ASSUME Wrong # {} PROVE FALSE
    OBVIOUS
  <2>3. PICK s \in Wrong : \A V \in Wrong : V \subseteq s => V = s
    <3>1. IsFiniteSet(DOMAIN F)
      BY <1>1, FS_Interval
    <3>2. Wrong \in SUBSET SUBSET DOMAIN F
      OBVIOUS
    <3>. HIDE DEF Wrong
    <3>. QED
      BY <2>2, <3>1, <3>2, MinimalSubset
  <2>4. CASE s = {}
    <3>1. f[s] = base
      BY <2>1, <2>4
    <3>. QED
      BY <1>4, <2>4, <3>1
  <2>5. CASE s # {}
    <3> DEFINE V == s \ {Max(s)}
    <3>1. V \in D /\ V \subseteq s /\ V # s
      BY <1>2, <2>5
    <3>2. f[V] = h[V]
      <4>. HIDE DEF V, D
      <4>. QED
        BY <2>3, <3>1
    <3>3. f[s] = Candidate(f[V], F[Max(s)], corpus, o) /\ h[s] = Candidate(h[V], F[Max(s)], corpus, o)
      BY <1>5, <2>1, <2>5
    <3>4. f[s] = h[s]
      <4>. HIDE DEF V
      <4>. QED
        BY <3>2, <3>3
    <3>. QED
      BY <3>4
  <2>. QED
    BY <2>4, <2>5
<1>. QED
  BY <1>9, <1>10 DEF h, LoopedIs

\* The rows of an index that are marked as positives.
PositivesOf(corpus) == {d \in DOMAIN corpus : corpus[d].positive}

\* The loop selects the first documents of the texts that no positive has.
LEMMA SelectFacts ==
  ASSUME NEW o, NEW corpus, DOMAIN corpus \subseteq Docs, Setting(PositivesOf(corpus), o)
  PROVE  SelectDocuments(corpus, o)
           = After(DOMAIN corpus \ PositivesOf(corpus), PositivesOf(corpus), corpus, o)
<1> DEFINE P == PositivesOf(corpus)
           C == DOMAIN corpus \ P
           F == Ordered(C, o.seed)
           S == DOMAIN F
           g == CHOOSE f : f = Looped(F, P, corpus, o, f)
           h == LoopedIs(F, P, corpus, o)
<1>1. SelectDocuments(corpus, o) = g[S]
  BY DEF SelectDocuments, FoldLeft, MapThenFoldSet, Looped, PositivesOf
<1>2. C \in SUBSET (Docs \ P) /\ C \in SUBSET Docs
  OBVIOUS
<1>3. Setting(P, o)
  OBVIOUS
<1>. HIDE DEF P, C, g
<1>4. /\ h = Looped(F, P, corpus, o, h)
      /\ \A f : f = Looped(F, P, corpus, o, f) => \A s \in SUBSET S : f[s] = h[s]
  BY <1>2, <1>3, LoopIs
<1>. HIDE DEF F, h
<1>5. g = Looped(F, P, corpus, o, g)
  <2>1. \E f : f = Looped(F, P, corpus, o, f)
    BY <1>4
  <2>. QED
    BY <2>1 DEF g
<1>6. g[S] = h[S]
  <2>1. S \in SUBSET S
    OBVIOUS
  <2>. HIDE DEF S
  <2>. QED
    BY <1>4, <1>5, <2>1
<1>7. h[S] = After(DocsAt(F, S), P, corpus, o)
  BY DEF h, LoopedIs
<1>8. DocsAt(F, S) = C
  <2>1. /\ F \in [1 .. Cardinality(C) -> C]
        /\ \A a \in C : \E i \in 1 .. Cardinality(C) : F[i] = a
    BY <1>2, <1>3, OrderedFacts DEF Setting, F
  <2> DEFINE I == 1 .. Cardinality(C)
  <2>2. F \in [I -> C] /\ \A a \in C : \E i \in I : F[i] = a
    BY <2>1
  <2>. HIDE DEF I
  <2>. QED
    BY <2>2 DEF DocsAt
<1>. QED
  BY <1>1, <1>6, <1>7, <1>8 DEF P, C

\* A list of n and one of m after it.
LEMMA RowsFacts ==
  ASSUME NEW n \in Nat, NEW m \in Nat, NEW A, NEW B,
         NEW a \in [1 .. n -> A], NEW b \in [1 .. m -> B]
  PROVE  /\ DOMAIN (a \o b) = 1 .. n + m
         /\ \A i \in 1 .. n : (a \o b)[i] = a[i]
         /\ \A i \in 1 .. n + m : i > n => i - n \in 1 .. m /\ (a \o b)[i] = b[i - n]
         /\ SubSeq(a \o b, 1, n) = a
         /\ IsPrefix(a, a \o b)
<1> DEFINE U == A \cup B
           s == a \o b
<1>1. a \in Seq(U) /\ b \in Seq(U) /\ Len(a) = n /\ Len(b) = m
  OBVIOUS
<1>2. s \in Seq(U) /\ Len(s) = n + m
  BY <1>1
<1>3. DOMAIN s = 1 .. n + m
  BY <1>2
<1>4. \A i \in 1 .. n + m : s[i] = IF i <= n THEN a[i] ELSE b[i - n]
  BY <1>1
<1>5. SubSeq(s, 1, n) \in Seq(U) /\ Len(SubSeq(s, 1, n)) = n
  BY <1>2
<1>6. \A i \in 1 .. n : SubSeq(s, 1, n)[i] = a[i]
  BY <1>2, <1>4
<1>7. SubSeq(s, 1, n) = a
  BY <1>1, <1>5, <1>6
<1>8. SubSeq(a, 1, n) = a
  BY <1>1
<1>9. IsPrefix(a, s)
  BY <1>1, <1>2, <1>7, <1>8 DEF IsPrefix
<1>. QED
  BY <1>3, <1>4, <1>7, <1>9

\* What SelectionExact says of one directory.
Exact(d) ==
  LET o == d.manifest.options
      t == d.tiers
  IN  /\ Range(t.small) = Tier(o.small, o)
      /\ Range(t.large) = Tier(o.large, o)
      /\ IsPrefix(t.small, t.large)
      /\ \A i, j \in DOMAIN t.large :
           /\ i < j /\ (j <= o.small \/ i > o.small)
           => Before(t.large[i], t.large[j], o.seed)
      /\ \A i, j \in DOMAIN t.large :
           source.text[t.large[i]] = source.text[t.large[j]] => i = j
      /\ \A q \in Range(d.queries.ids) : source.relevant[q] \subseteq Range(t.small)

\* What a run that got through prepare knows of its corpus.
LEMMA AcceptedSetting ==
  ASSUME source \in Sources, NEW r \in Runs, Accepted(r), ValidArguments(Options[r])
  PROVE  LET o == Options[r]
             P == Positives(source, o)
         IN  /\ DOMAIN Corpus(r) = source.docs /\ source.docs \subseteq Docs
             /\ \A d \in source.docs : Corpus(r)[d].text = source.text[d]
             /\ PositivesOf(Corpus(r)) = P /\ P \subseteq source.docs
             /\ Setting(P, o)
             /\ \A d, e \in P : source.text[d] = source.text[e] => d = e
             /\ Cardinality(Selected(r).small) = o.small
             /\ Cardinality(Selected(r).small \cup Selected(r).rest) = o.large
<1> DEFINE o == Options[r]
           c == Corpus(r)
           P == Positives(source, o)
<1>1. /\ c = [d \in source.docs |-> [text |-> source.text[d], positive |-> d \in P]]
      /\ DOMAIN c = source.docs
  BY DEF Corpus, IndexCorpus
<1>2. \A d \in source.docs : c[d].text = source.text[d] /\ c[d].positive = (d \in P)
  BY <1>1
<1>3. P \subseteq source.docs /\ source.docs \subseteq Docs
  BY PreparationAssumption DEF Accepted, CorpusAccepted
<1>4. PositivesOf(c) = P
  BY <1>1, <1>2, <1>3, Zenon DEF PositivesOf
<1>5. /\ Cardinality(PositivesOf(c)) <= o.small
      /\ \A d, e \in PositivesOf(c) : c[d].text = c[e].text => d = e
      /\ Cardinality(SelectDocuments(c, o).small) = o.small
      /\ Cardinality(SelectDocuments(c, o).small \cup SelectDocuments(c, o).rest) = o.large
  BY DEF Accepted, SelectionAccepted, PositivesOf
<1>6. Setting(P, o)
  <2>1. RanksOK(o.seed) /\ o.small \in Int /\ o.large \in Int
    BY PreparationAssumption DEF RanksOK
  <2>2. o.small > 0 /\ o.large > o.small
    BY DEF ValidArguments
  <2>3. o.small \in Nat /\ o.large \in Nat /\ o.small < o.large
    BY <2>1, <2>2
  <2>. QED
    BY <1>3, <1>4, <1>5, <2>1, <2>3 DEF Setting
<1>7. \A d, e \in P : source.text[d] = source.text[e] => d = e
  BY <1>2, <1>3, <1>4, <1>5
<1>8. /\ Cardinality(Selected(r).small) = o.small
      /\ Cardinality(Selected(r).small \cup Selected(r).rest) = o.large
  BY <1>5 DEF Selected
<1>. QED
  BY <1>1, <1>2, <1>3, <1>4, <1>6, <1>7, <1>8

\* It selected the tiers.
LEMMA SelectedTiers ==
  ASSUME source \in Sources, NEW r \in Runs, Accepted(r), ValidArguments(Options[r])
  PROVE  LET o == Options[r]
             sel == Selected(r)
         IN  /\ sel.small = Tier(o.small, o)
             /\ sel.small \cup sel.rest = Tier(o.large, o)
             /\ sel.small \cap sel.rest = {}
             /\ sel.small \cup sel.rest \subseteq Docs
             /\ \A d, e \in sel.small \cup sel.rest : source.text[d] = source.text[e] => d = e
<1> DEFINE o == Options[r]
           c == Corpus(r)
           P == Positives(source, o)
           C == source.docs \ P
           G == FirstTexts(C, P, c, o)
           Sp == o.small - Cardinality(P)
           Lp == o.large - Cardinality(P)
           S == FirstOf(G, Sp, o.seed)
           L == FirstOf(G, Lp, o.seed)
           sel == Selected(r)
<1>1. /\ DOMAIN c = source.docs /\ source.docs \subseteq Docs
      /\ \A d \in source.docs : c[d].text = source.text[d]
      /\ PositivesOf(c) = P /\ P \subseteq source.docs
      /\ Setting(P, o)
      /\ \A d, e \in P : source.text[d] = source.text[e] => d = e
  BY AcceptedSetting
<1>2. sel = After(C, P, c, o)
  BY <1>1, SelectFacts DEF Selected
<1>3. C \in SUBSET (Docs \ P)
  BY <1>1
<1>4. S \subseteq L /\ sel.small \cup sel.rest = P \cup L /\ G \in SUBSET (Docs \ P)
  <2>. HIDE DEF C, P, c, o, sel
  <2>. QED
    BY <1>1, <1>2, <1>3, AfterSizes
<1>5. sel.small = P \cup S /\ sel.rest = L \ S
  BY <1>2 DEF After
<1>6. G = Fillers(o)
  <2>1. \A d \in C : (\A p \in P : c[p].text # c[d].text)
                       <=> (\A e \in source.docs \ {d} : source.text[e] = source.text[d] => e \notin P)
    BY <1>1
  <2>2. \A d \in C : /\ d \in source.docs
                     /\ \A e \in C \ {d} : e \in source.docs /\ c[e].text = source.text[e]
                     /\ c[d].text = source.text[d]
    BY <1>1
  <2>3. \A d \in C : d \in G <=> d \in Fillers(o)
    <3>. SUFFICES ASSUME NEW d \in C PROVE d \in G <=> d \in Fillers(o)
      OBVIOUS
    <3>1. d \in G <=> /\ \A p \in P : c[p].text # c[d].text
                      /\ \A e \in C \ {d} : source.text[e] = source.text[d] => Before(d, e, o.seed)
      BY <2>2 DEF FirstTexts
    <3>2. d \in Fillers(o) <=>
            \A e \in source.docs \ {d} :
              source.text[e] = source.text[d] => e \notin P /\ Before(d, e, o.seed)
      BY DEF Fillers
    <3>3. \A e \in source.docs : e \in P \/ e \in C
      OBVIOUS
    <3>. HIDE DEF G, P, o, c
    <3>. QED
      BY <2>1, <3>1, <3>2, <3>3
  <2>4. G \subseteq C /\ Fillers(o) \subseteq C
    BY DEF FirstTexts, Fillers
  <2>. HIDE DEF G, C
  <2>. QED
    BY <2>3, <2>4
<1>7. ASSUME NEW n PROVE Tier(n, o) = P \cup FirstOf(G, n - Cardinality(P), o.seed)
  BY <1>6 DEF Tier, FirstOf, Place
<1>8. L \subseteq G /\ \A d \in G : d \in C
  BY DEF FirstOf, FirstTexts
<1>9. \A d \in G, p \in P : source.text[p] # source.text[d]
  BY <1>1 DEF FirstTexts
<1>10. ASSUME NEW d \in G, NEW e \in G, source.text[d] = source.text[e], d # e PROVE FALSE
  <2>1. Before(d, e, o.seed) /\ Before(e, d, o.seed)
    BY <1>1, <1>8, <1>10 DEF FirstTexts
  <2>2. d \in Docs /\ e \in Docs /\ RanksOK(o.seed)
    BY <1>1, <1>4 DEF Setting
  <2>. HIDE DEF G, o
  <2>. QED
    BY <2>1, <2>2, DocsOrder
<1>11. \A d, e \in P \cup L : source.text[d] = source.text[e] => d = e
  <2>. HIDE DEF P, L, G
  <2>. QED
    BY <1>1, <1>8, <1>9, <1>10
<1>12. sel.small = Tier(o.small, o) /\ sel.small \cup sel.rest = Tier(o.large, o)
  BY <1>4, <1>5, <1>7
<1>13. sel.small \cap sel.rest = {}
  <2>. HIDE DEF S, P, L, G, sel
  <2>. QED
    BY <1>4, <1>5, <1>8
<1>14. sel.small \cup sel.rest \subseteq Docs
  <2>. HIDE DEF S, P, L, G, sel
  <2>. QED
    BY <1>1, <1>4, <1>8
<1>15. \A d, e \in sel.small \cup sel.rest : source.text[d] = source.text[e] => d = e
  BY <1>4, <1>11
<1>. QED
  BY <1>12, <1>13, <1>14, <1>15

\* What it wrote is the selection that the manifest promises.
LEMMA ResultExact ==
  ASSUME source \in Sources, NEW r \in Runs, Accepted(r), ValidArguments(Options[r])
  PROVE  Exact(Result(r))
<1> DEFINE o == Options[r]
           sel == Selected(r)
           n == o.small
           m == Cardinality(sel.rest)
           a == Ordered(sel.small, o.seed)
           b == Ordered(sel.rest, o.seed)
           rows == a \o b
           t == Result(r).tiers
<1>1. /\ sel.small = Tier(o.small, o)
      /\ sel.small \cup sel.rest = Tier(o.large, o)
      /\ sel.small \cap sel.rest = {}
      /\ sel.small \cup sel.rest \subseteq Docs
      /\ \A d, e \in sel.small \cup sel.rest : source.text[d] = source.text[e] => d = e
  BY SelectedTiers
<1>2. RanksOK(o.seed) /\ n \in Nat /\ Cardinality(sel.small) = n
  BY AcceptedSetting DEF Setting
<1>3. t.large = rows /\ t.small = SubSeq(rows, 1, n)
  BY DEF Result, Files, WriteDocuments
<1>4. Result(r).manifest.options = o
  BY DEF Result, BuildManifest
<1>5. Result(r).queries.ids = SelectQueries(source, o)
  BY DEF Result, Files, WriteQueries
<1>6. sel.small \in SUBSET Docs /\ sel.rest \in SUBSET Docs /\ m \in Nat
  <2>1. sel.small \in SUBSET Docs /\ sel.rest \in SUBSET Docs
    BY <1>1
  <2>. QED
    BY <2>1, DocsFinite
<1>. HIDE DEF o, sel, n, m, a, b, t
<1>7. /\ a \in [1 .. n -> sel.small]
      /\ \A i, j \in 1 .. n : i < j => Before(a[i], a[j], o.seed)
      /\ \A i, j \in 1 .. n : a[i] = a[j] => i = j
      /\ \A d \in sel.small : \E i \in 1 .. n : a[i] = d
  BY <1>2, <1>6, OrderedFacts DEF a
<1>8. /\ b \in [1 .. m -> sel.rest]
      /\ \A i, j \in 1 .. m : i < j => Before(b[i], b[j], o.seed)
      /\ \A i, j \in 1 .. m : b[i] = b[j] => i = j
      /\ \A d \in sel.rest : \E i \in 1 .. m : b[i] = d
  BY <1>2, <1>6, OrderedFacts DEF b, m
<1>9. /\ DOMAIN rows = 1 .. n + m
      /\ \A i \in 1 .. n : rows[i] = a[i]
      /\ \A i \in 1 .. n + m : i > n => i - n \in 1 .. m /\ rows[i] = b[i - n]
      /\ SubSeq(rows, 1, n) = a
      /\ IsPrefix(a, rows)
  BY <1>2, <1>6, <1>7, <1>8, RowsFacts
<1>. HIDE DEF rows
<1>10. /\ t.large = rows /\ t.small = a
  BY <1>3, <1>9
<1>11. \A i \in 1 .. n + m : i \in Int /\ (i > n \/ (i \in 1 .. n /\ ~(i > n)))
  BY <1>2, <1>6
<1>12. \A i \in 1 .. n : i \in 1 .. n + m
  BY <1>2, <1>6
<1>13. \A i \in 1 .. m : i + n \in 1 .. n + m /\ i + n > n /\ (i + n) - n = i
  BY <1>2, <1>6
<1>14. Range(a) = sel.small
  <2> DEFINE I == 1 .. n
  <2>1. a \in [I -> sel.small] /\ \A d \in sel.small : \E i \in I : a[i] = d
    BY <1>7
  <2>. HIDE DEF I
  <2>. QED
    BY <2>1 DEF Range
<1>15. Range(rows) = sel.small \cup sel.rest
  <2>1. ASSUME NEW i \in DOMAIN rows PROVE rows[i] \in sel.small \cup sel.rest
    <3>1. CASE i > n
      <4>1. i - n \in 1 .. m /\ rows[i] = b[i - n]
        BY <1>9, <3>1
      <4>. QED
        BY <1>8, <4>1
    <3>2. CASE ~(i > n)
      <4>1. i \in 1 .. n /\ rows[i] = a[i]
        BY <1>9, <1>11, <3>2
      <4>. QED
        BY <1>7, <4>1
    <3>. QED
      BY <3>1, <3>2
  <2>2. ASSUME NEW d \in sel.small PROVE \E i \in DOMAIN rows : rows[i] = d
    <3>1. PICK i \in 1 .. n : a[i] = d
      BY <1>7
    <3>. QED
      BY <1>9, <1>12, <3>1
  <2>3. ASSUME NEW d \in sel.rest PROVE \E i \in DOMAIN rows : rows[i] = d
    <3>1. PICK i \in 1 .. m : b[i] = d
      BY <1>8
    <3>2. i + n \in DOMAIN rows /\ rows[i + n] = b[i]
      BY <1>9, <1>13
    <3>. QED
      BY <3>1, <3>2
  <2>. QED
    BY <2>1, <2>2, <2>3 DEF Range
<1>16. ASSUME NEW i \in DOMAIN rows, NEW j \in DOMAIN rows, i < j, j <= n \/ i > n
       PROVE  Before(rows[i], rows[j], o.seed)
  <2>0. i \in Int /\ j \in Int
    BY <1>9, <1>11
  <2>1. CASE j <= n
    <3>1. ~(i > n) /\ ~(j > n)
      BY <1>2, <1>16, <2>0, <2>1
    <3>2. i \in 1 .. n /\ j \in 1 .. n
      BY <1>9, <1>11, <3>1
    <3>. QED
      BY <1>7, <1>9, <1>16, <3>2
  <2>2. CASE i > n
    <3>1. j > n
      BY <1>2, <1>16, <2>0, <2>2
    <3>2. /\ i - n \in 1 .. m /\ rows[i] = b[i - n]
          /\ j - n \in 1 .. m /\ rows[j] = b[j - n]
      BY <1>9, <2>2, <3>1
    <3>3. i - n < j - n
      BY <1>2, <1>16, <2>0
    <3>. QED
      BY <1>8, <3>2, <3>3
  <2>. QED
    BY <1>16, <2>1, <2>2
<1>17. ASSUME NEW i \in DOMAIN rows, NEW j \in DOMAIN rows,
              source.text[rows[i]] = source.text[rows[j]]
       PROVE  i = j
  <2>1. rows[i] \in sel.small \cup sel.rest /\ rows[j] \in sel.small \cup sel.rest
    BY <1>15 DEF Range
  <2>2. rows[i] = rows[j]
    BY <1>1, <1>17, <2>1
  <2>3. i \in Int /\ j \in Int
    BY <1>9, <1>11
  <2>4. CASE ~(i > n) /\ ~(j > n)
    <3>1. i \in 1 .. n /\ j \in 1 .. n /\ a[i] = a[j]
      BY <1>9, <1>11, <2>2, <2>4
    <3>. QED
      BY <1>7, <3>1
  <2>5. CASE i > n /\ j > n
    <3>1. i - n \in 1 .. m /\ j - n \in 1 .. m /\ b[i - n] = b[j - n]
      BY <1>9, <2>2, <2>5
    <3>2. i - n = j - n
      BY <1>8, <3>1
    <3>. QED
      BY <1>2, <2>3, <3>2
  <2>6. CASE i > n /\ ~(j > n)
    <3>1. rows[i] \in sel.rest
      BY <1>8, <1>9, <2>6
    <3>2. rows[j] \in sel.small
      BY <1>7, <1>9, <1>11, <2>6
    <3>. QED
      BY <1>1, <2>2, <3>1, <3>2
  <2>7. CASE ~(i > n) /\ j > n
    <3>1. rows[j] \in sel.rest
      BY <1>8, <1>9, <2>7
    <3>2. rows[i] \in sel.small
      BY <1>7, <1>9, <1>11, <2>7
    <3>. QED
      BY <1>1, <2>2, <3>1, <3>2
  <2>. QED
    BY <2>4, <2>5, <2>6, <2>7
<1>18. \A q \in Range(SelectQueries(source, o)) : source.relevant[q] \subseteq sel.small
  <2>1. Positives(source, o) \subseteq Tier(o.small, o)
    BY DEF Tier
  <2>. QED
    BY <1>1, <2>1 DEF Positives
<1> DEFINE d == Result(r)
<1>19. d.manifest.options = o /\ d.tiers.large = rows /\ d.tiers.small = a
       /\ d.queries.ids = SelectQueries(source, o)
  BY <1>4, <1>5, <1>10 DEF t
<1>20. /\ Range(d.tiers.small) = Tier(o.small, o)
       /\ Range(d.tiers.large) = Tier(o.large, o)
       /\ IsPrefix(d.tiers.small, d.tiers.large)
  BY <1>1, <1>9, <1>14, <1>15, <1>19
<1>21. \A i, j \in DOMAIN rows :
         i < j /\ (j <= o.small \/ i > o.small) => Before(rows[i], rows[j], o.seed)
  BY <1>16 DEF n
<1>22. \A i, j \in DOMAIN rows : source.text[rows[i]] = source.text[rows[j]] => i = j
  BY <1>17
<1>23. \A q \in Range(d.queries.ids) : source.relevant[q] \subseteq Range(d.tiers.small)
  BY <1>14, <1>18, <1>19
<1>. HIDE DEF d
<1>. QED
  BY <1>19, <1>20, <1>21, <1>22, <1>23 DEF Exact, d

-----------------------------------------------------------------------------
(***************************************************************************)
(* Where it gets to.                                                        *)
(***************************************************************************)
\* What some run with arguments that pass makes of the source.
IsResult(d) == \E r \in Runs : ValidArguments(Options[r]) /\ Accepted(r) /\ d = Result(r)

\* Only a run whose arguments pass goes on.
ArgumentsValid == \A r \in Runs : pc[r] \notin {"start", "ended"} => ValidArguments(Options[r])

\* What is public or put aside is the result of a run, or never was a data set.
Origins ==
  /\ output \in {None, Other} \/ IsResult(output)
  /\ \A r \in Runs : backup[r] \in {None, Torn} \/ IsResult(backup[r])

\* A run that is about to end knows how it ended.
Settled ==
  \A r \in Runs : pc[r] \in {"restore", "discard", "cleanup", "ended"} => outcome[r] # None

SelectionInv == PreparationTypeOK /\ ArgumentsValid /\ Settled /\ Origins

LEMMA InitSelection == Init => SelectionInv
<1> SUFFICES ASSUME Init PROVE SelectionInv
  OBVIOUS
<1>. USE DEF Init
<1>1. PreparationTypeOK
  BY MarksAssumption DEF PreparationTypeOK
<1>2. ArgumentsValid /\ Settled
  BY DEF ArgumentsValid, Settled
<1>3. Origins
  BY DEF Origins
<1>. QED
  BY <1>1, <1>2, <1>3 DEF SelectionInv

\* What a step may do to the program counter and the outcome of its run.
LEMMA OutcomeKeeps ==
  ASSUME IInv, PreparationTypeOK, ArgumentsValid, Settled,
         NEW r \in Runs, Step(r) \/ Kill(r)
  PROVE  PreparationTypeOK' /\ ArgumentsValid' /\ Settled'
<1> DEFINE Ends == {None, "failed", "published", "publishedWithError", "stranded", "killed"}
<1> USE DEF Shape, Goto, files, memory
<1>0. /\ IInv /\ Shape /\ Shape'
      /\ source' = source
      /\ \A q \in Runs \ {r} : pc'[q] = pc[q]
  BY Own DEF IInv
<1>1. /\ archive' \in {None, Good, Bad}
      /\ temp' \in [Runs -> {None, Good, Bad}]
      /\ input' \in [Runs -> {None, Good, Bad}]
  <2>1. CASE Start(r) \/ Acquire(r) \/ Select(r) \/ Write(r) \/ Describe(r) \/ Look(r)
             \/ Park(r) \/ ParkFails(r)
    BY <2>1 DEF Start, Acquire, Select, Write, Describe, Look, Park, ParkFails,
       PreparationTypeOK
  <2>2. CASE Install(r) \/ InstallFails(r) \/ Restore(r) \/ Discard(r) \/ Cleanup(r)
             \/ Kill(r)
    BY <2>2 DEF Install, InstallFails, Restore, Discard, Cleanup, Kill, PreparationTypeOK
  <2>3. CASE Download(r) \/ InstallArchive(r) \/ Extract(r) \/ Fail(r)
    BY <2>3 DEF Download, InstallArchive, Extract, Fail, PreparationTypeOK
  <2>. QED
    BY <2>1, <2>2, <2>3 DEF Step
<1>2. /\ outcome' \in [Runs -> Ends]
      /\ \A q \in Runs \ {r} : outcome'[q] = outcome[q]
      /\ pc'[r] \in {"restore", "discard", "cleanup", "ended"} => outcome'[r] # None
  <2>0. /\ outcome \in [Runs -> Ends] /\ pc \in [Runs -> Points]
        /\ pc[r] \in {"restore", "discard", "cleanup", "ended"} => outcome[r] # None
        /\ None \notin {"failed", "published", "publishedWithError", "stranded", "killed"}
    BY <1>0, MarksAssumption DEF PreparationTypeOK, Settled
  <2>1. CASE Start(r) \/ Acquire(r) \/ Select(r) \/ Write(r) \/ Describe(r) \/ Look(r)
             \/ Park(r) \/ ParkFails(r)
    BY <2>0, <2>1 DEF Start, Acquire, Select, Write, Describe, Look, Park, ParkFails
  <2>2. CASE Install(r) \/ InstallFails(r) \/ Restore(r)
    BY <2>0, <2>2 DEF Install, InstallFails, Restore
  <2>3. CASE Discard(r) \/ Cleanup(r)
    BY <2>0, <2>3 DEF Discard, Cleanup
  <2>4. CASE Kill(r)
    BY <2>0, <2>4 DEF Kill
  <2>5. CASE Download(r) \/ InstallArchive(r) \/ Extract(r) \/ Fail(r)
    BY <2>0, <2>5 DEF Download, InstallArchive, Extract, Fail
  <2>. QED
    BY <2>1, <2>2, <2>3, <2>4, <2>5 DEF Step
<1>3. Settled'
  BY <1>0, <1>2 DEF Settled
<1>4. PreparationTypeOK'
  BY <1>0, <1>1, <1>2, <1>3 DEF PreparationTypeOK, Settled
<1>5. pc[r] = "start" /\ pc'[r] \notin {"start", "ended"} => ValidArguments(Options[r])
  <2>1. CASE Start(r)
    BY <1>0, <2>1 DEF Start
  <2>2. CASE ~Start(r)
    BY <2>2 DEF Step, Acquire, Download, InstallArchive, Extract, Select, Write,
       Describe, Look, Park, ParkFails, Install, InstallFails, Restore, Discard, Cleanup,
       Fail, Kill
  <2>. QED
    BY <2>1, <2>2
<1>6. pc[r] # "ended"
  BY DEF Step, Start, Acquire, Download, InstallArchive, Extract, Select, Write,
     Describe, Look, Park, ParkFails, Install, InstallFails, Restore, Discard, Cleanup,
     Fail, Kill
<1>7. ArgumentsValid'
  BY <1>0, <1>5, <1>6 DEF ArgumentsValid
<1>. QED
  BY <1>3, <1>4, <1>7

\* A directory is moved, never made, but by the commit of its run.
LEMMA OriginsKeep ==
  ASSUME IInv, ArgumentsValid, Origins, NEW r \in Runs, Step(r) \/ Kill(r)
  PROVE  Origins'
<1>0. source' = source /\ Shape /\ \A q \in Runs \ {r} : backup'[q] = backup[q]
  BY Own DEF IInv
<1>1. \A q \in Runs : Accepted(q)' = Accepted(q) /\ Result(q)' = Result(q)
  BY <1>0 DEF Accepted, Result, Files, Selected, Corpus
<1>2. ASSUME NEW d, NEW e, IsResult(d), e = d
      PROVE  \E q \in Runs : ValidArguments(Options[q]) /\ Accepted(q)' /\ e = Result(q)'
  BY <1>1, <1>2 DEF IsResult
<1> DEFINE Was(e) == \E q \in Runs : ValidArguments(Options[q]) /\ Accepted(q)' /\ e = Result(q)'
<1>3. IsResult(output) /\ output' = output => Was(output')
  BY <1>2
<1>. HIDE DEF Was
<1>4. SUFFICES /\ output' \in {None, Other} \/ Was(output')
               /\ \A q \in Runs : backup'[q] \in {None, Torn} \/ Was(backup'[q])
  BY DEF Origins, IsResult, Was
<1>5. \A d : IsResult(d) => Was(d)
  BY <1>2 DEF Was
<1>6. /\ output \in {None, Other} \/ Was(output)
      /\ \A q \in Runs : backup[q] \in {None, Torn} \/ Was(backup[q])
  BY <1>5 DEF Origins
<1>7. CASE Still(r)
  BY <1>0, <1>6, <1>7, StillLeaves
<1> USE DEF Goto, files, memory, Staging
<1>8. CASE Park(r)
  <2>1. output # Other /\ output # None
    BY <1>8 DEF Park, IInv, PublicWhole
  <2>2. output' = None /\ backup'[r] = output
    BY <1>0, <1>8 DEF Park, Shape
  <2>. QED
    BY <1>0, <1>6, <2>1, <2>2
<1>9. CASE Install(r)
  <2>1. pc[r] = "install" /\ output' = staged[r] /\ backup' = backup
    BY <1>9 DEF Install
  <2>2. staged[r] = Result(r) /\ Accepted(r) /\ ValidArguments(Options[r])
    BY <2>1 DEF IInv, StagedKnown, ArgumentsValid
  <2>3. IsResult(output')
    BY <2>1, <2>2 DEF IsResult
  <2>. QED
    BY <1>5, <1>6, <2>1, <2>3
<1>10. CASE Restore(r)
  <2>1. pc[r] = "restore"
    BY <1>10 DEF Restore
  <2>2. backup[r] # Torn
    BY <2>1 DEF IInv, PublicWhole
  <2>3. \/ output' = output /\ backup' = backup
        \/ backup[r] # None /\ output' = backup[r] /\ backup'[r] = None
    BY <1>0, <1>10 DEF Restore, Restorable, Shape
  <2>. QED
    BY <1>0, <1>6, <2>2, <2>3
<1>11. CASE Discard(r)
  <2>1. output' = output /\ backup'[r] \in {None, Torn}
    BY <1>0, <1>11 DEF Discard, Shape
  <2>. QED
    BY <1>0, <1>6, <2>1
<1>12. CASE Kill(r) /\ pc[r] = "discard"
  <2>1. output' = output /\ backup'[r] = Torn
    BY <1>0, <1>12 DEF Kill, Shape
  <2>. QED
    BY <1>0, <1>6, <2>1
<1>. QED
  BY <1>7, <1>8, <1>9, <1>10, <1>11, <1>12 DEF Step, Still

LEMMA SelectionKeeps == IInv /\ SelectionInv /\ [Next]_vars => SelectionInv'
<1> SUFFICES ASSUME IInv, SelectionInv, [Next]_vars PROVE SelectionInv'
  OBVIOUS
<1>1. CASE UNCHANGED vars
  <2>1. PreparationTypeOK' /\ ArgumentsValid' /\ Settled'
    BY <1>1 DEF vars, files, memory, SelectionInv, PreparationTypeOK, ArgumentsValid, Settled
  <2>2. \A q \in Runs : Accepted(q)' = Accepted(q) /\ Result(q)' = Result(q)
    BY <1>1 DEF vars, Accepted, Result, Files, Selected, Corpus
  <2>3. Origins'
    BY <1>1, <2>2 DEF vars, files, SelectionInv, Origins, IsResult
  <2>. QED
    BY <2>1, <2>3 DEF SelectionInv
<1>2. ASSUME NEW r \in Runs, Step(r) \/ Kill(r) PROVE SelectionInv'
  BY <1>2, OutcomeKeeps, OriginsKeep DEF SelectionInv
<1>. QED
  BY <1>1, <1>2 DEF Next, Done

\* prepare: for any corpora, judgments and options, what is published is the
\* selection that the manifest promises, both tiers in rank order, the small one the
\* beginning of the large one, no text twice and every positive judgment covered.
THEOREM SelectionExactHolds == Spec => []SelectionExact
<1>1. ASSUME IInv, SelectionInv PROVE SelectionExact
  <2>1. PreparationTypeOK /\ source \in Sources
    BY <1>1 DEF SelectionInv, PreparationTypeOK
  <2>2. output \notin {None, Other} => Exact(output)
    BY <1>1, <2>1, ResultExact DEF SelectionInv, Origins, IsResult
  <2>. QED
    BY <2>1, <2>2 DEF SelectionExact, Exact
<1>2. Spec => []SelectionInv
  BY InitSelection, SelectionKeeps, Invariance, PTL DEF Spec
<1>. QED
  BY <1>1, <1>2, Invariance, PTL
=============================================================================
