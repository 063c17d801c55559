------------------------- MODULE DatasetPreparation -------------------------
(***************************************************************************)
(* scripts/prepare_beir_nq_scale.py: runs that make the nested 100K and 1M  *)
(* tiers from one archive and publish them as one directory.  The source is *)
(* found or downloaded, extracted, indexed by the rank of its identifiers;  *)
(* positives and the first fillers of unused text are selected, all files   *)
(* are written in a staging directory, and two renames replace the          *)
(* directory that is public.  Runs may overlap, fail anywhere or be killed. *)
(*                                                                         *)
(* Identifiers are the numbers of Docs; the text a document has after       *)
(* normalisation and truncation is the least document that has it.          *)
(***************************************************************************)
EXTENDS Integers, FiniteSets, SequencesExt

CONSTANTS
  Runs,        \* invocations of the script, all with one output
  Docs,        \* identifiers a corpus may hold, numbers
  Queries,     \* query identifiers, numbers
  Sources,     \* the data sets the expected archive may hold
  Options,     \* run -> its arguments
  Rank,        \* seed -> identifier -> rank_hash
  Good, Bad,   \* an archive with the expected MD5, one without
  Torn,        \* what is left of a directory whose removal stopped half way
  Other,       \* a file or link where the output directory belongs
  None

ASSUME PreparationAssumption ==
  /\ Docs \subseteq Nat /\ Queries \subseteq Nat
  /\ IsFiniteSet(Docs) /\ IsFiniteSet(Queries)
  /\ \A s \in Sources :
       /\ s.docs \subseteq Docs /\ s.text \in [Docs -> Docs]
       /\ s.queries \subseteq Queries /\ s.relevant \in [Queries -> SUBSET Docs]
  /\ \A r \in Runs :
       /\ Options[r].from \in {"directory", "archive", "download"}
       /\ {Options[r].queries, Options[r].small, Options[r].large} \subseteq Int
       /\ \A d \in Docs : Rank[Options[r].seed][d] \in Nat

VARIABLES
  source,    \* what the expected archive, and the source directory, hold
  archive,   \* the archive file
  temp,      \* run -> its .download- file
  output,    \* the public directory
  staged,    \* staging directory -> its result
  backup,    \* run -> its .backup- directory
  pc,        \* run -> where it is
  input,     \* run -> the archive whose members it extracted
  chosen,    \* run -> the selection in its database
  previous,  \* run -> had_previous
  outcome    \* run -> how it ended

files  == <<archive, temp, output, staged, backup>>
memory == <<input, chosen, previous, outcome>>
vars   == <<source, files, pc, memory>>

-----------------------------------------------------------------------------
(***************************************************************************)
(* Selection.                                                              *)
(***************************************************************************)

\* ORDER BY rank_hash, corpus_id.
Before(a, b, seed) == \/ Rank[seed][a] < Rank[seed][b]
                      \/ Rank[seed][a] = Rank[seed][b] /\ a < b

Ordered(S, seed) ==
  [i \in 1 .. Cardinality(S) |->
     CHOOSE d \in S : Cardinality({e \in S : Before(e, d, seed)}) = i - 1]

Pool(s) == {q \in Queries : s.relevant[q] # {}}

\* select_queries: the first of those that have a positive judgment.
SelectQueries(s, o) == SubSeq(Ordered(Pool(s), o.seed), 1, o.queries)

Positives(s, o) == UNION {s.relevant[q] : q \in Range(SelectQueries(s, o))}

\* Every document is a row, its text a digest; positives are told apart.
IndexCorpus(s, o) ==
  [d \in s.docs |-> [text |-> s.text[d], positive |-> d \in Positives(s, o)]]

\* Mutant of Candidate: the texts of positives are not reserved.
CandidateAnyText(acc, d, corpus, o) ==
  IF Cardinality(acc.small \cup acc.rest) = o.large THEN acc
  ELSE [used  |-> acc.used \cup {corpus[d].text},
        small |-> IF Cardinality(acc.small) < o.small THEN acc.small \cup {d} ELSE acc.small,
        rest  |-> IF Cardinality(acc.small) < o.small THEN acc.rest ELSE acc.rest \cup {d}]

\* One filler: skipped if its text is used, else into the tier that has room.
Candidate(acc, d, corpus, o) ==
  IF \/ Cardinality(acc.small \cup acc.rest) = o.large
     \/ corpus[d].text \in acc.used
  THEN acc
  ELSE [used  |-> acc.used \cup {corpus[d].text},
        small |-> IF Cardinality(acc.small) < o.small THEN acc.small \cup {d} ELSE acc.small,
        rest  |-> IF Cardinality(acc.small) < o.small THEN acc.rest ELSE acc.rest \cup {d}]

SelectDocuments(corpus, o) ==
  LET positives == {d \in DOMAIN corpus : corpus[d].positive}
      fillers   == Ordered(DOMAIN corpus \ positives, o.seed)
  IN  FoldLeft(LAMBDA acc, d : Candidate(acc, d, corpus, o),
               [used  |-> {corpus[d].text : d \in positives},
                small |-> positives, rest |-> {}], fillers)

\* The checks of select_queries, index_corpus and select_documents.
QueriesAccepted(s, o) ==
  /\ Pool(s) \subseteq s.queries
  /\ Cardinality(Pool(s)) >= o.queries

CorpusAccepted(s, o) ==
  /\ Positives(s, o) \subseteq s.docs
  /\ s.docs # {}

SelectionAccepted(corpus, o) ==
  LET positives == {d \in DOMAIN corpus : corpus[d].positive}
      selected  == SelectDocuments(corpus, o)
  IN  /\ Cardinality(positives) <= o.small
      /\ Cardinality(DOMAIN corpus) >= o.large
      /\ \A d, e \in positives : corpus[d].text = corpus[e].text => d = e
      /\ Cardinality(selected.small) = o.small
      /\ Cardinality(selected.small \cup selected.rest) = o.large

\* Both document files are written in one pass over tier, rank and identifier:
\* the first small_count lines go into both tiers.
WriteDocuments(selected, o) ==
  LET rows == Ordered(selected.small, o.seed) \o Ordered(selected.rest, o.seed)
  IN  [large |-> rows, small |-> SubSeq(rows, 1, o.small)]

WriteQueries(s, o) ==
  LET selected == SelectQueries(s, o)
  IN  [ids |-> selected, qrels |-> [q \in Range(selected) |-> s.relevant[q]]]

\* What prepare verifies of the files before it describes them.
FilesAccepted(f, s, o) ==
  /\ IsPrefix(f.tiers.small, f.tiers.large)
  /\ Len(f.tiers.small) = o.small /\ Len(f.tiers.large) = o.large
  /\ IsInjective(f.tiers.large)
  /\ Positives(s, o) \subseteq Range(f.tiers.small)

BuildManifest(f, o) ==
  [options |-> o, files |-> f,
   archive |-> IF o.from = "directory" THEN None ELSE Good]

\* The marks are told apart from each other and from every result.
ASSUME MarksAssumption ==
  /\ Good # Bad /\ None \notin {Bad, Other, Torn} /\ Other # Torn
  /\ None \notin {"failed", "published", "publishedWithError", "stranded", "killed"}
  /\ \A s \in Sources, r \in Runs :
       LET o == Options[r]
           corpus == IndexCorpus(s, o)
       IN  QueriesAccepted(s, o) /\ CorpusAccepted(s, o) /\ SelectionAccepted(corpus, o) =>
             LET f == [tiers |-> WriteDocuments(SelectDocuments(corpus, o), o),
                       queries |-> WriteQueries(s, o)]
                 d == [tiers |-> f.tiers, queries |-> f.queries,
                       manifest |-> BuildManifest(f, o)]
             IN  d.manifest # None /\ d \notin {None, Other, Torn}

-----------------------------------------------------------------------------
Init ==
  /\ source \in Sources
  /\ archive \in {None, Good, Bad}
  /\ temp = [r \in Runs |-> None]
  /\ output \in {None, Other}
  /\ staged = [r \in Runs |-> None]
  /\ backup = [r \in Runs |-> None]
  /\ pc = [r \in Runs |-> "start"]
  /\ input = [r \in Runs |-> None]
  /\ chosen = [r \in Runs |-> None]
  /\ previous = [r \in Runs |-> FALSE]
  /\ outcome = [r \in Runs |-> None]

Goto(r, point) == pc' = [pc EXCEPT ![r] = point]

\* Mutant of Staging: one name for the staging directory of all runs.
StagingShared(r) == CHOOSE x \in Runs : TRUE

\* mkdtemp makes a name of its own for each run.
Staging(r) == r

ValidArguments(o) == o.queries > 0 /\ o.small > 0 /\ o.large > o.small

Start(r) ==
  /\ pc[r] = "start"
  /\ IF ValidArguments(Options[r])
     THEN Goto(r, "acquire") /\ UNCHANGED outcome
     ELSE Goto(r, "ended") /\ outcome' = [outcome EXCEPT ![r] = "failed"]
  /\ UNCHANGED <<source, files, input, chosen, previous>>

\* Any call may fail; the staging directory is removed on the way out.
Fail(r) ==
  /\ pc[r] \in {"acquire", "fetched", "extract", "select", "write", "describe", "publish"}
  /\ Goto(r, "cleanup")
  /\ temp' = [temp EXCEPT ![r] = None]
  /\ outcome' = [outcome EXCEPT ![r] = "failed"]
  /\ UNCHANGED <<source, archive, output, staged, backup, input, chosen, previous>>

\* verify_archive, and the cached archive of download_archive.
Acquired(r) == \/ Options[r].from = "directory"
               \/ archive = Good

Acquire(r) ==
  /\ pc[r] = "acquire"
  /\ Acquired(r)
  /\ Goto(r, "extract")
  /\ UNCHANGED <<source, files, memory>>

\* The body arrives in a file of the run's own; whatever the server sends.
Download(r) ==
  /\ pc[r] = "acquire"
  /\ Options[r].from = "download" /\ ~Acquired(r)
  /\ \E content \in {Good, Bad} : temp' = [temp EXCEPT ![r] = content]
  /\ Goto(r, "fetched")
  /\ UNCHANGED <<source, archive, output, staged, backup, memory>>

InstallArchive(r) ==
  /\ pc[r] = "fetched"
  /\ temp[r] = Good
  /\ archive' = temp[r]
  /\ temp' = [temp EXCEPT ![r] = None]
  /\ Goto(r, "extract")
  /\ UNCHANGED <<source, output, staged, backup, memory>>

\* The archive is opened again; find_dataset_root accepts one data set.
Extract(r) ==
  /\ pc[r] = "extract"
  /\ input' = [input EXCEPT ![r] = IF Options[r].from = "directory" THEN None ELSE archive]
  /\ Goto(r, "select")
  /\ UNCHANGED <<source, files, chosen, previous, outcome>>

Select(r) ==
  /\ pc[r] = "select"
  /\ LET o == Options[r]
         corpus == IndexCorpus(source, o)
     IN  /\ QueriesAccepted(source, o) /\ CorpusAccepted(source, o)
         /\ SelectionAccepted(corpus, o)
         /\ chosen' = [chosen EXCEPT ![r] = SelectDocuments(corpus, o)]
  /\ Goto(r, "write")
  /\ UNCHANGED <<source, files, input, previous, outcome>>

Write(r) ==
  /\ pc[r] = "write"
  /\ staged' = [staged EXCEPT ![Staging(r)] =
       [tiers |-> WriteDocuments(chosen[r], Options[r]),
        queries |-> WriteQueries(source, Options[r]), manifest |-> None]]
  /\ Goto(r, "describe")
  /\ UNCHANGED <<source, archive, temp, output, backup, memory>>

Describe(r) ==
  /\ pc[r] = "describe"
  /\ LET f == [tiers |-> WriteDocuments(chosen[r], Options[r]),
               queries |-> WriteQueries(source, Options[r])]
     IN  /\ FilesAccepted(f, source, Options[r])
         /\ staged[Staging(r)] # None
         /\ staged' = [staged EXCEPT ![Staging(r)].manifest = BuildManifest(f, Options[r])]
  /\ Goto(r, "publish")
  /\ UNCHANGED <<source, archive, temp, output, backup, memory>>

-----------------------------------------------------------------------------
(***************************************************************************)
(* publish_directory.                                                       *)
(***************************************************************************)
Look(r) ==
  /\ pc[r] = "publish"
  /\ output # Other
  /\ previous' = [previous EXCEPT ![r] = output # None]
  /\ Goto(r, IF output # None THEN "park" ELSE "install")
  /\ UNCHANGED <<source, files, input, chosen, outcome>>

\* Mutant of Park: the previous directory is removed instead.
ParkByRemoving(r) ==
  /\ pc[r] = "park"
  /\ output # None
  /\ output' = None
  /\ Goto(r, "install")
  /\ UNCHANGED <<source, archive, temp, staged, backup, memory>>

Park(r) ==
  /\ pc[r] = "park"
  /\ output # None
  /\ backup' = [backup EXCEPT ![r] = output]
  /\ output' = None
  /\ Goto(r, "install")
  /\ UNCHANGED <<source, archive, temp, staged, memory>>

\* Outside the try: nothing is undone.
ParkFails(r) ==
  /\ pc[r] = "park"
  /\ Goto(r, "cleanup")
  /\ outcome' = [outcome EXCEPT ![r] = "failed"]
  /\ UNCHANGED <<source, files, input, chosen, previous>>

\* A directory is never renamed onto one that holds files.
Install(r) ==
  /\ pc[r] = "install"
  /\ output = None /\ staged[Staging(r)] # None
  /\ output' = staged[Staging(r)]
  /\ staged' = [staged EXCEPT ![Staging(r)] = None]
  /\ Goto(r, IF previous[r] THEN "discard" ELSE "cleanup")
  /\ outcome' = [outcome EXCEPT ![r] = "published"]
  /\ UNCHANGED <<source, archive, temp, backup, input, chosen, previous>>

InstallFails(r) ==
  /\ pc[r] = "install"
  /\ Goto(r, "restore")
  /\ outcome' = [outcome EXCEPT ![r] = "failed"]
  /\ UNCHANGED <<source, files, input, chosen, previous>>

Restorable(r) == previous[r] /\ backup[r] # None /\ output = None

Restore(r) ==
  /\ pc[r] = "restore"
  /\ IF Restorable(r)
     THEN \/ /\ output' = backup[r]
             /\ backup' = [backup EXCEPT ![r] = None]
             /\ UNCHANGED outcome
          \/ /\ outcome' = [outcome EXCEPT ![r] = "stranded"]
             /\ UNCHANGED <<output, backup>>
     ELSE UNCHANGED <<output, backup, outcome>>
  /\ Goto(r, "cleanup")
  /\ UNCHANGED <<source, archive, temp, staged, input, chosen, previous>>

\* A removal that fails ends the run with an error after the publication.
Discard(r) ==
  /\ pc[r] = "discard"
  /\ \/ backup' = [backup EXCEPT ![r] = None] /\ UNCHANGED outcome
     \/ /\ backup' = [backup EXCEPT ![r] = Torn]
        /\ outcome' = [outcome EXCEPT ![r] = "publishedWithError"]
  /\ Goto(r, "cleanup")
  /\ UNCHANGED <<source, archive, temp, output, staged, input, chosen, previous>>

\* The finally of run; what cannot be removed is left without a word.
Cleanup(r) ==
  /\ pc[r] = "cleanup"
  /\ \/ staged' = [staged EXCEPT ![Staging(r)] = None]
     \/ UNCHANGED staged
  /\ Goto(r, "ended")
  /\ UNCHANGED <<source, archive, temp, output, backup, memory>>

\* A kill keeps all files, a download or a removal as far as it got.
Kill(r) ==
  /\ pc[r] \notin {"start", "ended"}
  /\ Goto(r, "ended")
  /\ outcome' = [outcome EXCEPT ![r] =
       IF pc[r] \in {"install", "restore"} /\ previous[r] THEN "stranded"
       ELSE IF @ = "stranded" THEN @ ELSE "killed"]
  /\ backup' = [backup EXCEPT ![r] = IF pc[r] = "discard" THEN Torn ELSE @]
  /\ UNCHANGED <<source, archive, temp, output, staged, input, chosen, previous>>

Step(r) == \/ Start(r) \/ Acquire(r) \/ Download(r) \/ InstallArchive(r) \/ Extract(r)
           \/ Select(r) \/ Write(r) \/ Describe(r)
           \/ Look(r) \/ Park(r) \/ ParkFails(r) \/ Install(r) \/ InstallFails(r)
           \/ Restore(r) \/ Discard(r) \/ Cleanup(r) \/ Fail(r)

Done == (\A r \in Runs : pc[r] = "ended") /\ UNCHANGED vars

Next == (\E r \in Runs : Step(r) \/ Kill(r)) \/ Done

Spec == Init /\ [][Next]_vars

-----------------------------------------------------------------------------
(***************************************************************************)
(* Properties.                                                             *)
(***************************************************************************)

\* A directory that can be read as a data set: all its files, described by a
\* manifest that is of these files.
IsWhole(d) ==
  /\ d \notin {None, Other, Torn}
  /\ d.manifest # None
  /\ d.manifest.files = [tiers |-> d.tiers, queries |-> d.queries]

PreparationTypeOK ==
  /\ source \in Sources /\ archive \in {None, Good, Bad}
  /\ temp \in [Runs -> {None, Good, Bad}]
  /\ input \in [Runs -> {None, Good, Bad}]
  /\ previous \in [Runs -> BOOLEAN]
  /\ outcome \in [Runs -> {None, "failed", "published", "publishedWithError",
                           "stranded", "killed"}]
  /\ \A r \in Runs : pc[r] = "ended" => outcome[r] # None

\* Whoever opens the output, at any moment and next to any number of runs, finds
\* the files of one run with the manifest of that run (publish_directory), and no
\* run works on an archive whose MD5 it did not compare, also when another run
\* replaces the cached one between the comparison and the extraction.
OutputWhole ==
  /\ output \notin {None, Other} => IsWhole(output)
  /\ \A r \in Runs : input[r] # Bad

\* The selection the manifest promises, said without the loop: the positives,
\* then in rank order the first document of every text no positive has.
Fillers(o) ==
  {d \in source.docs \ Positives(source, o) :
     \A e \in source.docs \ {d} :
       source.text[e] = source.text[d] =>
         e \notin Positives(source, o) /\ Before(d, e, o.seed)}

Tier(n, o) ==
  Positives(source, o) \cup
    {d \in Fillers(o) : Cardinality({e \in Fillers(o) : Before(e, d, o.seed)})
                          < n - Cardinality(Positives(source, o))}

\* What is published is that selection: both tiers, each sorted within what it
\* adds, the small one a prefix of the large one and the same whatever the large
\* one's size, no text twice, every positive judgment covered (and the state is
\* well typed, which the run checks along with it).
SelectionExact ==
  /\ PreparationTypeOK
  /\ output \notin {None, Other} =>
    LET o == output.manifest.options
        t == output.tiers
    IN  /\ Range(t.small) = Tier(o.small, o)
        /\ Range(t.large) = Tier(o.large, o)
        /\ IsPrefix(t.small, t.large)
        /\ \A i, j \in DOMAIN t.large :
             /\ i < j /\ (j <= o.small \/ i > o.small)
             => Before(t.large[i], t.large[j], o.seed)
        /\ \A i, j \in DOMAIN t.large :
             source.text[t.large[i]] = source.text[t.large[j]] => i = j
        /\ \A q \in Range(output.queries.ids) : source.relevant[q] \subseteq Range(t.small)

SomewhereWhole == IsWhole(output) \/ \E r \in Runs : IsWhole(backup[r])

\* Once a data set was published there is always a whole one on disk, public or
\* in a backup, whatever fails, races or is killed.
DatasetNeverLost == [][SomewhereWhole => SomewhereWhole']_vars
=============================================================================
