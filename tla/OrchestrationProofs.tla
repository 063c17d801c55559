------------------------- MODULE OrchestrationProofs -------------------------
(***************************************************************************)
(* Theorems about GroundTruth and Orchestration, for any settings, any      *)
(* number of blocks, any plan with one build before its reads, and any      *)
(* number of kills, failures, deletions and replaced indexes.               *)
(***************************************************************************)
EXTENDS Orchestration, TLAPS

-----------------------------------------------------------------------------
(* The blocks of a file.                                                     *)

\* A file with all its blocks, each in its place, is the whole truth.
LEMMA WholeWhenFull ==
  ASSUME NEW in, NEW S, NEW s \in Seq(S), Begins(s, in), Len(s) = Blocks
  PROVE  s = Whole(in)
BY TruthAssumption DEF Begins, Whole

LEMMA NothingBegins ==
  ASSUME NEW in
  PROVE  Begins(<< >>, in)
BY DEF Begins

LEMMA NextBlock ==
  ASSUME NEW in, NEW S, NEW s \in Seq(S), Begins(s, in), Len(s) < Blocks,
         NEW b \in S, b = <<in, Len(s) + 1>>
  PROVE  Append(s, b) \in Seq(S) /\ Begins(Append(s, b), in)
<1>1. /\ Append(s, b) \in Seq(S) /\ Len(Append(s, b)) = Len(s) + 1
      /\ \A n \in 1 .. Len(s) + 1 : Append(s, b)[n] = IF n <= Len(s) THEN s[n] ELSE b
  OBVIOUS
<1>2. \A n \in 1 .. Len(s) + 1 : n \in 1 .. Blocks
  BY TruthAssumption
<1>3. \A n \in 1 .. Len(s) + 1 : n \in 1 .. Len(s) \/ n = Len(s) + 1
  OBVIOUS
<1>. QED  BY <1>1, <1>2, <1>3 DEF Begins

\* The inputs of a process that has its corpus cache.
LEMMA CurrentInputs ==
  ASSUME setting \in Settings, corpusCache = setting.model
  PROVE  Current \in Inputs
BY DEF Current, Inputs

\* Inputs are their corpus and their top-k.
LEMMA SameInputs ==
  ASSUME NEW in \in Inputs, in.corpus = corpusCache, in.k = setting.k
  PROVE  in = Current
BY DEF Current, Inputs

LEMMA ExactIsFile ==
  ASSUME NEW in \in Inputs
  PROVE  Exact(in) \in File
<1>1. \A n \in 1 .. Blocks : <<in, n>> \in Block
  BY DEF Block
<1>2. Whole(in) \in [1 .. Blocks -> Block \cup {Torn}]
  BY <1>1 DEF Whole
<1>3. Whole(in) \in Seq(Block \cup {Torn})
  BY <1>2, TruthAssumption
<1>. QED  BY <1>3 DEF Exact, File

-----------------------------------------------------------------------------
(* The preparation: what it keeps on disk stays true.                        *)

LEMMA TruthStarts ==
  PrepareInit => PreparationTypeOK /\ TruthInv
BY TruthAssumption DEF PrepareInit, PreparationTypeOK, TruthInv, Bound, Growing,
   Resuming, Described

\* What AppendBlock writes is a file again.
LEMMA AppendedFile ==
  ASSUME partial \in File, Current \in Inputs, Len(partial.blocks) < Blocks,
         computed = <<Current, Len(partial.blocks) + 1>>
  PROVE  LET appended == [partial EXCEPT !.blocks = Append(partial.blocks, computed)] IN
           /\ appended \in File /\ appended.inputs = partial.inputs
           /\ appended.blocks = Append(partial.blocks, computed)
<1>1. partial.blocks \in Seq(Block \cup {Torn}) /\ Len(partial.blocks) + 1 \in 1 .. Blocks
  BY TruthAssumption DEF File
<1>2. computed \in Block
  BY <1>1 DEF Block
<1>3. Append(partial.blocks, computed) \in Seq(Block \cup {Torn})
  BY <1>1, <1>2
<1>. QED  BY <1>3 DEF File

LEMMA PreparationTypes ==
  ASSUME PreparationTypeOK, TruthInv,
         PrepareStep \/ Prepared \/ Discard \/ Kill \/ (\E s \in Settings : Prepare(s))
  PROVE  PreparationTypeOK'
<1> USE TruthAssumption DEF PreparationTypeOK, TruthInv, Goto, Leave, caches, job
<1>0. pc \notin {"idle", "corpus", "validate"} => Current \in Inputs
  BY CurrentInputs DEF Bound
<1>1. CASE CacheCorpus \/ CacheQueries
  BY <1>1 DEF CacheCorpus, CacheQueries, Bound, Models
<1>2. CASE CacheRefused \/ Refuse \/ Reuse \/ Recover
  BY <1>2 DEF CacheRefused, Refuse, Reuse, Recover
<1>3. CASE Resume
  BY <1>3 DEF Resume, Resumable, File, Progress
<1>4. CASE Create
  <2>1. partial' \in File
    BY <1>0, <1>4 DEF Create, File
  <2>. QED  BY <1>4, <2>1 DEF Create
<1>5. CASE Checkpoint
  <2>1. checkpoint' \in Progress
    BY <1>0, <1>5 DEF Checkpoint, Running, Growing, File, Progress
  <2>. QED  BY <1>5, <2>1 DEF Checkpoint
<1>6. CASE Compute
  <2>1. Len(partial.blocks) \in Nat /\ Current \in Inputs
    BY <1>0, <1>6 DEF Compute, Growing, File
  <2>2. computed' \in Block
    BY <1>6, <2>1 DEF Compute, Block
  <2>. QED  BY <1>6, <2>2 DEF Compute
<1>7. CASE AppendBlock
  <2>1. partial' \in File
    BY <1>0, <1>7, AppendedFile DEF AppendBlock, Growing
  <2>. QED  BY <1>7, <2>1 DEF AppendBlock
<1>8. CASE MarkReady
  <2>1. checkpoint' \in Progress
    BY <1>0, <1>8 DEF MarkReady, Running, Growing, File, Progress
  <2>. QED  BY <1>8, <2>1 DEF MarkReady
<1>9. CASE Publish \/ Clear \/ Prepared
  BY <1>9 DEF Publish, Clear, Prepared
<1>10. CASE Describe
  <2>1. truthMeta' \in Sidecar
    BY <1>0, <1>10, ExactIsFile DEF Describe, Described, Sidecar
  <2>. QED  BY <1>10, <2>1 DEF Describe
<1>11. CASE Kill
  <2>1. faults' \in 0 .. Faults
    BY <1>11 DEF Kill
  <2>2. partial' \in File \cup {None}
    <3>1. CASE pc = "append"
      <4>1. partial \in File
        BY <3>1 DEF Growing
      <4>2. [partial EXCEPT !.blocks = Append(@, Torn)] \in File
        BY <4>1 DEF File
      <4>. QED  BY <1>11, <3>1, <4>1, <4>2 DEF Kill
    <3>2. CASE pc # "append"
      BY <1>11, <3>2 DEF Kill
    <3>. QED  BY <3>1, <3>2
  <2>. QED  BY <1>11, <2>1, <2>2 DEF Kill
<1>12. CASE Discard
  BY <1>12 DEF Discard
<1>13. CASE \E s \in Settings : Prepare(s)
  BY <1>13 DEF Prepare
<1>. QED
  BY <1>1, <1>2, <1>3, <1>4, <1>5, <1>6, <1>7, <1>8, <1>9, <1>10, <1>11, <1>12, <1>13
     DEF PrepareStep

LEMMA PreparationKeeps ==
  ASSUME PreparationTypeOK, TruthInv,
         PrepareStep \/ Prepared \/ Discard \/ Kill \/ (\E s \in Settings : Prepare(s))
  PROVE  TruthInv'
<1> USE TruthAssumption DEF Goto, Leave, caches, job
<1>0. /\ Bound /\ Growing /\ Resuming /\ Described
      /\ Current' = [corpus |-> corpusCache', k |-> setting'.k]
  BY DEF TruthInv, Current
<1>1. Bound'
  BY <1>0 DEF Bound, PrepareStep, CacheCorpus, CacheQueries, CacheRefused, Refuse,
     Reuse, Recover, Resume, Create, Checkpoint, Compute, AppendBlock, MarkReady,
     Publish, Describe, Clear, Prepared, Kill, Discard, Prepare
<1>2. CASE CacheCorpus \/ CacheQueries \/ CacheRefused \/ Refuse \/ Reuse \/ Prepared
           \/ \E s \in Settings : Prepare(s)
  BY <1>0, <1>1, <1>2 DEF CacheCorpus, CacheQueries, CacheRefused, Refuse, Reuse,
     Prepared, Prepare, TruthInv, Growing, Resuming, Described
<1>3. CASE Recover
  BY <1>0, <1>1, <1>3 DEF Recover, Recoverable, TruthInv, Growing, Resuming, Described,
     Current
<1>4. CASE Resume
  <2>1. /\ partial \in File /\ checkpoint \in Progress
        /\ checkpoint.inputs = Current /\ Current' = Current
    BY <1>0, <1>4 DEF Resume, Resumable, PreparationTypeOK, Current
  <2>2. /\ partial' \in File /\ partial'.inputs = Current
        /\ partial'.blocks = checkpoint.blocks
    BY <1>0, <1>4, <2>1 DEF Resume, Resuming, File, Progress
  <2>3. Begins(partial'.blocks, Current)
    BY <1>0, <2>1, <2>2 DEF Resuming
  <2>4. Growing' /\ Resuming'
    BY <1>0, <1>4, <2>1, <2>2, <2>3 DEF Resume, Growing, Resuming
  <2>5. Described'
    BY <1>0, <1>4 DEF Resume, Described
  <2>. QED  BY <1>1, <2>4, <2>5 DEF TruthInv
<1>5. CASE Create
  <2>1. /\ pc' = "first" /\ partial' = [inputs |-> Current, blocks |-> << >>]
        /\ checkpoint = None /\ checkpoint' = None /\ Current' = Current
        /\ UNCHANGED <<truth, truthMeta>>
    BY <1>0, <1>5 DEF Create, Fresh, Current
  <2>2. partial' \in File
    BY PreparationTypes, <1>5, <2>1, CurrentInputs, <1>0 DEF PrepareStep, File, Bound, Create
  <2>3. Growing' /\ Resuming' /\ Described'
    BY <1>0, <2>1, <2>2, NothingBegins DEF Growing, Resuming, Described
  <2>. QED  BY <1>1, <2>3 DEF TruthInv
<1>6. CASE Checkpoint
  <2>1. /\ pc' = "compute" /\ checkpoint' = Running
        /\ Current' = Current /\ UNCHANGED <<truth, truthMeta, partial>>
        /\ partial \in File /\ partial.inputs = Current
        /\ Begins(partial.blocks, Current)
    BY <1>0, <1>6 DEF Checkpoint, Current, Growing
  <2>2. Growing' /\ Resuming' /\ Described'
    BY <1>0, <2>1 DEF Growing, Resuming, Described, Running
  <2>. QED  BY <1>1, <2>2 DEF TruthInv
<1>7. CASE Compute
  <2>1. /\ pc = "compute" /\ pc' = "append" /\ Len(partial.blocks) < Blocks
        /\ computed' = <<Current, Len(partial.blocks) + 1>>
        /\ Current' = Current /\ UNCHANGED <<truth, truthMeta, partial, checkpoint>>
    BY <1>0, <1>7 DEF Compute, Current
  <2>2. Growing' /\ Resuming' /\ Described'
    BY <1>0, <2>1 DEF Growing, Resuming, Described
  <2>. QED  BY <1>1, <2>2 DEF TruthInv
<1>8. CASE AppendBlock
  <2>1. /\ pc = "append" /\ pc' = "record" /\ Current' = Current
        /\ partial' = [partial EXCEPT !.blocks = Append(partial.blocks, computed)]
        /\ UNCHANGED <<truth, truthMeta, checkpoint>>
        /\ partial \in File /\ partial # None /\ partial.inputs = Current
        /\ Begins(partial.blocks, Current)
        /\ Len(partial.blocks) < Blocks /\ computed = <<Current, Len(partial.blocks) + 1>>
    BY <1>0, <1>8 DEF AppendBlock, Current, Growing
  <2>2. /\ partial' \in File /\ partial'.inputs = Current
        /\ partial'.blocks = Append(partial.blocks, computed)
    BY <1>0, <2>1, CurrentInputs, AppendedFile DEF Bound
  <2>3. Begins(partial'.blocks, Current)
    <3>1. /\ partial.blocks \in Seq(Block \cup {Torn} \cup {computed})
          /\ computed \in Block \cup {Torn} \cup {computed}
      BY <2>1 DEF File
    <3>. QED  BY <2>1, <2>2, <3>1, NextBlock
  <2>4. Growing' /\ Resuming' /\ Described'
    BY <1>0, <2>1, <2>2, <2>3 DEF Growing, Resuming, Described
  <2>. QED  BY <1>1, <2>4 DEF TruthInv
<1>9. CASE MarkReady
  <2>1. /\ pc = "compute" /\ pc' = "publish" /\ Current' = Current
        /\ checkpoint' = [Running EXCEPT !.status = "ready", !.of = partial]
        /\ UNCHANGED <<truth, truthMeta, partial>>
        /\ partial \in File /\ partial.inputs = Current
        /\ Begins(partial.blocks, Current) /\ Len(partial.blocks) = Blocks
    BY <1>0, <1>9 DEF MarkReady, Current, Growing
  <2>2. partial = Exact(Current)
    BY <2>1, WholeWhenFull DEF File, Exact
  <2>3. /\ checkpoint'.inputs = Current /\ checkpoint'.blocks = partial.blocks
        /\ checkpoint'.of = partial
    BY <2>1 DEF Running
  <2>4. Growing' /\ Resuming' /\ Described'
    BY <1>0, <2>1, <2>2, <2>3 DEF Growing, Resuming, Described, Exact
  <2>. QED  BY <1>1, <2>4 DEF TruthInv
<1>10. CASE Publish \/ Clear
  <2>1. Current' = Current
    BY <1>0, <1>10 DEF Publish, Clear, Current
  <2>. QED
    BY <1>0, <1>1, <1>10, <2>1 DEF Publish, Clear, TruthInv, Growing, Resuming, Described
<1>11. CASE Describe
  <2>1. /\ Current' = Current /\ pc = "describe" /\ pc' = "clear"
        /\ truthMeta' = [inputs |-> Current, of |-> truth]
        /\ UNCHANGED <<truth, partial, checkpoint>>
    BY <1>0, <1>11 DEF Describe, Current
  <2>. QED
    BY <1>0, <1>1, <2>1 DEF TruthInv, Growing, Resuming, Described
<1>12. CASE Kill
  <2>1. /\ pc' = "idle" /\ UNCHANGED <<truth, truthMeta, checkpoint>>
        /\ partial' # None => partial # None /\ partial'.inputs = partial.inputs
    BY <1>0, <1>12 DEF Kill, PreparationTypeOK, Growing, File
  <2>. QED
    BY <1>0, <1>1, <2>1 DEF TruthInv, Growing, Resuming, Described
<1>13. CASE Discard
  BY <1>0, <1>1, <1>13 DEF Discard, TruthInv, Growing, Resuming, Described
<1>. QED
  BY <1>2, <1>3, <1>4, <1>5, <1>6, <1>7, <1>8, <1>9, <1>10, <1>11, <1>12, <1>13
     DEF PrepareStep

-----------------------------------------------------------------------------
(* The measured stages.                                                      *)

\* A step after the preparation leaves what that one keeps on disk.
LEMMA TruthStays ==
  ASSUME PreparationTypeOK, TruthInv, UNCHANGED <<caches, job>>,
         pc' \in Staging \cup {"idle", "validate"},
         pc' = "idle" \/ setting' \in Settings,
         pc' \in Staging => corpusCache = setting'.model,
         setting' \in Settings \cup {None}, computed' \in {computed, None},
         faults' \in 0 .. Faults
  PROVE  PreparationTypeOK' /\ TruthInv'
BY DEF PreparationTypeOK, TruthInv, Bound, Growing, Resuming, Described, Staging,
   caches, job

\* The plan.
LEMMA Plan ==
  /\ DOMAIN Stages = 1 .. Len(Stages) /\ Len(Stages) \in Nat \ {0}
  /\ \A i \in DOMAIN Stages : Stages[i] \in Range(Stages)
  /\ \A st \in Range(Stages) : Wanted[st] \in Nat \ {0}
  /\ \A st \in Range(Stages) \cap Builds : st = Stages[1]
BY PlanAssumption DEF Range

\* The stage a process is at and its state, which is the one on disk if there is one.
LEMMA AtName ==
  ASSUME TypeOK, TruthInv, pc \in Staging, stage \in DOMAIN Stages
  PROVE  /\ setting \in Settings /\ corpusCache = setting.model
         /\ Current \in Inputs /\ Name \in Range(Stages) /\ State \in StageFile
         /\ states[Name] # None => State = states[Name]
         /\ states[Name] = None => State.done = << >> /\ State.status = "running"
                                   /\ State.inputs = Current
<1>1. /\ setting \in Settings /\ corpusCache = setting.model
  BY DEF TruthInv, Bound, Staging
<1>2. Current \in Inputs
  BY <1>1, CurrentInputs
<1>3. Name \in Range(Stages)
  BY Plan DEF Name
<1>4. CASE states[Name] # None
  BY <1>1, <1>2, <1>3, <1>4 DEF State, TypeOK
<1>5. CASE states[Name] = None
  <2>1. State = [inputs |-> Current, status |-> "running", done |-> << >>, failed |-> 0]
    BY <1>5 DEF State
  <2>. QED  BY <1>1, <1>2, <1>3, <1>5, <2>1 DEF StageFile
<1>. QED  BY <1>4, <1>5

\* Steps of the preparation, and kills, leave the benchmark as it was; no stage runs
\* after them.
LEMMA BenchmarkStays ==
  ASSUME OrchestrationInv, UNCHANGED benchmark, pc' \notin Staging
  PROVE  /\ MeasuredAgainstExact' /\ Counted' /\ Behind' /\ AtStage' /\ OneBuild'
         /\ TypeOK' => ManifestHonest'
BY DEF OrchestrationInv, benchmark, ManifestHonest, MeasuredAgainstExact, Counted,
   Behind, AtStage, OneBuild, Staging, Complete, Measures, Unguarded

LEMMA Starts == Init => OrchestrationInv
<1> SUFFICES ASSUME Init PROVE OrchestrationInv
  OBVIOUS
<1>1. PreparationTypeOK /\ TruthInv
  BY TruthStarts DEF Init
<1>2. TypeOK
  BY <1>1, Plan, PlanAssumption DEF Init, PrepareInit, TypeOK
<1>3. /\ ManifestHonest /\ MeasuredAgainstExact /\ Counted /\ Behind /\ AtStage
      /\ OneBuild
  BY <1>2, Plan DEF Init, PrepareInit, ManifestHonest, MeasuredAgainstExact, Counted,
     Behind, AtStage, OneBuild, Staging, Unguarded
<1>. QED  BY <1>1, <1>2, <1>3 DEF OrchestrationInv

LEMMA PreparationStep ==
  ASSUME OrchestrationInv,
         \/ /\ PrepareStep \/ Prepared \/ Discard \/ (\E s \in Settings : Prepare(s))
            /\ UNCHANGED <<benchmark, memory>>
         \/ Killed
  PROVE  OrchestrationInv'
<1>1. PrepareStep \/ Prepared \/ Discard \/ Kill \/ (\E s \in Settings : Prepare(s))
  BY DEF Killed
<1>2. PreparationTypeOK' /\ TruthInv'
  BY <1>1, PreparationTypes, PreparationKeeps DEF OrchestrationInv, TypeOK
<1>3. pc' \in {"idle", "corpus", "queries", "truth", "first", "compute", "append",
               "record", "publish", "describe", "clear", "prepared"}
  <2> USE DEF Goto, Leave
  <2>1. CASE PrepareStep
    BY <2>1 DEF PrepareStep, CacheCorpus, CacheQueries, CacheRefused, Refuse, Reuse,
       Recover, Resume, Create, Checkpoint, Compute, AppendBlock, MarkReady, Publish,
       Describe, Clear
  <2>2. CASE Prepared \/ Discard \/ Kill \/ \E s \in Settings : Prepare(s)
    BY <2>2 DEF Prepared, Discard, Kill, Prepare
  <2>. QED  BY <1>1, <2>1, <2>2
<1>4. UNCHANGED benchmark /\ (UNCHANGED memory \/ (stage' = 0 /\ observed' = None))
  <2>1. CASE Killed
    BY <2>1 DEF Killed, benchmark
  <2>2. CASE UNCHANGED <<benchmark, memory>>
    BY <2>2 DEF benchmark, memory
  <2>. QED  BY <2>1, <2>2
<1>5. TypeOK'
  BY <1>2, <1>3, <1>4, Plan DEF OrchestrationInv, TypeOK, benchmark, memory
<1>. QED
  BY <1>2, <1>3, <1>4, <1>5, BenchmarkStays DEF OrchestrationInv, Staging

\* A process that is told what to do, or ends.
LEMMA OutsideStages ==
  ASSUME OrchestrationInv,
         \/ (\E s \in Settings : Orchestrate(s)) \/ Continue
         \/ ValidateRefused \/ StageRefused
  PROVE  OrchestrationInv'
<1> USE DEF Goto, To, Leave, Quit
<1>1. /\ pc' \in {"idle", "validate"} /\ UNCHANGED <<caches, job, faults, benchmark>>
      /\ pc' = "idle" \/ setting' \in Settings
      /\ setting' \in Settings \cup {None} /\ computed' \in {computed, None}
      /\ UNCHANGED memory \/ (stage' = 0 /\ observed' = None)
  <2>1. CASE \E s \in Settings : Orchestrate(s)
    BY <2>1 DEF Orchestrate, caches, job, benchmark, memory
  <2>2. CASE Continue
    BY <2>2 DEF Continue, caches, job, benchmark, memory, OrchestrationInv, TruthInv, Bound
  <2>3. CASE ValidateRefused \/ StageRefused
    BY <2>3 DEF ValidateRefused, StageRefused, caches, job, benchmark, memory
  <2>. QED  BY <2>1, <2>2, <2>3
<1>2. PreparationTypeOK' /\ TruthInv'
  BY <1>1, TruthStays DEF OrchestrationInv, TypeOK, PreparationTypeOK, Staging
<1>3. TypeOK'
  BY <1>1, <1>2, Plan DEF OrchestrationInv, TypeOK, benchmark, memory
<1>. QED
  BY <1>1, <1>2, <1>3, BenchmarkStays DEF OrchestrationInv, Staging

\* The manifest is begun from the truth whose sidecar names the caches.
LEMMA ValidateKeeps ==
  ASSUME OrchestrationInv, Validate
  PROVE  OrchestrationInv'
<1> USE DEF OrchestrationInv
<1>1. /\ pc = "validate" /\ pc' = "enter" /\ stage' = 1
      /\ UNCHANGED <<caches, job, setting, computed, faults, index, builds, states,
                     observed>>
      /\ setting \in Settings /\ corpusCache = setting.model
      /\ manifest' = [status |-> "running", shared |-> Current, truth |-> truth]
      /\ Current' = Current
  BY DEF Validate, SharedValid, To, Goto, TruthInv, Bound, caches, Current
<1>2. Current \in Inputs
  BY <1>1, CurrentInputs
<1>3. truth = Exact(Current)
  <2>1. truthMeta \in Sidecar /\ truth = Exact(truthMeta.inputs)
    BY DEF Validate, SharedValid, TypeOK, PreparationTypeOK, TruthInv, Described
  <2>2. truthMeta.inputs \in Inputs /\ truth.inputs = truthMeta.inputs
    BY <2>1 DEF Sidecar, Exact
  <2>3. truth.inputs.corpus = corpusCache /\ truth.inputs.k = setting.k
    BY <2>2 DEF Validate, SharedValid
  <2>. QED  BY <2>1, <2>2, <2>3, SameInputs
<1>4. PreparationTypeOK' /\ TruthInv'
  BY <1>1, TruthStays DEF TypeOK, PreparationTypeOK, Staging, caches
<1>5. /\ manifest' \in Manifest /\ manifest'.status = "running"
      /\ manifest'.shared = Current /\ manifest'.truth.blocks = Whole(Current)
  BY <1>1, <1>2, <1>3, ExactIsFile DEF Manifest, Exact
<1>6. TypeOK'
  BY <1>1, <1>4, <1>5, Plan DEF TypeOK
<1>7. ManifestHonest' /\ MeasuredAgainstExact'
  BY <1>5, <1>6 DEF ManifestHonest, MeasuredAgainstExact
<1>8. Counted' /\ AtStage'
  BY <1>1 DEF Counted, AtStage
<1>9. Behind'
  BY <1>1, <1>5, Plan DEF Behind
<1>10. OneBuild'
  BY <1>1 DEF OneBuild, Unguarded, Measures, Complete
<1>. QED  BY <1>4, <1>6, <1>7, <1>8, <1>9, <1>10

\* What a process that measures a stage knows.
LEMMA StageFacts ==
  ASSUME OrchestrationInv, pc \in Staging
  PROVE  /\ setting \in Settings /\ corpusCache = setting.model
         /\ stage \in 1 .. Len(Stages) /\ Name = Stages[stage]
         /\ Current \in Inputs /\ Name \in Range(Stages) /\ State \in StageFile
         /\ states[Name] # None => State = states[Name]
         /\ states[Name] = None => State.done = << >> /\ State.status = "running"
                                   /\ State.inputs = Current
         /\ Len(State.done) <= Wanted[Name]
<1>1. stage \in DOMAIN Stages
  BY DEF OrchestrationInv, Behind
<1>2. Name \in Range(Stages)
  BY <1>1, AtName DEF OrchestrationInv
<1>3. Len(State.done) <= Wanted[Name]
  BY <1>1, <1>2, AtName, Plan DEF OrchestrationInv, TypeOK
<1>. QED  BY <1>1, <1>3, AtName, Plan DEF OrchestrationInv, Name

\* A step of the stages leaves what the preparation keeps.
LEMMA StagingStays ==
  ASSUME OrchestrationInv, pc \in Staging, UNCHANGED <<caches, job>>,
         \/ pc' \in Staging /\ setting' = setting
         \/ pc' = "idle" /\ setting' = None,
         computed' \in {computed, None}, faults' \in 0 .. Faults
  PROVE  PreparationTypeOK' /\ TruthInv' /\ (pc' \in Staging => Current' = Current)
<1>1. setting \in Settings /\ corpusCache = setting.model
  BY StageFacts
<1>2. PreparationTypeOK' /\ TruthInv'
  BY <1>1, TruthStays DEF OrchestrationInv, TypeOK, caches, Staging
<1>. QED  BY <1>2 DEF Current, caches, Staging

\* A complete stage is passed when it measured the index that is there.
LEMMA EnterKeeps ==
  ASSUME OrchestrationInv, EnterStage
  PROVE  OrchestrationInv'
<1>1. /\ pc = "enter" /\ State.inputs = Current
      /\ State.status = "complete" => Last(State.done) = index
      /\ UNCHANGED <<caches, job, setting, computed, faults, index, builds, states,
                     manifest, observed>>
      /\ \/ State.status # "complete" /\ pc' = "run" /\ stage' = stage
         \/ /\ State.status = "complete"
            /\ \/ stage < Len(Stages) /\ pc' = "enter" /\ stage' = stage + 1
               \/ stage >= Len(Stages) /\ pc' = "finish" /\ stage' = stage
  BY StageFacts DEF EnterStage, Foreign, Stale, To, Goto, benchmark, Staging
<1>2. /\ PreparationTypeOK' /\ TruthInv' /\ Current' = Current
      /\ pc' \in {"run", "enter", "finish"}
  BY <1>1, StagingStays DEF OrchestrationInv, TypeOK, PreparationTypeOK, Staging
<1>3. /\ stage \in 1 .. Len(Stages) /\ Name = Stages[stage] /\ Name \in Range(Stages)
      /\ stage' \in 1 .. Len(Stages)
  BY <1>1, StageFacts, Plan DEF Staging
<1>4. TypeOK'
  BY <1>1, <1>2, <1>3 DEF OrchestrationInv, TypeOK
<1>5. State.status = "complete" =>
        Complete(Name) /\ Measures(Name) /\ states[Name].inputs = Current
  <2> SUFFICES ASSUME State.status = "complete"
               PROVE  Complete(Name) /\ Measures(Name) /\ states[Name].inputs = Current
    OBVIOUS
  <2>1. states[Name] # None /\ State = states[Name]
    BY <1>1, StageFacts DEF Staging
  <2>2. Len(states[Name].done) = Wanted[Name] /\ Wanted[Name] \in Nat \ {0}
    BY <1>3, <2>1, Plan DEF OrchestrationInv, Counted
  <2>3. states[Name].done # << >>
    BY <2>2
  <2>. QED  BY <1>1, <2>1, <2>3 DEF Complete, Measures
<1>6. ManifestHonest' /\ MeasuredAgainstExact' /\ Counted'
  BY <1>1, <1>4 DEF OrchestrationInv, ManifestHonest, MeasuredAgainstExact, Counted
<1>7. \A i \in DOMAIN Stages : i < stage \/ (i = stage /\ State.status = "complete") =>
        Complete(Stages[i]) /\ states[Stages[i]].inputs = Current
  BY <1>1, <1>3, <1>5 DEF OrchestrationInv, Behind, Staging
<1>8. Behind'
  BY <1>1, <1>2, <1>3, <1>7, Plan DEF OrchestrationInv, Behind, Staging, Complete
<1>9. AtStage'
  <2>1. pc' = "run" => State' = State
    BY <1>1, <1>2 DEF State, Name
  <2>. QED  BY <1>1, <1>2, <2>1 DEF AtStage
<1>10. OneBuild'
  <2>1. Stages[1] \in Builds /\ stage' > 1 => Measures(Stages[1])
    BY <1>1, <1>3, <1>5 DEF OrchestrationInv, OneBuild, Staging
  <2>. QED
    BY <1>1, <2>1 DEF OrchestrationInv, OneBuild, Unguarded, Measures, Complete, Staging
<1>. QED  BY <1>2, <1>4, <1>6, <1>8, <1>9, <1>10 DEF OrchestrationInv

\* Only the build writes the index, and it is the stage that runs.
LEMMA CommandKeeps ==
  ASSUME OrchestrationInv, BuildCommand \/ ReadCommand
  PROVE  OrchestrationInv'
<1>1. /\ pc = "run" /\ pc' = "observed" /\ Remaining
      /\ UNCHANGED <<caches, job, setting, computed, states, manifest, stage>>
  BY DEF BuildCommand, ReadCommand, To, Goto, benchmark
<1>2. /\ faults \in 0 .. Faults /\ faults' \in 0 .. Faults
      /\ index \in Nat \cup {None} /\ builds \in Nat
  BY TruthAssumption DEF BuildCommand, ReadCommand, To, Goto, OrchestrationInv, TypeOK,
     PreparationTypeOK
<1>3. /\ observed' \in Observation /\ index' \in Nat \cup {None} /\ builds' \in Nat
      /\ observed'.ok => observed'.artifacts = index' /\ index' # None
  <2>1. CASE BuildCommand
    <3>1. builds + 1 \in Nat /\ builds + 1 # None
      BY <1>2, PlanAssumption
    <3>2. \/ /\ index' = builds + 1 /\ builds' = builds + 1
             /\ observed' = [ok |-> TRUE, artifacts |-> builds + 1]
          \/ /\ index' \in {builds + 1, index} /\ builds' \in {builds + 1, builds}
             /\ observed' = [ok |-> FALSE, artifacts |-> index']
      BY <2>1 DEF BuildCommand
    <3>3. index' \in Nat \cup {None} /\ builds' \in Nat
      BY <1>2, <3>1, <3>2
    <3>4. CASE observed' = [ok |-> TRUE, artifacts |-> builds + 1] /\ index' = builds + 1
      BY <3>1, <3>3, <3>4 DEF Observation
    <3>5. CASE observed' = [ok |-> FALSE, artifacts |-> index']
      BY <3>3, <3>5 DEF Observation
    <3>. QED  BY <3>2, <3>3, <3>4, <3>5
  <2>2. CASE ReadCommand
    BY <1>2, <2>2 DEF ReadCommand, benchmark, Observation
  <2>. QED  BY <2>1, <2>2
<1>4. PreparationTypeOK' /\ TruthInv' /\ Current' = Current
  BY <1>1, <1>2, StagingStays DEF Staging
<1>5. TypeOK'
  BY <1>1, <1>3, <1>4 DEF OrchestrationInv, TypeOK
<1>6. ManifestHonest' /\ MeasuredAgainstExact' /\ Counted'
  BY <1>1, <1>5 DEF OrchestrationInv, ManifestHonest, MeasuredAgainstExact, Counted
<1>7. Behind'
  BY <1>1, <1>4 DEF OrchestrationInv, Behind, Staging, Complete
<1>8. AtStage'
  <2>1. State' = State /\ Name' = Name
    BY <1>1, <1>4 DEF State, Name
  <2>. QED
    BY <1>1, <1>3, <1>4, <2>1 DEF OrchestrationInv, AtStage, Remaining
<1>9. OneBuild'
  <2>1. CASE BuildCommand
    <3>1. Name \in Builds /\ Name = Stages[stage] /\ stage \in 1 .. Len(Stages)
      BY <1>1, <2>1, StageFacts DEF BuildCommand, Staging
    <3>2. stage = 1
      BY <3>1, Plan, PlanAssumption
    <3>3. ~Unguarded(Stages[1])
      BY <1>1, <3>1, <3>2, StageFacts, Plan DEF Unguarded, Remaining, Staging
    <3>. QED
      BY <1>1, <3>2, <3>3 DEF OrchestrationInv, OneBuild, Unguarded, Complete
  <2>2. CASE ReadCommand
    BY <1>1, <2>2 DEF ReadCommand, benchmark, OrchestrationInv, OneBuild, Unguarded,
       Measures, Complete, Staging
  <2>. QED  BY <2>1, <2>2
<1>. QED  BY <1>4, <1>5, <1>6, <1>7, <1>8, <1>9 DEF OrchestrationInv

\* The state file of the stage that runs is replaced.
LEMMA StageWritten ==
  ASSUME OrchestrationInv, pc \in Staging,
         NEW new \in StageFile, Len(new.done) <= Wanted[Name],
         states' = [states EXCEPT ![Name] = new]
  PROVE  /\ states' \in [Range(Stages) -> StageFile \cup {None}]
         /\ states'[Name] = new /\ states'[Name] # None
         /\ \A st \in Range(Stages) : st # Name => states'[st] = states[st]
         /\ \A st \in Range(Stages) : states'[st] # None =>
              Len(states'[st].done) <= Wanted[st]
BY StageFacts, PlanAssumption DEF OrchestrationInv, TypeOK

\* While a stage runs that is not complete, every complete one before it stays.
LEMMA Earlier ==
  ASSUME OrchestrationInv, pc \in {"run", "observed"}
  PROVE  /\ \A st \in Range(Stages) : Complete(st) => st # Name
         /\ State.inputs = Current /\ State.status # "complete"
         /\ manifest \in Manifest /\ manifest.status = "running"
BY StageFacts DEF OrchestrationInv, AtStage, Behind, Complete, Staging

\* An observation of the index is appended; a stage that reads finds the build
\* complete before it.
LEMMA RecordKeeps ==
  ASSUME OrchestrationInv, Record
  PROVE  OrchestrationInv'
<1> DEFINE done == Append(State.done, observed.artifacts)
           new == [State EXCEPT !.done = done, !.status = "running"]
<1>1. /\ pc = "observed" /\ pc' = "run" /\ observed.ok /\ observed' = None
      /\ states' = [states EXCEPT ![Name] = new]
      /\ UNCHANGED <<caches, job, setting, computed, faults, index, builds, manifest,
                     stage>>
  BY DEF Record, To, Goto
<1>2. /\ observed.artifacts = index /\ index \in Nat /\ index # None /\ Remaining
  BY <1>1, PlanAssumption DEF OrchestrationInv, AtStage, TypeOK
<1>3. /\ PreparationTypeOK' /\ TruthInv' /\ Current' = Current
  BY <1>1, StagingStays DEF OrchestrationInv, TypeOK, PreparationTypeOK, Staging
<1>4. /\ stage \in 1 .. Len(Stages) /\ Name = Stages[stage] /\ Name \in Range(Stages)
      /\ State \in StageFile /\ Name' = Name
  BY <1>1, StageFacts DEF Staging, Name
<1>5. /\ State.done \in Seq(Nat) /\ done \in Seq(Nat)
      /\ Len(done) = Len(State.done) + 1 /\ done # << >> /\ Last(done) = index
      /\ \A n \in DOMAIN done : n \in DOMAIN State.done \/ n = Len(done)
      /\ \A n \in DOMAIN State.done : done[n] = State.done[n]
  <2>1. State.done \in Seq(Nat) /\ observed.artifacts \in Nat
    BY <1>2, <1>4 DEF StageFile
  <2>2. /\ done \in Seq(Nat) /\ Len(done) = Len(State.done) + 1
        /\ \A n \in 1 .. Len(State.done) + 1 :
             done[n] = IF n <= Len(State.done) THEN State.done[n] ELSE index
    BY <1>2, <2>1
  <2> HIDE DEF done
  <2>3. Len(State.done) \in Nat /\ DOMAIN State.done = 1 .. Len(State.done)
    BY <2>1
  <2>4. DOMAIN done = 1 .. Len(State.done) + 1
    BY <2>2
  <2>. QED  BY <2>1, <2>2, <2>3, <2>4 DEF Last
<1>6. Len(done) <= Wanted[Name]
  <2>1. Wanted[Name] \in Nat /\ Len(State.done) \in Nat /\ Len(State.done) < Wanted[Name]
    BY <1>2, <1>4, <1>5, Plan DEF Remaining
  <2>. QED  BY <1>5, <2>1
<1>7. /\ new \in StageFile /\ new.done = done /\ new.status = "running"
      /\ new.inputs = Current
  BY <1>1, <1>4, <1>5, Earlier DEF StageFile
<1> HIDE DEF done, new
<1>8. /\ states' \in [Range(Stages) -> StageFile \cup {None}]
      /\ states'[Name] = new /\ states'[Name] # None
      /\ \A st \in Range(Stages) : st # Name => states'[st] = states[st]
      /\ \A st \in Range(Stages) : states'[st] # None => Len(states'[st].done) <= Wanted[st]
  BY <1>1, <1>6, <1>7, StageWritten DEF Staging
<1>9. TypeOK'
  BY <1>1, <1>3, <1>8 DEF OrchestrationInv, TypeOK
<1>10. ManifestHonest' /\ MeasuredAgainstExact'
  BY <1>1, <1>9, Earlier DEF OrchestrationInv, ManifestHonest, MeasuredAgainstExact
<1>11. Counted'
  BY <1>7, <1>8 DEF OrchestrationInv, Counted
<1>12. \A st \in Range(Stages) : Complete(st) => st # Name /\ Complete(st)'
  BY <1>1, <1>8, Earlier DEF Complete
<1>13. Behind'
  BY <1>1, <1>3, <1>8, <1>12, Plan DEF OrchestrationInv, Behind, Staging, Complete
<1>14. AtStage'
  <2>1. State' = new
    BY <1>4, <1>8 DEF State
  <2>. QED  BY <1>1, <1>3, <1>7, <2>1 DEF AtStage
<1>15. OneBuild'
  <2> SUFFICES ASSUME Stages[1] \in Builds PROVE OneBuild'
    BY DEF OneBuild
  <2>0. Stages[1] \in Range(Stages)
    BY Plan
  <2>1. CASE Name \in Builds
    <3>1. Name = Stages[1] /\ stage = 1
      BY <1>4, <2>1, Plan, PlanAssumption
    <3>2. Measures(Stages[1])'
      BY <1>1, <1>5, <1>7, <1>8, <3>1 DEF Measures
    <3>3. ~Complete(Stages[1])
      BY <1>12, <2>0, <3>1
    <3>4. \A st \in Range(Stages) \ Builds :
            states[st] # None => states[st].done = << >> /\ states'[st] = states[st]
      BY <1>8, <2>1, <3>3 DEF OrchestrationInv, OneBuild
    <3>5. \A st \in Range(Stages) \ Builds :
            states'[st] # None => states'[st].done = << >>
      BY <1>8, <2>1, <3>4
    <3>. QED  BY <3>2, <3>5 DEF OneBuild
  <2>2. CASE Name \notin Builds
    <3>1. stage > 1 /\ Stages[1] # Name
      BY <1>4, <2>2
    <3>2. Complete(Stages[1]) /\ Measures(Stages[1])
      BY <1>1, <3>1, Plan DEF OrchestrationInv, Behind, OneBuild, Staging
    <3>3. /\ states'[Stages[1]] = states[Stages[1]] /\ Complete(Stages[1])'
          /\ Measures(Stages[1])' /\ index = Last(states'[Stages[1]].done)
      BY <1>1, <1>8, <1>12, <2>0, <3>1, <3>2 DEF Measures
    <3>4. \A n \in DOMAIN State.done : State.done[n] = Last(states'[Stages[1]].done)
      BY <1>1, <1>4, <2>2, <3>3, StageFacts DEF OrchestrationInv, OneBuild, Staging
    <3>5. \A n \in DOMAIN done : done[n] = Last(states'[Stages[1]].done)
      BY <1>5, <3>3, <3>4 DEF Last
    <3>6. ASSUME NEW st \in Range(Stages) \ Builds, states'[st] # None,
                 NEW n \in DOMAIN states'[st].done
          PROVE  states'[st].done[n] = Last(states'[Stages[1]].done)
      <4>1. CASE st = Name
        BY <1>7, <1>8, <3>5, <3>6, <4>1
      <4>2. CASE st # Name
        BY <1>8, <3>3, <3>6, <4>2 DEF OrchestrationInv, OneBuild
      <4>. QED  BY <4>1, <4>2
    <3>. QED  BY <3>3, <3>6 DEF OneBuild
  <2>. QED  BY <2>1, <2>2
<1>. QED  BY <1>3, <1>9, <1>10, <1>11, <1>13, <1>14, <1>15 DEF OrchestrationInv

\* Only the status of the stage changes, or a failed attempt is added to it: what it
\* has measured stays.
LEMMA MarkKeeps ==
  ASSUME OrchestrationInv, RecordFailure \/ CompleteStage
  PROVE  OrchestrationInv'
<1> DEFINE new == IF RecordFailure
                    THEN [State EXCEPT !.failed = @ + 1, !.status = "failed"]
                    ELSE [State EXCEPT !.status = "complete"]
<1>1. /\ pc \in {"run", "observed"} /\ states' = [states EXCEPT ![Name] = new]
      /\ UNCHANGED <<caches, job, faults, index, builds, manifest>>
  BY DEF RecordFailure, CompleteStage, To, Goto, Quit, Leave
<1>2. \/ /\ RecordFailure /\ Remaining
         /\ pc' = "idle" /\ setting' = None /\ computed' = None
         /\ stage' = 0 /\ observed' = None
      \/ /\ ~RecordFailure /\ ~Remaining
         /\ UNCHANGED <<setting, computed, observed>>
         /\ \/ stage < Len(Stages) /\ stage' = stage + 1 /\ pc' = "enter"
            \/ stage >= Len(Stages) /\ stage' = stage /\ pc' = "finish"
  <2>1. CASE RecordFailure
    BY <2>1 DEF RecordFailure, Quit, Leave, OrchestrationInv, AtStage
  <2>2. CASE ~RecordFailure
    BY <2>2, <1>1, StageFacts, Plan DEF CompleteStage, To, Goto, Staging
  <2>. QED  BY <2>1, <2>2
<1>3. /\ stage \in 1 .. Len(Stages) /\ Name = Stages[stage] /\ Name \in Range(Stages)
      /\ State \in StageFile /\ Wanted[Name] \in Nat \ {0}
      /\ Len(State.done) \in Nat /\ Len(State.done) <= Wanted[Name]
      /\ states[Name] # None => State = states[Name]
      /\ states[Name] = None => State.done = << >>
      /\ Current \in Inputs /\ State.inputs = Current
  BY <1>1, StageFacts, Plan, Earlier DEF Staging, StageFile
<1>4. /\ PreparationTypeOK' /\ TruthInv' /\ (pc' # "idle" => Current' = Current)
  BY <1>1, <1>2, StagingStays DEF OrchestrationInv, TypeOK, PreparationTypeOK, Staging
<1>5. /\ new \in StageFile /\ new.done = State.done /\ new.inputs = Current
      /\ RecordFailure => new.status = "failed"
      /\ ~RecordFailure => new.status = "complete"
  <2>1. /\ State.failed + 1 \in Nat
        /\ State = [inputs |-> State.inputs, done |-> State.done,
                    failed |-> State.failed, status |-> State.status]
    BY <1>3 DEF StageFile
  <2>2. CASE RecordFailure
    <3>1. new = [State EXCEPT !.failed = @ + 1, !.status = "failed"]
      BY <2>2
    <3>. QED  BY <1>3, <2>1, <2>2, <3>1 DEF StageFile
  <2>3. CASE ~RecordFailure
    <3>1. new = [State EXCEPT !.status = "complete"]
      BY <2>3
    <3>. QED  BY <1>3, <2>1, <2>3, <3>1 DEF StageFile
  <2>. QED  BY <2>2, <2>3
<1> HIDE DEF new
<1>6. /\ states' \in [Range(Stages) -> StageFile \cup {None}]
      /\ states'[Name] = new /\ states'[Name] # None
      /\ \A st \in Range(Stages) : st # Name => states'[st] = states[st]
      /\ \A st \in Range(Stages) : states'[st] # None => Len(states'[st].done) <= Wanted[st]
  BY <1>1, <1>3, <1>5, StageWritten DEF Staging
<1>7. stage' \in 0 .. Len(Stages) /\ (pc' # "idle" => stage' \in DOMAIN Stages)
  BY <1>2, <1>3, Plan
<1>8. TypeOK'
  BY <1>1, <1>2, <1>4, <1>6, <1>7 DEF OrchestrationInv, TypeOK
<1>9. ManifestHonest' /\ MeasuredAgainstExact'
  BY <1>1, <1>8, Earlier DEF OrchestrationInv, ManifestHonest, MeasuredAgainstExact
<1>10. /\ RecordFailure => Len(new.done) < Wanted[Name]
       /\ ~RecordFailure => Len(new.done) = Wanted[Name]
  BY <1>2, <1>3, <1>5 DEF Remaining
<1>11. Counted'
  BY <1>5, <1>6, <1>10 DEF OrchestrationInv, Counted
<1>12. \A st \in Range(Stages) : Complete(st) => st # Name /\ Complete(st)'
  BY <1>1, <1>6, Earlier DEF Complete
<1>13. Behind' /\ AtStage'
  <2>1. CASE RecordFailure
    BY <1>2, <2>1 DEF Behind, AtStage, Staging
  <2>2. CASE ~RecordFailure
    <3>1. /\ manifest \in Manifest /\ manifest.status = "running"
          /\ manifest.shared = Current
          /\ \A i \in DOMAIN Stages : i < stage =>
               Complete(Stages[i]) /\ states[Stages[i]].inputs = Current
      BY <1>1 DEF OrchestrationInv, Behind, Staging
    <3>2. /\ states'[Name] # None /\ states'[Name].status = "complete"
          /\ states'[Name].inputs = Current
      BY <1>5, <1>6, <2>2
    <3>3. \A i \in DOMAIN Stages : i < stage =>
            Complete(Stages[i])' /\ states'[Stages[i]].inputs = Current
      BY <1>6, <1>12, <3>1, Plan
    <3>4. \A i \in DOMAIN Stages : i < stage' \/ pc' = "finish" =>
            i < stage \/ i = stage
      BY <1>2, <1>3, <2>2, Plan
    <3>5. \A i \in DOMAIN Stages : i < stage' \/ pc' = "finish" =>
            Complete(Stages[i])' /\ states'[Stages[i]].inputs = Current
      BY <1>3, <1>6, <3>2, <3>3, <3>4 DEF Complete
    <3>. QED
      BY <1>1, <1>2, <1>4, <1>7, <2>2, <3>1, <3>5 DEF Behind, AtStage
  <2>. QED  BY <2>1, <2>2
<1>14. OneBuild'
  <2> SUFFICES ASSUME Stages[1] \in Builds PROVE OneBuild'
    BY DEF OneBuild
  <2>0. Stages[1] \in Range(Stages)
    BY Plan
  <2>1. \A st \in Range(Stages) :
          /\ states[st] # None => states'[st] # None /\ states'[st].done = states[st].done
          /\ states[st] = None => states'[st] = None \/ states'[st].done = << >>
    BY <1>3, <1>5, <1>6
  \* Before it is marked complete the build has measured the index that is there.
  <2>2. Name = Stages[1] /\ ~RecordFailure => Measures(Stages[1])
    <3> SUFFICES ASSUME Name = Stages[1], ~RecordFailure PROVE Measures(Stages[1])
      OBVIOUS
    <3>1. states[Name] # None /\ Len(states[Name].done) = Wanted[Name]
      <4>1. Len(State.done) = Wanted[Name] /\ State.done # << >>
        BY <1>3, <1>5, <1>10
      <4>. QED  BY <1>3, <4>1
    <3>2. states[Name].status = "running"
      <4>1. states[Name].status \in {"running", "failed", "complete"}
        BY <1>3, <3>1 DEF StageFile
      <4>2. states[Name].status # "complete"
        BY <1>1, <1>3, <3>1, Earlier
      <4>3. states[Name].status # "failed"
        BY <1>3, <3>1 DEF OrchestrationInv, Counted
      <4>. QED  BY <4>1, <4>2, <4>3
    <3>. QED  BY <3>1, <3>2 DEF OrchestrationInv, OneBuild, Unguarded
  <2>3. Measures(Stages[1]) => Measures(Stages[1])'
    BY <1>1, <2>0, <2>1 DEF Measures
  <2>4. pc' \in Staging /\ stage' > 1 => Measures(Stages[1])
    <3> SUFFICES ASSUME pc' \in Staging, stage' > 1 PROVE Measures(Stages[1])
      OBVIOUS
    <3>1. ~RecordFailure
      BY <1>2 DEF Staging
    <3>2. CASE stage = 1
      BY <1>3, <2>2, <3>1, <3>2
    <3>3. CASE stage # 1
      BY <1>1, <1>3, <3>3 DEF OrchestrationInv, OneBuild, Staging
    <3>. QED  BY <3>2, <3>3
  <2>5. Unguarded(Stages[1])' => Unguarded(Stages[1])
    <3>1. Stages[1] = Name => ~Unguarded(Stages[1])'
      BY <1>5, <1>6 DEF Unguarded
    <3>2. Stages[1] # Name => states'[Stages[1]] = states[Stages[1]]
      BY <1>6, <2>0
    <3>. QED  BY <3>1, <3>2 DEF Unguarded
  <2>6. ASSUME NEW st \in Range(Stages) \ Builds, states'[st] # None,
               states'[st].done # << >>
        PROVE  /\ Complete(Stages[1])'
               /\ \A n \in DOMAIN states'[st].done :
                    states'[st].done[n] = Last(states'[Stages[1]].done)
    <3>1. states[st] # None /\ states'[st].done = states[st].done
      BY <2>1, <2>6
    <3>2. Complete(Stages[1]) /\ \A n \in DOMAIN states[st].done :
            states[st].done[n] = Last(states[Stages[1]].done)
      BY <2>6, <3>1 DEF OrchestrationInv, OneBuild
    <3>3. Complete(Stages[1])' /\ states'[Stages[1]].done = states[Stages[1]].done
      BY <1>12, <2>0, <2>1, <3>2 DEF Complete
    <3>. QED  BY <3>1, <3>2, <3>3
  <2>7. Unguarded(Stages[1]) => Measures(Stages[1])
    BY DEF OrchestrationInv, OneBuild
  <2>. QED  BY <2>3, <2>4, <2>5, <2>6, <2>7 DEF OneBuild
<1>. QED  BY <1>4, <1>8, <1>9, <1>11, <1>13, <1>14 DEF OrchestrationInv

LEMMA FinishKeeps ==
  ASSUME OrchestrationInv, Finish
  PROVE  OrchestrationInv'
<1>1. /\ pc = "finish" /\ pc' = "idle" /\ setting' = None /\ computed' = None
      /\ stage' = 0 /\ observed' = None
      /\ manifest' = [manifest EXCEPT !.status = "complete"]
      /\ UNCHANGED <<caches, job, faults, index, builds, states>>
  BY DEF Finish, Quit, Leave
<1>2. PreparationTypeOK' /\ TruthInv'
  BY <1>1, StagingStays DEF OrchestrationInv, TypeOK, PreparationTypeOK, Staging
<1>3. /\ manifest \in Manifest /\ manifest.shared = Current
      /\ \A st \in Range(Stages) : Complete(st) /\ states[st].inputs = Current
  BY <1>1 DEF OrchestrationInv, Behind, Staging, Range
<1>4. /\ manifest' \in Manifest /\ manifest'.shared = Current
      /\ manifest'.truth = manifest.truth
  BY <1>1, <1>3 DEF Manifest
<1>5. TypeOK'
  BY <1>1, <1>2, <1>4, Plan DEF OrchestrationInv, TypeOK
<1>6. ManifestHonest'
  BY <1>1, <1>3, <1>4, <1>5 DEF OrchestrationInv, Counted, Complete, ManifestHonest
<1>7. MeasuredAgainstExact'
  BY <1>3, <1>4, PlanAssumption DEF OrchestrationInv, MeasuredAgainstExact
<1>8. Counted' /\ Behind' /\ AtStage'
  BY <1>1 DEF OrchestrationInv, Counted, Behind, AtStage, Staging
<1>9. OneBuild'
  BY <1>1 DEF OrchestrationInv, OneBuild, Unguarded, Measures, Complete, Staging
<1>. QED  BY <1>2, <1>5, <1>6, <1>7, <1>8, <1>9 DEF OrchestrationInv

\* The operator replaces no index that has been measured last and not yet compared.
LEMMA DisturbKeeps ==
  ASSUME OrchestrationInv, Disturb
  PROVE  OrchestrationInv'
<1>1. /\ pc = "idle" /\ ~Unguarded(Stages[1])
      /\ UNCHANGED <<caches, job, pc, setting, computed, states, manifest, stage, observed>>
      /\ faults' \in 0 .. Faults
  BY Plan, TruthAssumption DEF Disturb, memory, OrchestrationInv, TypeOK,
     PreparationTypeOK
<1>2. index' \in Nat \cup {None} /\ builds' \in Nat
  <2>1. builds \in Nat
    BY DEF OrchestrationInv, TypeOK
  <2>2. builds + 1 \in Nat /\ 1 .. builds \subseteq Nat
    BY <2>1
  <2>3. \/ index' = builds + 1 /\ builds' = builds + 1
        \/ index' \in {None} \cup (1 .. builds) /\ builds' = builds
    BY DEF Disturb
  <2>. QED  BY <2>1, <2>2, <2>3
<1>3. PreparationTypeOK' /\ TruthInv'
  <2>1. PreparationTypeOK /\ TruthInv /\ setting \in Settings \cup {None}
    BY DEF OrchestrationInv, TypeOK, PreparationTypeOK
  <2>. QED  BY <1>1, <2>1, TruthStays DEF Staging
<1>4. TypeOK'
  BY <1>1, <1>2, <1>3 DEF OrchestrationInv, TypeOK
<1>5. ManifestHonest' /\ MeasuredAgainstExact' /\ Counted' /\ Behind' /\ AtStage'
  BY <1>1, <1>4 DEF OrchestrationInv, ManifestHonest, MeasuredAgainstExact, Counted,
     Behind, AtStage, Staging
<1>6. OneBuild'
  BY <1>1 DEF OrchestrationInv, OneBuild, Unguarded, Complete, Staging
<1>. QED  BY <1>3, <1>4, <1>5, <1>6 DEF OrchestrationInv

LEMMA Inductive ==
  OrchestrationInv /\ [Next]_allVars => OrchestrationInv'
<1> SUFFICES ASSUME OrchestrationInv, [Next]_allVars PROVE OrchestrationInv'
  OBVIOUS
<1>1. CASE (\E s \in Settings : Prepare(s)) /\ UNCHANGED <<benchmark, memory>>
  BY <1>1, PreparationStep
<1>2. CASE (PrepareStep \/ Prepared \/ Discard) /\ UNCHANGED <<benchmark, memory>>
  BY <1>2, PreparationStep
<1>3. CASE Killed
  BY <1>3, PreparationStep
<1>4. CASE (\E s \in Settings : Orchestrate(s)) \/ Continue \/ ValidateRefused
  BY <1>4, OutsideStages
<1>5. CASE Validate
  BY <1>5, ValidateKeeps
<1>6. CASE StageStep
  BY <1>6, OutsideStages, EnterKeeps, CommandKeeps, RecordKeeps, MarkKeeps DEF StageStep
<1>7. CASE Finish
  BY <1>7, FinishKeeps
<1>8. CASE Disturb
  BY <1>8, DisturbKeeps
<1>9. CASE UNCHANGED allVars
  <2>1. PreparationTypeOK' /\ TruthInv'
    BY <1>9 DEF OrchestrationInv, TypeOK, PreparationTypeOK, TruthInv, Bound, Growing,
       Resuming, Described, Current, allVars, preparation, caches, job
  <2>2. TypeOK'
    BY <1>9, <2>1 DEF OrchestrationInv, TypeOK, allVars, preparation, benchmark, memory
  <2>3. MeasuredAgainstExact' /\ Counted' /\ Behind' /\ OneBuild' /\ ManifestHonest'
    BY <1>9, <2>2 DEF OrchestrationInv, ManifestHonest, MeasuredAgainstExact, Counted,
       Behind, OneBuild, Unguarded, Measures, Complete, Current, allVars, preparation,
       benchmark, memory, caches
  <2>4. AtStage'
    BY <1>9 DEF OrchestrationInv, AtStage, Remaining, State, Name, Current, allVars,
       preparation, benchmark, memory, caches
  <2>. QED  BY <2>1, <2>2, <2>3, <2>4 DEF OrchestrationInv
<1>. QED
  BY <1>1, <1>2, <1>3, <1>4, <1>5, <1>6, <1>7, <1>8, <1>9 DEF Next

LEMMA Invariance == Spec => []OrchestrationInv
BY Starts, Inductive, PTL DEF Spec

-----------------------------------------------------------------------------
\* A manifest that says complete is of stages that are complete, each with every
\* observation the protocol asks for, all of the inputs it names (and the state is
\* well typed), however often run_repeated_stage was killed, refused or failed.
THEOREM ManifestHonestHolds == Spec => []ManifestHonest
<1>1. OrchestrationInv => ManifestHonest
  BY DEF OrchestrationInv
<1>. QED  BY Invariance, <1>1, PTL

\* All that a complete manifest reports was read from the index that the last build
\* wrote, for an operator who keeps to Disturb.
THEOREM OneIndexMeasuredHolds == Spec => []OneIndexMeasured
<1>1. ASSUME OrchestrationInv PROVE OneIndexMeasured
  <2> SUFFICES ASSUME NEW i \in DOMAIN Stages, NEW j \in DOMAIN Stages,
                      manifest # None, manifest.status = "complete",
                      Stages[i] \in Builds, Stages[j] \notin Builds,
                      NEW a \in Range(states[Stages[j]].done)
               PROVE  a = Last(states[Stages[i]].done)
    BY DEF OneIndexMeasured
  <2>1. i = 1 /\ Stages[j] \in Range(Stages)
    BY PlanAssumption, Plan
  <2>2. states[Stages[j]] # None /\ states[Stages[j]].done \in Seq(Nat)
    BY <1>1, <2>1 DEF OrchestrationInv, ManifestHonest, TypeOK, StageFile
  <2>3. PICK n \in DOMAIN states[Stages[j]].done : a = states[Stages[j]].done[n]
    BY DEF Range
  <2>4. states[Stages[j]].done # << >>
    BY <2>2, <2>3
  <2>. QED  BY <1>1, <2>1, <2>2, <2>3, <2>4 DEF OrchestrationInv, OneBuild
<1>. QED  BY Invariance, <1>1, PTL

\* Recall is measured against every list of exact neighbours, each once and in its
\* place, for the caches the manifest names.
THEOREM MeasuredAgainstExactHolds == Spec => []MeasuredAgainstExact
<1>1. OrchestrationInv => MeasuredAgainstExact
  BY DEF OrchestrationInv
<1>. QED  BY Invariance, <1>1, PTL

\* The record of one stage goes on from what it was.
Kept(st) ==
  states[st] # None =>
    /\ states'[st] # None
    /\ states'[st].inputs = states[st].inputs
    /\ IsPrefix(states[st].done, states'[st].done)
    /\ states'[st].failed >= states[st].failed

LEMMA PrefixOfAppended ==
  ASSUME NEW s \in Seq(Nat), NEW a \in Nat
  PROVE  IsPrefix(s, s) /\ IsPrefix(s, Append(s, a))
<1>1. Len(Append(s, a)) = Len(s) + 1 /\ Append(s, a) \in Seq(Nat)
  OBVIOUS
<1>2. \A n \in 1 .. Len(s) : Append(s, a)[n] = s[n]
  OBVIOUS
<1>3. SubSeq(s, 1, Len(s)) = SubSeq(Append(s, a), 1, Len(s))
  BY <1>1, <1>2
<1>. QED  BY <1>1, <1>3 DEF IsPrefix

LEMMA KeptWhenWritten ==
  ASSUME OrchestrationInv, pc \in Staging, NEW st \in Range(Stages),
         NEW new \in StageFile, states' = [states EXCEPT ![Name] = new],
         new.inputs = State.inputs, IsPrefix(State.done, new.done),
         new.failed >= State.failed
  PROVE  Kept(st)
<1>1. /\ Name \in Range(Stages) /\ (states[Name] # None => State = states[Name])
      /\ states \in [Range(Stages) -> StageFile \cup {None}] /\ new # None
  BY StageFacts, PlanAssumption DEF OrchestrationInv, TypeOK
<1>2. CASE st = Name
  BY <1>1, <1>2 DEF Kept
<1>3. CASE st # Name
  <2>1. states'[st] = states[st]
    BY <1>1, <1>3
  <2>2. states[st] # None => /\ states[st].failed \in Nat
                             /\ states[st].done \in Seq(Nat)
    BY <1>1 DEF StageFile
  <2>. QED  BY <2>1, <2>2, PrefixOfAppended DEF Kept
<1>. QED  BY <1>2, <1>3

\* No run drops or replaces an observation or a failed attempt: a rerun goes on from
\* what is recorded, whatever happened to the runs before it.
THEOREM EvidenceKeptHolds == Spec => EvidenceKept
<1>1. ASSUME OrchestrationInv, [Next]_allVars, NEW st \in Range(Stages)
      PROVE  Kept(st)
  <2>1. CASE UNCHANGED states
    <3>1. states[st] # None => states[st].failed \in Nat /\ states[st].done \in Seq(Nat)
      BY <1>1 DEF OrchestrationInv, TypeOK, StageFile
    <3>. QED  BY <2>1, <3>1, PrefixOfAppended DEF Kept
  <2>2. CASE Record
    <3>1. /\ pc \in Staging
          /\ states' = [states EXCEPT ![Name] =
                          [State EXCEPT !.done = Append(State.done, observed.artifacts),
                                        !.status = "running"]]
      BY <2>2 DEF Record, Staging
    <3>2. observed.artifacts \in Nat /\ State \in StageFile
      BY <1>1, <2>2, <3>1, StageFacts DEF Record, OrchestrationInv, AtStage, TypeOK
    <3>3. /\ State.done \in Seq(Nat) /\ State.failed \in Nat
          /\ Append(State.done, observed.artifacts) \in Seq(Nat)
      BY <3>2 DEF StageFile
    <3> DEFINE done == Append(State.done, observed.artifacts)
               new == [State EXCEPT !.done = done, !.status = "running"]
    <3>4. IsPrefix(State.done, done)
      BY <3>2, <3>3, PrefixOfAppended
    <3>5. states' = [states EXCEPT ![Name] = new]
      BY <3>1
    <3> HIDE DEF done
    <3>6. done \in Seq(Nat)
      BY <3>3 DEF done
    <3>7. /\ new \in StageFile /\ new.inputs = State.inputs /\ new.done = done
          /\ new.failed = State.failed /\ new.failed >= State.failed
      <4>1. /\ new \in StageFile /\ new.inputs = State.inputs /\ new.done = done
            /\ new.failed = State.failed
        BY <3>2, <3>6 DEF StageFile
      <4>. QED  BY <3>3, <4>1
    <3> HIDE DEF new
    <3>8. IsPrefix(State.done, new.done) /\ pc \in Staging
      BY <3>1, <3>4, <3>7
    <3>. QED
      BY <1>1, <3>5, <3>7, <3>8, KeptWhenWritten
  <2>3. CASE RecordFailure \/ CompleteStage
    <3>1. pc \in Staging /\ State \in StageFile
      BY <1>1, <2>3, StageFacts DEF RecordFailure, CompleteStage, Staging
    <3>2. State.done \in Seq(Nat) /\ State.failed \in Nat
      BY <3>1 DEF StageFile
    <3>3. IsPrefix(State.done, State.done)
      BY <3>2, PrefixOfAppended
    <3>4. CASE RecordFailure
      <4> DEFINE new == [State EXCEPT !.failed = @ + 1, !.status = "failed"]
      <4>1. states' = [states EXCEPT ![Name] = new]
        BY <3>4 DEF RecordFailure
      <4>2. State.failed + 1 \in Nat /\ State.failed + 1 >= State.failed
        BY <3>2
      <4>3. /\ new \in StageFile /\ new.inputs = State.inputs /\ new.done = State.done
            /\ new.failed = State.failed + 1
        BY <3>1, <4>2 DEF StageFile
      <4>. QED  BY <1>1, <3>1, <3>3, <4>1, <4>2, <4>3, KeptWhenWritten
    <3>5. CASE CompleteStage
      <4> DEFINE new == [State EXCEPT !.status = "complete"]
      <4>1. states' = [states EXCEPT ![Name] = new]
        BY <3>5 DEF CompleteStage
      <4>2. /\ new \in StageFile /\ new.inputs = State.inputs /\ new.done = State.done
            /\ new.failed >= State.failed
        BY <3>1, <3>2 DEF StageFile
      <4>. QED  BY <1>1, <3>1, <3>3, <4>1, <4>2, KeptWhenWritten
    <3>. QED  BY <2>3, <3>4, <3>5
  <2>. QED
    BY <1>1, <2>1, <2>2, <2>3 DEF Next, StageStep, Killed, Disturb, Finish, Validate,
       ValidateRefused, Continue, Orchestrate, EnterStage, StageRefused, BuildCommand,
       ReadCommand, benchmark, allVars
<1>2. ASSUME OrchestrationInv, [Next]_allVars
      PROVE  [\A st \in Range(Stages) : states[st] # None =>
                /\ states'[st] # None
                /\ states'[st].inputs = states[st].inputs
                /\ IsPrefix(states[st].done, states'[st].done)
                /\ states'[st].failed >= states[st].failed]_allVars
  BY <1>1, <1>2 DEF Kept
<1>. QED  BY Invariance, <1>2, PTL DEF Spec, EvidenceKept
=============================================================================
