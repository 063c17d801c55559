---------------------------- MODULE Orchestration ----------------------------
(***************************************************************************)
(* orchestrate and run_repeated_stage of                                    *)
(* scripts/run_large_scale_benchmark.py, after the preparation: the index   *)
(* is built, inspected and searched by commands of their own, each repeated *)
(* as often as the protocol says, and every observation is written to the   *)
(* state file of its stage before the next command starts.  A rerun keeps   *)
(* what was observed and goes on from there.                                *)
(*                                                                         *)
(* The built artifacts are abstracted to the number of the build that made  *)
(* them, an observation to the artifacts it snapshots.                      *)
(***************************************************************************)
EXTENDS GroundTruth

CONSTANTS
  Stages,   \* the planned stages, in order
  Builds,   \* those whose command writes the index
  Wanted    \* stage -> warmups and repetitions of its command

VARIABLES
  index,     \* the artifacts under the index prefix
  builds,    \* how many builds have written them
  states,    \* stage -> its state file
  manifest,
  stage,     \* position of the stage the process is in
  observed   \* the command that has ended and is not recorded

benchmark == <<index, builds, states, manifest>>
memory    == <<stage, observed>>
allVars   == <<preparation, benchmark, memory>>

Init ==
  /\ PrepareInit
  /\ index = None /\ builds = 0
  /\ states = [st \in Range(Stages) |-> None]
  /\ manifest = None
  /\ stage = 0 /\ observed = None

\* The process ends or goes on; what preparation keeps on disk is not touched.
Quit(how) ==
  /\ Leave(how)
  /\ stage' = 0 /\ observed' = None
  /\ UNCHANGED <<caches, job, faults>>

To(point) == Goto(point) /\ UNCHANGED <<caches, job, computed>>

-----------------------------------------------------------------------------
\* `orchestrate`, or `pipeline` after its preparation.
Orchestrate(s) ==
  /\ pc = "idle"
  /\ pc' = "validate"
  /\ setting' = s
  /\ UNCHANGED <<caches, job, computed, result, faults, benchmark, memory>>

Continue ==
  /\ pc = "prepared"
  /\ To("validate")
  /\ UNCHANGED <<benchmark, memory>>

\* Mutant of SharedValid: the sidecar of the truth is not compared with the caches.
SharedUnbound == /\ corpusCache = setting.model /\ queryCache = corpusCache
                 /\ truth # None /\ truthMeta # None
                 /\ truthMeta.of = truth /\ truth.inputs.k = setting.k

\* The chain of checksums from the model to the exact neighbours.
SharedValid == /\ corpusCache = setting.model /\ queryCache = corpusCache
               /\ truth # None /\ truthMeta # None
               /\ truthMeta.of = truth /\ truth.inputs.k = setting.k
               /\ truthMeta.inputs.corpus = corpusCache

Validate ==
  /\ pc = "validate"
  /\ SharedValid
  /\ manifest' = [status |-> "running", shared |-> Current, truth |-> truth]
  /\ stage' = 1
  /\ To("enter")
  /\ UNCHANGED <<index, builds, states, observed>>

ValidateRefused ==
  /\ pc = "validate"
  /\ ~SharedValid
  /\ Quit("refused")
  /\ UNCHANGED benchmark

-----------------------------------------------------------------------------
\* run_repeated_stage.
Name == Stages[stage]
State == IF states[Name] # None THEN states[Name]
         ELSE [inputs |-> Current, status |-> "running", done |-> << >>, failed |-> 0]

\* Mutant of Stale: a complete stage is reused as it is.
StaleNever == FALSE

\* A complete stage whose artifacts are not those it measured last.
Stale == State.status = "complete" /\ Last(State.done) # index

\* Mutant of Foreign: the inputs of a stage are not compared.
ForeignNever == FALSE

Foreign == State.inputs # Current

EnterStage ==
  /\ pc = "enter"
  /\ ~Foreign /\ ~Stale
  /\ IF State.status # "complete" THEN To("run") /\ UNCHANGED stage
     ELSE IF stage < Len(Stages) THEN stage' = stage + 1 /\ To("enter")
     ELSE To("finish") /\ UNCHANGED stage
  /\ UNCHANGED <<benchmark, observed>>

StageRefused ==
  /\ pc = "enter"
  /\ Foreign \/ Stale
  /\ Quit("refused")
  /\ UNCHANGED benchmark

Remaining == Len(State.done) < Wanted[Name]

\* A build that succeeds has replaced the index; one that fails may have.
BuildCommand ==
  /\ pc = "run" /\ Name \in Builds
  /\ Remaining
  /\ \/ /\ index' = builds + 1 /\ builds' = builds + 1
        /\ observed' = [ok |-> TRUE, artifacts |-> builds + 1]
        /\ To("observed")
     \/ /\ faults < Faults
        /\ \/ index' = builds + 1 /\ builds' = builds + 1
           \/ UNCHANGED <<index, builds>>
        /\ observed' = [ok |-> FALSE, artifacts |-> index']
        /\ pc' = "observed" /\ faults' = faults + 1
        /\ UNCHANGED <<caches, job, setting, computed, result>>
  /\ UNCHANGED <<states, manifest, stage>>

\* `stats` and `bench` read the index.
ReadCommand ==
  /\ pc = "run" /\ Name \notin Builds
  /\ Remaining
  /\ \E ok \in BOOLEAN :
       /\ ok => index # None
       /\ observed' = [ok |-> ok, artifacts |-> index]
       /\ IF ok \/ index = None THEN To("observed")
          ELSE /\ faults < Faults /\ faults' = faults + 1 /\ pc' = "observed"
               /\ UNCHANGED <<caches, job, setting, computed, result>>
  /\ UNCHANGED <<benchmark, stage>>

Record ==
  /\ pc = "observed" /\ observed.ok
  /\ states' = [states EXCEPT ![Name] =
                  [State EXCEPT !.done = Append(@, observed.artifacts),
                                !.status = "running"]]
  /\ observed' = None
  /\ To("run")
  /\ UNCHANGED <<index, builds, manifest, stage>>

\* Mutant of RecordFailure: the failed attempt is all that the state file keeps.
RecordFailureOnly ==
  /\ pc = "observed" /\ ~observed.ok
  /\ states' = [states EXCEPT ![Name] =
                  [State EXCEPT !.done = << >>, !.failed = @ + 1, !.status = "failed"]]
  /\ Quit("failed")
  /\ UNCHANGED <<index, builds, manifest>>

\* A failed attempt is kept and ends the run.
RecordFailure ==
  /\ pc = "observed" /\ ~observed.ok
  /\ states' = [states EXCEPT ![Name] =
                  [State EXCEPT !.failed = @ + 1, !.status = "failed"]]
  /\ Quit("failed")
  /\ UNCHANGED <<index, builds, manifest>>

CompleteStage ==
  /\ pc = "run"
  /\ ~Remaining
  /\ states' = [states EXCEPT ![Name] = [State EXCEPT !.status = "complete"]]
  /\ IF stage < Len(Stages) THEN stage' = stage + 1 /\ To("enter")
     ELSE To("finish") /\ UNCHANGED stage
  /\ UNCHANGED <<index, builds, manifest, observed>>

Finish ==
  /\ pc = "finish"
  /\ manifest' = [manifest EXCEPT !.status = "complete"]
  /\ Quit("complete")
  /\ UNCHANGED <<index, builds, states>>

\* A run that is killed after the last observation of a stage and before it is
\* marked complete leaves a stage whose artifacts nobody will compare.
Unguarded(st) == /\ states[st] # None
                 /\ states[st].status = "running"
                 /\ Len(states[st].done) = Wanted[st]

\* Between two runs, except then, the operator deletes the index, builds it or
\* puts an earlier one back.
Disturb ==
  /\ pc = "idle" /\ faults < Faults
  /\ \A st \in Range(Stages) : ~Unguarded(st)
  /\ faults' = faults + 1
  /\ \/ index' = builds + 1 /\ builds' = builds + 1
     \/ index' \in {None} \cup 1 .. builds /\ UNCHANGED builds
  /\ UNCHANGED <<caches, job, pc, setting, computed, result, states, manifest, memory>>

Killed ==
  /\ Kill
  /\ stage' = 0 /\ observed' = None
  /\ UNCHANGED benchmark

StageStep == \/ EnterStage \/ StageRefused \/ BuildCommand \/ ReadCommand
             \/ Record \/ RecordFailure \/ CompleteStage

Next ==
  \/ (\E s \in Settings : Prepare(s)) /\ UNCHANGED <<benchmark, memory>>
  \/ (PrepareStep \/ Prepared \/ Discard) /\ UNCHANGED <<benchmark, memory>>
  \/ \E s \in Settings : Orchestrate(s)
  \/ Continue \/ Validate \/ ValidateRefused \/ StageStep \/ Finish
  \/ Disturb \/ Killed

Spec == Init /\ [][Next]_allVars

-----------------------------------------------------------------------------
StageFile == [inputs : Inputs, done : Seq(Nat), failed : Nat,
              status : {"running", "failed", "complete"}]
Manifest == [status : {"running", "complete"}, shared : Inputs, truth : File]
Observation == [ok : BOOLEAN, artifacts : Nat \cup {None}]

\* run_repeated_stage asks for one repetition at least, and only the first of the
\* stages of an index builds it.
ASSUME PlanAssumption ==
  /\ Stages \in Seq(Range(Stages)) /\ Stages # << >>
  /\ Wanted \in [Range(Stages) -> Nat \ {0}]
  /\ \A i \in DOMAIN Stages : Stages[i] \in Builds => i = 1
  /\ None \notin Nat /\ None \notin StageFile /\ None \notin Manifest

TypeOK ==
  /\ PreparationTypeOK
  /\ pc \in {"idle", "corpus", "queries", "truth", "first", "compute", "append",
             "record", "publish", "describe", "clear", "prepared", "validate",
             "enter", "run", "observed", "finish"}
  /\ index \in Nat \cup {None} /\ builds \in Nat
  /\ states \in [Range(Stages) -> StageFile \cup {None}]
  /\ \A st \in Range(Stages) : states[st] # None => Len(states[st].done) <= Wanted[st]
  /\ manifest \in Manifest \cup {None}
  /\ stage \in 0 .. Len(Stages)
  /\ observed \in Observation \cup {None}

\* A complete manifest is of stages that are complete, each with as many
\* observations as the protocol asks for, all of the inputs it names (and the
\* state is well typed, which the run checks along with it).
ManifestHonest ==
  /\ TypeOK
  /\ manifest # None /\ manifest.status = "complete" =>
       \A st \in Range(Stages) :
         /\ states[st] # None
         /\ states[st].status = "complete"
         /\ states[st].inputs = manifest.shared
         /\ Len(states[st].done) = Wanted[st]

\* All that a complete manifest reports was read from the one index that the last
\* build wrote, however often the run was interrupted and the index replaced (by
\* an operator who keeps to Disturb).
OneIndexMeasured ==
  manifest # None /\ manifest.status = "complete" =>
    \A i, j \in DOMAIN Stages :
      /\ Stages[i] \in Builds /\ Stages[j] \notin Builds
      => \A a \in Range(states[Stages[j]].done) : a = Last(states[Stages[i]].done)

\* Recall is measured against the exact neighbours for the caches the manifest
\* names: none of the truth's lists is missing, repeated, torn or of other caches,
\* whatever was killed while it was computed and published.
MeasuredAgainstExact ==
  manifest # None => manifest.truth.blocks = Whole(manifest.shared)

\* A rerun of an interrupted or failed stage goes on after the last observation in
\* its state file: whatever is killed, fails or is replaced, no observation and no
\* failed attempt is ever dropped or replaced.  The benchmark plan says otherwise,
\* that an interrupted stage restarts (docs/BENCHMARK_EVALUATION_PLAN.md:502-503
\* and 756-757); run_repeated_stage takes the observations from the state file
\* (lines 1045-1074) and only runs those that are missing (1105).
EvidenceKept ==
  [][\A st \in Range(Stages) : states[st] # None =>
       /\ states'[st] # None
       /\ states'[st].inputs = states[st].inputs
       /\ IsPrefix(states[st].done, states'[st].done)
       /\ states'[st].failed >= states[st].failed]_allVars

-----------------------------------------------------------------------------
(* What makes these properties inductive.                                    *)

Staging == {"enter", "run", "observed", "finish"}

Complete(st) == states[st] # None /\ states[st].status = "complete"

\* The last index this stage measured is the one that is there.
Measures(st) == states[st] # None /\ states[st].done # << >> /\ index = Last(states[st].done)

\* A stage is complete with every observation it wants, and has failed with fewer.
Counted ==
  \A st \in Range(Stages) : states[st] # None =>
    /\ states[st].status = "complete" => Len(states[st].done) = Wanted[st]
    /\ states[st].status = "failed" => Len(states[st].done) < Wanted[st]

\* The manifest of the running process names its inputs, and the stages behind it
\* are complete for them.
Behind ==
  pc \in Staging =>
    /\ manifest \in Manifest /\ manifest.status = "running" /\ manifest.shared = Current
    /\ stage \in DOMAIN Stages
    /\ \A i \in DOMAIN Stages : i < stage \/ pc = "finish" =>
         Complete(Stages[i]) /\ states[Stages[i]].inputs = Current

\* The stage that runs is of its inputs and not complete, and the command that has
\* ended is one it wants.
AtStage ==
  pc \in {"run", "observed"} =>
    /\ State.inputs = Current /\ State.status # "complete"
    /\ pc = "observed" => /\ observed \in Observation /\ Remaining
                          /\ observed.ok => /\ observed.artifacts = index
                                            /\ index # None

\* After the build the index is the one it measured last: nobody replaces it in
\* the run, nor before it is marked complete.
OneBuild ==
  Stages[1] \in Builds =>
    /\ Unguarded(Stages[1]) => Measures(Stages[1])
    /\ pc \in Staging /\ stage > 1 => Measures(Stages[1])
    /\ \A st \in Range(Stages) \ Builds :
         states[st] # None /\ states[st].done # << >> =>
           /\ Complete(Stages[1])
           /\ \A n \in DOMAIN states[st].done :
                states[st].done[n] = Last(states[Stages[1]].done)

OrchestrationInv ==
  /\ TypeOK /\ TruthInv /\ ManifestHonest /\ MeasuredAgainstExact
  /\ Counted /\ Behind /\ AtStage /\ OneBuild
=============================================================================
