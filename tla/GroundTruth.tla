----------------------------- MODULE GroundTruth -----------------------------
(***************************************************************************)
(* prepare_shared and generate_ground_truth of                              *)
(* scripts/run_large_scale_benchmark.py: the exact neighbours of every      *)
(* query are computed block by block from the two vector caches, appended   *)
(* to a partial file with a checkpoint, and published with a sidecar that    *)
(* binds them to the caches.  Between two runs files may be deleted and     *)
(* another model or top-k chosen.                                           *)
(*                                                                         *)
(* generate_cache is one step here (CacheGeneration has its own): a cache   *)
(* is abstracted to its model, and a block of truth to the caches and top-k *)
(* it was computed from and its number.                                     *)
(***************************************************************************)
EXTENDS Naturals, Sequences, SequencesExt

CONSTANTS
  Settings,   \* [model, k]: --embedding-model and its identity, --top-k
  Blocks,     \* blocks of --query-block-rows queries
  Faults,     \* bound on kills, failing commands and deletions by the operator
  None,
  Torn        \* text that is not a whole block

VARIABLES
  corpusCache,  \* model of the corpus cache, with its sidecar
  queryCache,   \* model of the corpus cache the query cache is bound to
  truth,        \* the published file
  truthMeta,    \* its sidecar: the inputs and the checksum it declares
  partial,      \* the partial file
  checkpoint,   \* its checkpoint
  pc,           \* what the process does next
  setting,      \* its arguments
  computed,     \* the block it has computed and not yet appended, and its number
  result,       \* how the latest run ended
  faults

caches == <<corpusCache, queryCache>>
job    == <<truth, truthMeta, partial, checkpoint>>
preparation == <<caches, job, pc, setting, computed, result, faults>>

Models == {s.model : s \in Settings}
Inputs == {[corpus |-> s.model, k |-> s.k] : s \in Settings}
Whole(in) == [n \in 1 .. Blocks |-> <<in, n>>]

PrepareInit ==
  /\ corpusCache = None /\ queryCache = None
  /\ truth = None /\ truthMeta = None /\ partial = None /\ checkpoint = None
  /\ pc = "idle" /\ setting = None /\ computed = None
  /\ result = "none"
  /\ faults = 0

Goto(point) == pc' = point /\ UNCHANGED <<setting, result, faults>>

Leave(how) ==
  /\ pc' = "idle" /\ setting' = None /\ computed' = None
  /\ result' = how

-----------------------------------------------------------------------------
\* `prepare`, and `pipeline` which goes on to the benchmark.
Prepare(s) ==
  /\ pc = "idle"
  /\ pc' = "corpus"
  /\ setting' = s
  /\ UNCHANGED <<caches, job, computed, result, faults>>

\* An existing cache of another model is refused.
CacheCorpus ==
  /\ pc = "corpus"
  /\ corpusCache \in {None, setting.model}
  /\ corpusCache' = setting.model
  /\ Goto("queries")
  /\ UNCHANGED <<queryCache, job, computed>>

\* The query cache is bound to the checksum of the corpus cache.
CacheQueries ==
  /\ pc = "queries"
  /\ queryCache \in {None, corpusCache}
  /\ queryCache' = corpusCache
  /\ Goto("truth")
  /\ UNCHANGED <<corpusCache, job, computed>>

CacheRefused ==
  /\ \/ pc = "corpus" /\ corpusCache \notin {None, setting.model}
     \/ pc = "queries" /\ queryCache \notin {None, corpusCache}
  /\ Leave("refused")
  /\ UNCHANGED <<caches, job, faults>>

Current == [corpus |-> corpusCache, k |-> setting.k]

-----------------------------------------------------------------------------
\* What generate_ground_truth finds decides how it begins.
Reusable == /\ truth # None /\ truthMeta # None
            /\ truthMeta.inputs = Current /\ truthMeta.of = truth

Recoverable == /\ truth # None /\ truthMeta = None /\ checkpoint # None
               /\ checkpoint.status = "ready" /\ checkpoint.inputs = Current
               /\ checkpoint.of = truth

Resumable == /\ truth = None /\ partial # None /\ checkpoint # None
             /\ checkpoint.inputs = Current
             /\ IsPrefix(checkpoint.blocks, partial.blocks)

Fresh == truth = None /\ partial = None /\ checkpoint = None

Refuse ==
  /\ pc = "truth"
  /\ ~(Reusable \/ Recoverable \/ Resumable \/ Fresh)
  /\ Leave("refused")
  /\ UNCHANGED <<caches, job, faults>>

Reuse ==
  /\ pc = "truth"
  /\ Reusable
  /\ Goto("prepared")
  /\ UNCHANGED <<caches, job, computed>>

Recover ==
  /\ pc = "truth"
  /\ Recoverable
  /\ Goto("describe")
  /\ UNCHANGED <<caches, job, computed>>

\* A block that was appended and not checkpointed is cut off.
Resume ==
  /\ pc = "truth"
  /\ Resumable
  /\ partial' = [partial EXCEPT !.blocks = checkpoint.blocks]
  /\ Goto("compute")
  /\ UNCHANGED <<caches, truth, truthMeta, checkpoint, computed>>

Create ==
  /\ pc = "truth"
  /\ Fresh
  /\ partial' = [inputs |-> Current, blocks |-> << >>]
  /\ Goto("first")
  /\ UNCHANGED <<caches, truth, truthMeta, checkpoint, computed>>

Running == [inputs |-> Current, status |-> "running", blocks |-> partial.blocks,
            of |-> None]

Checkpoint ==
  /\ pc \in {"first", "record"}
  /\ checkpoint' = Running
  /\ Goto("compute")
  /\ UNCHANGED <<caches, truth, truthMeta, partial, computed>>

Compute ==
  /\ pc = "compute"
  /\ Len(partial.blocks) < Blocks
  /\ computed' = <<Current, Len(partial.blocks) + 1>>
  /\ Goto("append")
  /\ UNCHANGED <<caches, job>>

AppendBlock ==
  /\ pc = "append"
  /\ partial' = [partial EXCEPT !.blocks = Append(@, computed)]
  /\ computed' = None
  /\ Goto("record")
  /\ UNCHANGED <<caches, truth, truthMeta, checkpoint>>

MarkReady ==
  /\ pc = "compute"
  /\ Len(partial.blocks) = Blocks
  /\ checkpoint' = [Running EXCEPT !.status = "ready", !.of = partial]
  /\ Goto("publish")
  /\ UNCHANGED <<caches, truth, truthMeta, partial, computed>>

Publish ==
  /\ pc = "publish"
  /\ truth' = partial
  /\ partial' = None
  /\ Goto("describe")
  /\ UNCHANGED <<caches, truthMeta, checkpoint, computed>>

Describe ==
  /\ pc = "describe"
  /\ truthMeta' = [inputs |-> Current, of |-> truth]
  /\ Goto("clear")
  /\ UNCHANGED <<caches, truth, partial, checkpoint, computed>>

Clear ==
  /\ pc = "clear"
  /\ checkpoint' = None
  /\ Goto("prepared")
  /\ UNCHANGED <<caches, truth, truthMeta, partial, computed>>

\* `prepare` prints what it has and ends.
Prepared ==
  /\ pc = "prepared"
  /\ Leave("prepared")
  /\ UNCHANGED <<caches, job, faults>>

\* A kill, or a write that raises; it may leave a part of a block behind.
Kill ==
  /\ pc # "idle"
  /\ faults < Faults
  /\ faults' = faults + 1
  /\ IF pc = "append"
       THEN partial' \in {partial, [partial EXCEPT !.blocks = Append(@, Torn)]}
       ELSE UNCHANGED partial
  /\ Leave("killed")
  /\ UNCHANGED <<caches, truth, truthMeta, checkpoint>>

\* The operator deletes a cache with its sidecar, the truth or its sidecar, or an
\* unfinished job.
Discard ==
  /\ pc = "idle"
  /\ faults < Faults
  /\ faults' = faults + 1
  /\ \/ corpusCache' = None /\ UNCHANGED <<queryCache, job>>
     \/ queryCache' = None /\ UNCHANGED <<corpusCache, job>>
     \/ truth' = None /\ UNCHANGED <<caches, truthMeta, partial, checkpoint>>
     \/ truthMeta' = None /\ UNCHANGED <<caches, truth, partial, checkpoint>>
     \/ partial' = None /\ checkpoint' = None /\ UNCHANGED <<caches, truth, truthMeta>>
  /\ UNCHANGED <<pc, setting, computed, result>>

PrepareStep == \/ CacheCorpus \/ CacheQueries \/ CacheRefused
               \/ Refuse \/ Reuse \/ Recover \/ Resume \/ Create
               \/ Checkpoint \/ Compute \/ AppendBlock \/ MarkReady \/ Publish
               \/ Describe \/ Clear

-----------------------------------------------------------------------------
Block == Inputs \X (1 .. Blocks)
File == [inputs : Inputs, blocks : Seq(Block \cup {Torn})]
Sidecar == [inputs : Inputs, of : File]
Progress == [inputs : Inputs, status : {"running", "ready"},
             blocks : Seq(Block \cup {Torn}), of : File \cup {None}]

ASSUME TruthAssumption ==
  /\ Blocks \in Nat /\ Faults \in Nat
  /\ None \notin Settings /\ None \notin Models /\ None \notin Block
  /\ None \notin File /\ None \notin Sidecar /\ None \notin Progress

PreparationTypeOK ==
  /\ corpusCache \in Models \cup {None} /\ queryCache \in Models \cup {None}
  /\ truth \in File \cup {None} /\ partial \in File \cup {None}
  /\ truthMeta \in Sidecar \cup {None} /\ checkpoint \in Progress \cup {None}
  /\ setting \in Settings \cup {None} /\ computed \in Block \cup {None}
  /\ faults \in 0 .. Faults

-----------------------------------------------------------------------------
(* What the blocks of a file are at every point, for TruthInv.               *)

\* The first blocks of the truth for these inputs, in order.
Begins(blocks, in) == \A n \in DOMAIN blocks : n \in 1 .. Blocks /\ blocks[n] = <<in, n>>

Exact(in) == [inputs |-> in, blocks |-> Whole(in)]

\* A process has arguments, and once it has the corpus cache it is of their model.
Bound ==
  /\ pc # "idle" => setting \in Settings
  /\ pc \notin {"idle", "corpus", "validate"} => corpusCache = setting.model

\* The partial file of the running process is a beginning of the truth for its own
\* inputs; the block it has computed is the next one.
Growing ==
  /\ pc \in {"first", "compute", "append", "record", "publish"} =>
       partial \in File /\ partial.inputs = Current /\ Begins(partial.blocks, Current)
  /\ pc = "append" => /\ Len(partial.blocks) < Blocks
                      /\ computed = <<Current, Len(partial.blocks) + 1>>

\* What is on disk for a later process: a checkpoint is of the partial file beside
\* it, counts none but its own blocks, and is ready when the truth was whole.
Resuming ==
  checkpoint # None =>
    /\ Begins(checkpoint.blocks, checkpoint.inputs)
    /\ checkpoint.status = "ready" => checkpoint.of = Exact(checkpoint.inputs)
    /\ partial # None => partial.inputs = checkpoint.inputs

\* From the checkpoint that is ready to the sidecar the file is the whole truth.
Described ==
  /\ pc = "publish" => partial = Exact(Current)
  /\ pc = "describe" => truth = Exact(Current)
  /\ truthMeta # None => truthMeta.of = Exact(truthMeta.inputs)

TruthInv == Bound /\ Growing /\ Resuming /\ Described
=============================================================================
