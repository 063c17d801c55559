--------------------------- MODULE CacheGeneration ---------------------------
(***************************************************************************)
(* generate_cache of scripts/run_large_scale_benchmark.py: the vectors of a *)
(* corpus are requested from an embedding endpoint batch by batch and       *)
(* appended to a partial file; a checkpoint next to it says how much of the *)
(* file is committed.  The run may be killed between any two of its writes  *)
(* and in the middle of an append, and is then started again, perhaps with  *)
(* other inputs.  Requests run ahead of the writer and are answered in any  *)
(* order.                                                                   *)
(*                                                                         *)
(* A vector is abstracted to <<data, n>>: row n of the corpus under the     *)
(* model, source and role `data`.  A checksum is abstracted to what it was  *)
(* computed from.                                                           *)
(***************************************************************************)
EXTENDS Naturals, Sequences, SequencesExt

CONSTANTS
  Inputs,     \* what input_hash tells apart
  DataOf,     \* source, model, role and bindings of an input
  Explicit,   \* inputs with --dimension: only they may have requests in flight
  PrefixOf,   \* rows of the --prefix-cache of an input, 0 without one
  Rows,       \* non-empty lines of the source
  BatchSize,
  Window,     \* --embedding-concurrency
  Faults,     \* bound on kills and failed requests
  None,
  Torn        \* bytes that are not a whole row

Data == {DataOf[i] : i \in Inputs}
Row  == Data \X (1 .. Rows)
Whole(data) == [n \in 1 .. Rows |-> <<data, n>>]

\* What a cache or a partial file, a checkpoint and a sidecar can hold.
File        == [data : Data, rows : Seq(Row \cup {Torn})]
State       == [input : Inputs, status : {"running", "ready"}, rows : Seq(Row),
                file : File \cup {None}]
Description == [data : Data, of : File, generation : BOOLEAN]

\* A source has rows (line 335), a prefix cache fewer (409), and the sizes are
\* positive (2037-2043).
ASSUME CacheAssumption ==
  /\ Rows \in Nat \ {0} /\ BatchSize \in Nat \ {0} /\ Window \in Nat \ {0}
  /\ Faults \in Nat
  /\ PrefixOf \in [Inputs -> 0 .. Rows - 1]
  /\ None \notin Inputs \cup Data
  /\ None \notin File /\ None \notin State /\ None \notin Description

VARIABLES
  partial,     \* the partial file: its header and rows
  checkpoint,  \* the checkpoint: inputs, status and digest of the committed rows
  cache,       \* the published file
  sidecar,     \* the provenance of the published file
  pc,          \* the write the process does next; "idle" when there is none
  input,       \* the inputs of the process
  digest,      \* payload_digest: the rows it has hashed, hence `completed`
  known,       \* dimension is not None
  pending,     \* requests in submission order
  next,        \* first row that no request has asked for
  batch,       \* the answer the generator yielded last
  result,      \* how the latest run ended
  faults

disk    == <<partial, checkpoint, cache, sidecar>>
stream  == <<pending, next, batch>>
process == <<input, digest, known>>
vars == <<disk, pc, process, stream, result, faults>>

Init ==
  /\ partial = None /\ checkpoint = None /\ cache = None /\ sidecar = None
  /\ pc = "idle" /\ input = None /\ digest = << >> /\ known = FALSE
  /\ pending = << >> /\ next = 1 /\ batch = << >>
  /\ result = [how |-> "none", of |-> None]
  /\ faults = 0

\* A run that returns or raises takes its memory with it.
Leave(how, i) ==
  /\ pc' = "idle" /\ input' = None /\ digest' = << >> /\ known' = FALSE
  /\ pending' = << >> /\ next' = 1 /\ batch' = << >>
  /\ result' = [how |-> how, of |-> i]

Goto(point) == pc' = point /\ UNCHANGED <<result, faults>>

-----------------------------------------------------------------------------
(***************************************************************************)
(* What a run finds on disk decides how it begins.                         *)
(***************************************************************************)

\* Mutant of Reusable: any described cache at the output path is taken.
ReusableUnchecked(i) == cache # None /\ sidecar # None /\ sidecar.of = cache

\* A described cache of the same source and model.
Reusable(i) ==
  /\ cache # None /\ sidecar # None
  /\ cache.data = DataOf[i]
  /\ sidecar.data = DataOf[i] /\ sidecar.of = cache

\* A cache whose run was killed before it could describe it.
Recoverable(i) ==
  /\ cache # None /\ sidecar = None /\ checkpoint # None
  /\ checkpoint.status = "ready" /\ checkpoint.input = i
  /\ checkpoint.file = cache

\* Mutant of Resumable: the input hash is not compared.
ResumableByAnyone(i) ==
  /\ cache = None /\ partial # None /\ checkpoint # None
  /\ IsPrefix(checkpoint.rows, partial.rows)

\* Both files, the same inputs, a file no shorter than the checkpoint says and
\* the checksum of that much of it.
Resumable(i) ==
  /\ cache = None /\ partial # None /\ checkpoint # None
  /\ checkpoint.input = i
  /\ IsPrefix(checkpoint.rows, partial.rows)

Fresh == cache = None /\ partial = None /\ checkpoint = None

Accepted(i) == Fresh \/ Reusable(i) \/ Recoverable(i) \/ Resumable(i)

Refuse(i) ==
  /\ pc = "idle"
  /\ ~Accepted(i)
  /\ Leave("refused", i)
  /\ UNCHANGED <<disk, faults>>

Reuse(i) ==
  /\ pc = "idle"
  /\ Reusable(i)
  /\ Leave("returned", i)
  /\ UNCHANGED <<disk, faults>>

Recover(i) ==
  /\ pc = "idle"
  /\ Recoverable(i)
  /\ input' = i
  /\ Goto("redescribe")
  /\ UNCHANGED <<disk, digest, known, stream>>

\* An append that was not checkpointed is cut off.
Resume(i) ==
  /\ pc = "idle"
  /\ Resumable(i)
  /\ partial' = [partial EXCEPT !.rows = checkpoint.rows]
  /\ input' = i
  /\ known' = TRUE
  /\ digest' = checkpoint.rows
  /\ next' = Len(checkpoint.rows) + 1
  /\ Goto("batches")
  /\ UNCHANGED <<checkpoint, cache, sidecar, pending, batch>>

\* The dimension is known from the start, or from the prefix cache, whose
\* vectors are copied.
StartSized(i) ==
  LET copied == SubSeq(Whole(DataOf[i]), 1, PrefixOf[i]) IN
  /\ pc = "idle"
  /\ Fresh
  /\ i \in Explicit \/ PrefixOf[i] > 0
  /\ partial' = [data |-> DataOf[i], rows |-> copied]
  /\ input' = i
  /\ known' = TRUE
  /\ digest' = copied
  /\ next' = PrefixOf[i] + 1
  /\ Goto("begin")
  /\ UNCHANGED <<checkpoint, cache, sidecar, pending, batch>>

\* The header cannot be written before the first answer.
StartUnsized(i) ==
  /\ pc = "idle"
  /\ Fresh
  /\ i \notin Explicit /\ PrefixOf[i] = 0
  /\ input' = i
  /\ Goto("batches")
  /\ UNCHANGED <<disk, digest, known, stream>>

Begin(i) == \/ Refuse(i) \/ Reuse(i) \/ Recover(i) \/ Resume(i)
            \/ StartSized(i) \/ StartUnsized(i)

-----------------------------------------------------------------------------
(***************************************************************************)
(* Requests.  Up to Limit batches are with the endpoint; the generator      *)
(* yields the oldest one, and only when the window is full or the source    *)
(* is exhausted.                                                            *)
(***************************************************************************)
Limit == IF input \in Explicit THEN Window ELSE 1

Request ==
  /\ pc = "batches"
  /\ next <= Rows
  /\ Len(pending) < Limit
  /\ LET last == IF next + BatchSize > Rows THEN Rows ELSE next + BatchSize - 1 IN
       /\ pending' = Append(pending, [first |-> next, last |-> last, is |-> "sent"])
       /\ next' = last + 1
  /\ UNCHANGED <<disk, pc, process, batch, result, faults>>

\* A worker thread gets an answer, or gives up after its retries.
Answer ==
  /\ \E j \in DOMAIN pending :
       /\ pending[j].is = "sent"
       /\ \/ /\ pending' = [pending EXCEPT ![j].is = "answered"]
             /\ UNCHANGED faults
          \/ /\ faults < Faults
             /\ pending' = [pending EXCEPT ![j].is = "failed"]
             /\ faults' = faults + 1
  /\ UNCHANGED <<disk, pc, process, next, batch, result>>

Ready == /\ pc = "batches"
         /\ pending # << >>
         /\ Len(pending) = Limit \/ next > Rows

\* Mutant of Yield: batches are taken as they complete.
YieldAsCompleted ==
  /\ Ready
  /\ \E j \in DOMAIN pending :
       /\ pending[j].is = "answered"
       /\ batch' = SubSeq(Whole(DataOf[input]), pending[j].first, pending[j].last)
       /\ pending' = RemoveAt(pending, j)
  /\ Goto(IF known THEN "append" ELSE "create")
  /\ UNCHANGED <<disk, process, next>>

Yield ==
  /\ Ready
  /\ pending[1].is = "answered"
  /\ batch' = SubSeq(Whole(DataOf[input]), pending[1].first, pending[1].last)
  /\ pending' = Tail(pending)
  /\ Goto(IF known THEN "append" ELSE "create")
  /\ UNCHANGED <<disk, process, next>>

\* The other requests are cancelled, or waited for and forgotten.
RequestFailed ==
  /\ Ready
  /\ pending[1].is = "failed"
  /\ Leave("failed", input)
  /\ UNCHANGED <<disk, faults>>

-----------------------------------------------------------------------------
(***************************************************************************)
(* The writer.                                                             *)
(***************************************************************************)
Create ==
  /\ pc = "create"
  /\ partial = None
  /\ partial' = [data |-> DataOf[input], rows |-> << >>]
  /\ known' = TRUE
  /\ Goto("begin")
  /\ UNCHANGED <<checkpoint, cache, sidecar, input, digest, stream>>

Running == [input |-> input, status |-> "running", rows |-> digest, file |-> None]

FirstCheckpoint ==
  /\ pc = "begin"
  /\ checkpoint' = Running
  /\ Goto(IF batch = << >> THEN "batches" ELSE "append")
  /\ UNCHANGED <<partial, cache, sidecar, process, stream>>

AppendBatch ==
  /\ pc = "append"
  /\ partial' = [partial EXCEPT !.rows = @ \o batch]
  /\ digest' = digest \o batch
  /\ Goto("record")
  /\ UNCHANGED <<checkpoint, cache, sidecar, input, known, stream>>

Checkpoint ==
  /\ pc = "record"
  /\ checkpoint' = Running
  /\ batch' = << >>
  /\ Goto("batches")
  /\ UNCHANGED <<partial, cache, sidecar, process, pending, next>>

\* Mutant of MarkReady: the file is published on a running checkpoint.
MarkReadyNever ==
  /\ pc = "batches"
  /\ pending = << >> /\ next > Rows
  /\ Goto("publish")
  /\ UNCHANGED <<disk, process, stream>>

\* All rows are there and the file reads back.
MarkReady ==
  /\ pc = "batches"
  /\ pending = << >> /\ next > Rows
  /\ Len(digest) = Rows
  /\ Len(partial.rows) = Rows
  /\ checkpoint' = [Running EXCEPT !.status = "ready", !.file = partial]
  /\ Goto("publish")
  /\ UNCHANGED <<partial, cache, sidecar, process, stream>>

Publish ==
  /\ pc = "publish"
  /\ cache' = partial
  /\ partial' = None
  /\ Goto("describe")
  /\ UNCHANGED <<checkpoint, sidecar, process, stream>>

\* The sidecar; a recovered one has no record of how the file was generated.
Describe ==
  /\ pc \in {"describe", "redescribe"}
  /\ sidecar' = [data |-> DataOf[input], of |-> cache,
                 generation |-> pc = "describe"]
  /\ Goto("clear")
  /\ UNCHANGED <<partial, checkpoint, cache, process, stream>>

Clear ==
  /\ pc = "clear"
  /\ checkpoint' = None
  /\ Leave("returned", input)
  /\ UNCHANGED <<partial, cache, sidecar, faults>>

\* A kill, or a write that raises.  It may leave a part of a batch behind.
Kill ==
  /\ pc # "idle"
  /\ faults < Faults
  /\ faults' = faults + 1
  /\ IF pc = "append"
       THEN \E n \in 0 .. Len(batch) - 1, rest \in {<< >>, <<Torn>>} :
              partial' = [partial EXCEPT !.rows = @ \o SubSeq(batch, 1, n) \o rest]
       ELSE UNCHANGED partial
  /\ Leave("killed", input)
  /\ UNCHANGED <<checkpoint, cache, sidecar>>

Step == \/ Request \/ Answer \/ Yield \/ RequestFailed
        \/ Create \/ FirstCheckpoint \/ AppendBatch \/ Checkpoint
        \/ MarkReady \/ Publish \/ Describe \/ Clear

Next == (\E i \in Inputs : Begin(i)) \/ Step \/ Kill

Spec == Init /\ [][Next]_vars

(***************************************************************************)
(* The process runs, the endpoint answers, and whoever runs the benchmark   *)
(* reruns each command, as docs/BENCHMARK_EVALUATION_PLAN.md:756 asks after *)
(* an interruption.                                                        *)
(***************************************************************************)
FairSpec == Spec /\ WF_vars(Step) /\ \A i \in Inputs : SF_vars(Begin(i))

-----------------------------------------------------------------------------
TypeOK ==
  /\ partial \in File \cup {None}
  /\ cache \in File \cup {None}
  /\ checkpoint \in State \cup {None}
  /\ sidecar \in Description \cup {None}
  /\ pc \in {"idle", "batches", "create", "begin", "append", "record",
             "publish", "describe", "redescribe", "clear"}
  /\ input \in Inputs \cup {None}
  /\ digest \in Seq(Row) /\ batch \in Seq(Row)
  /\ known \in BOOLEAN
  /\ pending \in Seq([first : 1 .. Rows, last : 1 .. Rows,
                      is : {"sent", "answered", "failed"}])
  /\ next \in 1 .. Rows + 1
  /\ faults \in 0 .. Faults

\* A published cache holds every row of its source once, in source order and
\* from one set of inputs, whatever was killed, resumed or answered late (and
\* the state is well typed, which the run checks along with it).
CacheWhole == TypeOK /\ (cache # None => cache.rows = Whole(cache.data))

\* A run that returns leaves a described cache of its own inputs.
ReturnsItsOwn ==
  result.how = "returned" =>
    /\ cache # None /\ sidecar # None
    /\ cache.data = DataOf[result.of]
    /\ sidecar.of = cache

Claimed == IF cache # None THEN cache.data
           ELSE IF checkpoint # None THEN DataOf[checkpoint.input] ELSE None

Committed == IF cache # None THEN Rows
             ELSE IF checkpoint # None THEN Len(checkpoint.rows) ELSE 0

Job == INSTANCE ResumableJob WITH Inputs <- Data, Total <- Rows,
         claimed <- Claimed, committed <- Committed, published <- cache # None

\* Committed rows are never done again, never change owner and are published
\* only when all are there.
ImplementsJob == Job!Spec

\* Once a checkpoint exists, running the commands again finishes the job.
WorkFinishes == checkpoint # None ~> sidecar # None

(***************************************************************************)
(* The inductive invariant behind these.                                   *)
(***************************************************************************)
Beginning(data, rows) ==
  Len(rows) <= Rows /\ \A n \in 1 .. Len(rows) : rows[n] = <<data, n>>

Streaming == {"batches", "create", "begin", "append", "record"}
Writing   == Streaming \cup {"publish"}

\* A process has inputs, and what is in its memory goes with it.
Memory ==
  /\ pc # "idle" => input \in Inputs
  /\ pc \in {"idle", "redescribe"} =>
       digest = << >> /\ ~known /\ pending = << >> /\ next = 1 /\ batch = << >>
  /\ pc # "idle" => Beginning(DataOf[input], digest)

\* The batch that was yielded follows what was hashed.
Follows ==
  /\ pc \in {"create", "append", "record"} => batch # << >>
  /\ pc = "batches" => batch = << >>
  /\ pc \in {"create", "begin", "append"} =>
       /\ Len(digest) + Len(batch) <= Rows
       /\ \A n \in 1 .. Len(batch) : batch[n] = <<DataOf[input], Len(digest) + n>>

\* How many rows were yielded.
Yielded == Len(digest) + (IF pc \in {"create", "begin", "append"} THEN Len(batch) ELSE 0)

\* The requests ask for the rows from there on, each once and in order.
Requested ==
  pc \in Streaming =>
    /\ IF pending = << >> THEN next = Yielded + 1 ELSE pending[1].first = Yielded + 1
    /\ \A j \in 1 .. Len(pending) :
         /\ pending[j].first <= pending[j].last
         /\ pending[j].last + 1 = IF j = Len(pending) THEN next ELSE pending[j + 1].first

\* A checkpoint is of the file next to it, and says what was hashed.
Checkpointed ==
  checkpoint # None =>
    /\ Beginning(DataOf[checkpoint.input], checkpoint.rows)
    /\ partial # None => partial.data = DataOf[checkpoint.input]
    /\ checkpoint.status = "ready" =>
         checkpoint.file # None /\ checkpoint.file.data = DataOf[checkpoint.input]

\* Before the header there is nothing; then the file has what was hashed, and the
\* checkpoint is one batch behind at most.
Written ==
  pc \in Writing =>
    /\ cache = None
    /\ IF known
         THEN /\ partial # None /\ partial.data = DataOf[input] /\ partial.rows = digest
              /\ pc # "create"
         ELSE /\ partial = None /\ checkpoint = None /\ digest = << >>
              /\ pc \in {"batches", "create"}
    /\ pc = "begin" => checkpoint = None
    /\ known /\ pc # "begin" => checkpoint # None /\ checkpoint.input = input
    /\ known /\ pc \in {"batches", "append", "publish"} => checkpoint.rows = digest
    /\ pc = "record" => Len(checkpoint.rows) < Len(digest)
    /\ pc = "publish" => Len(digest) = Rows

\* What was published is described as what it is.
Described ==
  /\ cache # None => cache.rows = Whole(cache.data)
  /\ pc \in {"describe", "redescribe", "clear"} => cache # None /\ cache.data = DataOf[input]
  /\ pc = "clear" => sidecar # None /\ sidecar.of = cache
  /\ ReturnsItsOwn
  /\ result.how = "returned" => result.of \in Inputs

CacheInv == TypeOK /\ Memory /\ Follows /\ Requested /\ Checkpointed /\ Written /\ Described
=============================================================================
