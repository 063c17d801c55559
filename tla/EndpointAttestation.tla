------------------------- MODULE EndpointAttestation -------------------------
(***************************************************************************)
(* scripts/attest_embedding_endpoint.py: the proof that one llama-server    *)
(* process computed the vectors of a corpus cache.  `capture` runs while    *)
(* the cache is generated; it reads files and process tables one after      *)
(* another, the world changing in between, and compares what it read.       *)
(* `finalize` joins a capture to the report of a later parity run.          *)
(* The world: an operator starts and stops servers and replaces the model   *)
(* file; run_large_scale_benchmark.py generates the 100k and the 1m cache,  *)
(* the latter perhaps from a copy of the former.                            *)
(*                                                                         *)
(* A vector is abstracted to [by, model]: the start time of the process     *)
(* that computed it and the model that process had loaded.  Equal bytes are *)
(* equal models.  A process, a file and a generation are identified by the  *)
(* tick they began at; no two events share a tick.                          *)
(***************************************************************************)
EXTENDS EmbeddingParity

CONSTANTS
  Models,      \* contents the model file may have
  Count,       \* tier -> the rows of its source
  Size,        \* row -> the bytes of its text
  Truncated,   \* rows that preparation truncated
  Wanted,      \* the samples a parity run may be asked for
  BirthTime,   \* TRUE if stat reports st_birthtime: macOS, not Linux
  Unseeded,    \* tiers that may be generated without a prefix cache
  BatchSize,   \* --embedding-batch-size
  Limit,       \* bounds: servers started, models replaced, caches deleted
  MaxTime,     \* bound on the ticks
  None

Tiers == {"100k", "1m"}
Ticks == 1 .. MaxTime

ASSUME AttestationAssumption ==
  /\ Count \in [Tiers -> Nat \ {0}] /\ Count["100k"] < Count["1m"]
  /\ Size \in [0 .. Count["1m"] - 1 -> Nat]
  /\ \A w \in Wanted : w.spaced \in Nat /\ w.longest \in Nat
  /\ BirthTime \in BOOLEAN /\ MaxTime \in Nat /\ BatchSize \in Nat \ {0}
  /\ Limit \in [{"servers", "models", "deletions"} -> Nat]

Moments   == 0 .. MaxTime
Row       == [by : Ticks, model : Models]
RowsOf(t) == UNION {[1 .. n -> Row] : n \in 0 .. Count[t]}
Vectors   == UNION {[1 .. n -> Models] : n \in 0 .. Count["1m"]}
ModelFile == [content : Models, mtime : Moments, placed : Moments]
Process   == [started : Ticks, loaded : Models]
CacheFile == [born : Ticks, rows : RowsOf("1m"), published : BOOLEAN]
Checkpoint ==
  [created : Ticks, updated : Ticks, rows : 0 .. Count["1m"],
   seed : Vectors \cup {None}, model : Models,
   status : {"running", "ready-to-publish"}]

\* None is no vectors, no file and no record of a seed.
ASSUME NoneAssumption ==
  /\ None \notin Vectors \cup CacheFile \cup Checkpoint
  /\ None \notin [bytes : Vectors, time : Ticks]

VARIABLES
  now,         \* the time of the latest event
  gguf,        \* the model file: content, mtime, and ctime as `placed`
  spent,       \* how much of Limit the operator has used
  server,      \* the process that listens, with the model it loaded
  begun,       \* tier -> generation_started_at of the generating process
  answer,      \* tier -> rows received and not yet appended
  file,        \* tier -> the partial file or the cache
  checkpoint,  \* tier -> its checkpoint
  sidecar,     \* tier -> the provenance of the cache
  cap,         \* the running capture: what it has read so far
  report,      \* the latest live capture
  check,       \* the running parity validation
  native,      \* each native-run.json and the vectors it vouches for
  parity,      \* the latest passing parity report
  final        \* the latest finalized attestation

world    == <<now, gguf, server, spent>>
caches   == <<begun, answer, file, checkpoint, sidecar>>
captures == <<cap, report>>
parities == <<check, native, parity>>
vars     == <<world, caches, captures, parities, final>>

Init ==
  /\ now = 0
  /\ gguf \in [content : Models, mtime : {0}, placed : {0}]
  /\ server = None
  /\ spent = [l \in DOMAIN Limit |-> 0]
  /\ begun = [t \in Tiers |-> None] /\ answer = [t \in Tiers |-> None]
  /\ file = [t \in Tiers |-> None] /\ checkpoint = [t \in Tiers |-> None]
  /\ sidecar = [t \in Tiers |-> None]
  /\ cap = None /\ report = None
  /\ check = None /\ native = {} /\ parity = None
  /\ final = None

Bytes(rows) == [i \in DOMAIN rows |-> rows[i].model]

Tick == now < MaxTime /\ now' = now + 1

-----------------------------------------------------------------------------
(***************************************************************************)
(* The operator.                                                           *)
(***************************************************************************)
Spend(what) == spent[what] < Limit[what] /\ spent' = [spent EXCEPT ![what] = @ + 1]

StartServer ==
  /\ server = None
  /\ Spend("servers")
  /\ Tick
  /\ server' = [started |-> now', loaded |-> gguf.content]
  /\ UNCHANGED <<gguf, caches, captures, parities, final>>

StopServer ==
  /\ server # None
  /\ server' = None
  /\ UNCHANGED <<now, gguf, spent, caches, captures, parities, final>>

\* Written where it is, or moved there with the time of its own last write.
ReplaceModel ==
  /\ Spend("models")
  /\ Tick
  /\ \E c \in Models \ {gguf.content}, moved \in BOOLEAN :
       gguf' = [content |-> c, mtime |-> IF moved THEN 0 ELSE now', placed |-> now']
  /\ UNCHANGED <<server, caches, captures, parities, final>>

\* A generation that is given up, or a cache that is to be made again.
Delete(t) ==
  /\ begun[t] # None \/ file[t] # None
  /\ begun' = [begun EXCEPT ![t] = None]
  /\ answer' = [answer EXCEPT ![t] = None]
  /\ file' = [file EXCEPT ![t] = None]
  /\ checkpoint' = [checkpoint EXCEPT ![t] = None]
  /\ sidecar' = [sidecar EXCEPT ![t] = None]
  /\ Spend("deletions")
  /\ UNCHANGED <<now, gguf, server, captures, parities, final>>

-----------------------------------------------------------------------------
(***************************************************************************)
(* Generation, as far as a capture can see it; --dimension is given, so the *)
(* partial file and its checkpoint precede the first request.               *)
(***************************************************************************)
NewCheckpoint(rows, seed) ==
  [created |-> now', updated |-> now', rows |-> Len(rows), seed |-> seed,
   model |-> gguf.content, status |-> "running"]

Begin(t, rows, seed) ==
  /\ begun[t] = None /\ file[t] = None
  /\ Tick
  /\ begun' = [begun EXCEPT ![t] = now']
  /\ file' = [file EXCEPT ![t] = [born |-> now', rows |-> rows, published |-> FALSE]]
  /\ checkpoint' = [checkpoint EXCEPT ![t] = NewCheckpoint(rows, seed)]
  /\ UNCHANGED <<gguf, server, spent, answer, sidecar, captures, parities, final>>

BeginEmpty(t) == t \in Unseeded /\ Begin(t, << >>, None)

\* --prefix-cache: the rows of the smaller tier are copied, bit by bit.
BeginFromPrefix ==
  /\ sidecar["100k"] # None /\ sidecar["100k"].model = gguf.content
  /\ Begin("1m", file["100k"].rows, Bytes(file["100k"].rows))

\* A server answers; by the time the answer is appended it may be gone.
Answer(t) ==
  /\ begun[t] # None /\ checkpoint[t].status = "running"
  /\ answer[t] = None /\ server # None
  /\ Len(file[t].rows) < Count[t]
  /\ answer' = [answer EXCEPT ![t] =
       [i \in 1 .. Min({BatchSize, Count[t] - Len(file[t].rows)}) |->
          [by |-> server.started, model |-> server.loaded]]]
  /\ UNCHANGED <<world, begun, file, checkpoint, sidecar, captures, parities, final>>

Append_(t) ==
  /\ answer[t] # None
  /\ Tick
  /\ file' = [file EXCEPT ![t].rows = @ \o answer[t]]
  /\ checkpoint' = [checkpoint EXCEPT ![t].rows = @ + Len(answer[t]),
                                      ![t].updated = now']
  /\ answer' = [answer EXCEPT ![t] = None]
  /\ UNCHANGED <<gguf, server, spent, begun, sidecar, captures, parities, final>>

Publish(t) ==
  /\ begun[t] # None /\ checkpoint[t].status = "running"
  /\ Len(file[t].rows) = Count[t]
  /\ checkpoint' = [checkpoint EXCEPT ![t].status = "ready-to-publish"]
  /\ file' = [file EXCEPT ![t].published = TRUE]
  /\ UNCHANGED <<world, begun, answer, sidecar, captures, parities, final>>

\* The sidecar is created when all rows are there, at the time of the latest
\* event; the checkpoint goes.
Describe(t) ==
  /\ begun[t] # None /\ file[t].published
  /\ sidecar' = [sidecar EXCEPT ![t] =
                   [created |-> now, bytes |-> Bytes(file[t].rows),
                    model |-> checkpoint[t].model]]
  /\ checkpoint' = [checkpoint EXCEPT ![t] = None]
  /\ begun' = [begun EXCEPT ![t] = None]
  /\ UNCHANGED <<world, answer, file, captures, parities, final>>

-----------------------------------------------------------------------------
(***************************************************************************)
(* capture.  A comparison that fails raises; none has an effect before the  *)
(* report is written, so all are made where the report is, in Proven.       *)
(***************************************************************************)
NewCapture(t) ==
  [tier |-> t, at |-> "checkpoint", gguf |-> gguf, before |-> None, start |-> None,
   prefix |-> None, process |-> None, gguf2 |-> None, process2 |-> None,
   rows |-> None]

\* The cache or its partial file, with what was read of the checkpoint: that
\* one's creation time stands in for a birth time.
StartArtifact(t, read) ==
  [born |-> file[t].born, published |-> file[t].published,
   time |-> IF BirthTime THEN file[t].born ELSE read.created]

\* When the rows copied from the smaller tier began to be generated.
PrefixStart ==
  IF BirthTime THEN file["100k"].born ELSE sidecar["100k"].created

Reading(point) ==
  /\ cap # None /\ cap.at = point
  /\ UNCHANGED <<world, caches, parities, final, report>>

\* One capture is followed: captures do not act on each other.
HashArtifact(t) ==
  /\ cap = None /\ report = None
  /\ cap' = NewCapture(t)
  /\ UNCHANGED <<world, caches, parities, final, report>>

ReadCheckpoint ==
  /\ Reading("checkpoint")
  /\ checkpoint[cap.tier] # None
  /\ cap' = [cap EXCEPT !.at = "start", !.before = checkpoint[cap.tier]]

StatStart ==
  /\ Reading("start")
  /\ file[cap.tier] # None
  /\ cap' = [cap EXCEPT !.at = "prefix", !.start = StartArtifact(cap.tier, cap.before)]

\* The copied cache is still there, whole, and its sidecar describes it.
ReadPrefix ==
  /\ Reading("prefix")
  /\ \/ cap.before.seed = None /\ cap' = [cap EXCEPT !.at = "process"]
     \/ /\ cap.before.seed # None /\ sidecar["100k"] # None
        /\ Bytes(file["100k"].rows) = cap.before.seed
        /\ sidecar["100k"].bytes = cap.before.seed
        /\ sidecar["100k"].model = cap.gguf.content
        /\ cap' = [cap EXCEPT !.at = "process",
                     !.prefix = [bytes |-> cap.before.seed, time |-> PrefixStart]]

\* /health and /props answer, and the process table names one listener.
Listens == server # None

\* Without --require-process-proof and --expected-pid the process table may
\* tell nothing; the capture goes on without a process.
ProbeBefore ==
  /\ Reading("process")
  /\ Listens
  /\ \E proof_requested, found \in BOOLEAN :
       /\ proof_requested => found
       /\ cap' = [cap EXCEPT !.at = "artifact", !.process = IF found THEN server ELSE None]

\* /health and /props again, then the model file; props name only its path.
Rehash ==
  /\ Reading("artifact")
  /\ Listens
  /\ cap' = [cap EXCEPT !.at = "process2", !.gguf2 = gguf]

\* A process that was found is looked up again.  rows is history: what the
\* artifact held by then.
ProbeAfter ==
  /\ Reading("process2")
  /\ cap.process # None => Listens
  /\ cap' = [cap EXCEPT !.at = "again",
                        !.process2 = IF cap.process = None THEN None ELSE server,
                        !.rows = IF file[cap.tier] = None THEN << >> ELSE file[cap.tier].rows]

\* _checkpoint_stable leaves out created_at, updated_at and the progress.
SameCheckpoint(before, after) ==
  /\ after.seed = before.seed /\ after.model = before.model
  /\ after.rows >= before.rows

\* Mutant of StartedBefore: the checkpoint's last update is all that counts.
StartedBeforeUpdate(c) == c.process.started < c.before.updated

\* The server is older than the cache, than what the cache was seeded from and
\* than the update that was read.
StartedBefore(c) ==
  /\ c.process.started < c.start.time
  /\ c.prefix # None => c.process.started < c.prefix.time
  /\ c.process.started < c.before.updated

\* Mutant of Untouched: the time the model file was written is not compared.
UntouchedMeanwhile(c) == c.gguf2 = c.gguf

\* The model file is the same before and after, and older than a known process.
Untouched(c) ==
  /\ c.gguf2 = c.gguf
  /\ c.process # None => c.gguf.mtime <= c.process.started

\* identity_sha256: pid, start time, command and executable.
Identity(process) == process.started

SameProcess(c) == Identity(c.process2) = Identity(c.process)

\* Every comparison of capture_attestation, _validate_checkpoint among them.
Proven(c) ==
  LET t == c.tier IN
  /\ checkpoint[t] # None
  /\ SameCheckpoint(c.before, checkpoint[t])
  /\ c.before.model = c.gguf.content
  /\ StartArtifact(t, checkpoint[t]) = c.start
  /\ c.process # None => SameProcess(c) /\ StartedBefore(c)
  /\ Untouched(c)

\* A report without a process says that its proof is "unavailable".
Capture ==
  /\ cap # None /\ cap.at = "again"
  /\ Proven(cap)
  /\ report' = [tier |-> cap.tier, gguf |-> cap.gguf, prefix |-> cap.prefix,
                born |-> cap.start.born, process |-> cap.process, rows |-> cap.rows]
  /\ cap' = None
  /\ UNCHANGED <<world, caches, parities, final>>

\* A comparison fails, a file or a process is missing, or the run is killed.
Abandon ==
  /\ cap # None
  /\ cap' = None
  /\ UNCHANGED <<world, caches, parities, final, report>>

-----------------------------------------------------------------------------
(***************************************************************************)
(* validate_embedding_parity.py.  finalize refuses a report that is not     *)
(* newer than the capture, so the runs that follow the capture are modelled.*)
(***************************************************************************)

\* The cache, its sidecar and the model file are read; the model declared by
\* the sidecar is the model file.
ParityInputs(t, wanted) ==
  /\ report # None /\ check = None
  /\ sidecar[t] # None /\ file[t] # None
  /\ sidecar[t].bytes = Bytes(file[t].rows)
  /\ sidecar[t].model = gguf.content
  /\ SampleAccepted(Count[t], wanted, Size, Truncated)
  /\ check' = [tier |-> t, bytes |-> Bytes(file[t].rows), born |-> file[t].born,
               gguf |-> gguf, sample |-> Sample(Count[t], wanted, Size),
               wanted |-> wanted]
  /\ UNCHANGED <<world, caches, captures, native, parity, final>>

\* What input_hash tells apart.
InputHash == [check EXCEPT !.gguf = @.content, !.born = None]

\* Else leann bench loads the model file that is there now.  Vectors an earlier
\* run computed for the same inputs are used again.
NativeRun ==
  /\ check # None
  /\ \A n \in native : n.of # InputHash
  /\ native' = native \cup {[of |-> InputHash, model |-> gguf.content,
                             steady |-> gguf = check.gguf]}
  /\ UNCHANGED <<world, caches, captures, check, parity, final>>

\* Mutant of Alike: one row above the threshold is enough.
AlikeSome(vectors) == \E i \in check.sample : check.bytes[i + 1] = vectors

\* compare_embeddings: every sampled row, not their mean.
Alike(vectors) == \A i \in check.sample : check.bytes[i + 1] = vectors

ParityPasses ==
  /\ check # None
  /\ \E n \in native :
       /\ n.of = InputHash
       /\ Alike(n.model)
       /\ parity' = [tier |-> check.tier, bytes |-> check.bytes, born |-> check.born,
                     gguf |-> check.gguf.content, steady |-> n.steady]
  /\ check' = None
  /\ UNCHANGED <<world, caches, captures, native, final>>

ParityFails ==
  /\ check # None
  /\ check' = None
  /\ UNCHANGED <<world, caches, captures, native, parity, final>>

-----------------------------------------------------------------------------
\* The tier that was captured, or exactly the cache it was seeded from.
Bound ==
  \/ parity.tier = report.tier
  \/ /\ report.tier = "1m" /\ parity.tier = "100k"
     /\ report.prefix # None /\ report.prefix.bytes = parity.bytes

\* _validate_live_capture accepts a proof that is unavailable and was not required.
Finalize ==
  /\ report # None /\ parity # None
  /\ Bound
  /\ parity.gguf = report.gguf.content
  /\ final = None
  /\ final' = [capture |-> report, parity |-> parity]
  /\ UNCHANGED <<world, caches, captures, parities>>

-----------------------------------------------------------------------------
Operator ==
  \/ StartServer \/ StopServer \/ ReplaceModel
  \/ \E t \in Tiers : Delete(t)

Generation ==
  \/ BeginFromPrefix
  \/ \E t \in Tiers :
       BeginEmpty(t) \/ Answer(t) \/ Append_(t) \/ Publish(t) \/ Describe(t)

Attestation ==
  \/ \E t \in Tiers : HashArtifact(t)
  \/ ReadCheckpoint \/ StatStart \/ ReadPrefix \/ ProbeBefore \/ Rehash
  \/ ProbeAfter \/ Capture \/ Abandon \/ Finalize

Validation ==
  \/ \E t \in Tiers, w \in Wanted : ParityInputs(t, w)
  \/ NativeRun \/ ParityPasses \/ ParityFails

Next == Operator \/ Generation \/ Attestation \/ Validation

Spec == Init /\ [][Next]_vars

-----------------------------------------------------------------------------
(***************************************************************************)
(* Properties.                                                             *)
(***************************************************************************)
AttestationTypeOK ==
  /\ now \in Moments
  /\ gguf \in ModelFile
  /\ server \in Process \cup {None}
  /\ begun \in [Tiers -> Ticks \cup {None}]
  /\ \A t \in Tiers :
       /\ file[t] # None => /\ DOMAIN file[t].rows \subseteq 1 .. Count[t]
                            /\ \A i \in DOMAIN file[t].rows : file[t].rows[i] \in Row
       /\ checkpoint[t] # None => /\ file[t] # None
                                  /\ checkpoint[t].rows = Len(file[t].rows)
       /\ sidecar[t] # None => file[t] # None /\ file[t].published
       /\ begun[t] # None => checkpoint[t] # None
       /\ answer[t] # None =>
            /\ checkpoint[t].status = "running"
            /\ Len(file[t].rows) + Len(answer[t]) <= Count[t]
  /\ cap # None => cap.tier \in Tiers /\ cap.gguf \in ModelFile
  /\ report # None => report.process \in Process \cup {None}

\* The reports that say "verified": the collector takes no others
\* (scripts/collect_large_scale_results.py:1285-1293).
Verified(r) == r # None /\ r.process # None

\* capture_attestation, "server_started_before_checkpoint": whatever happened
\* between its reads, every row that the artifact held at the second probe was
\* computed by the attested process, and a copied row has the bytes of one that was.
RowsAttested ==
  Verified(report) =>
    \A i \in DOMAIN report.rows :
      \/ report.rows[i].by = report.process.started
      \/ /\ report.prefix # None /\ i <= Len(report.prefix.bytes)
         /\ report.rows[i].model = report.process.loaded

\* The report names the model the process really computes with, unless a file
\* was moved into place with the time of an older write (line 1284 compares
\* st_mtime): only the parity run tells such a file.
ModelIsLoaded ==
  Verified(report) /\ report.gguf.mtime = report.gguf.placed
    => report.process.loaded = report.gguf.content

\* finalize_attestation: together the two proofs hold for every captured row and
\* not for the sample only, even if the model file was moved: the vectors are
\* those of the named model.  A parity run of the smaller tier is joined by the
\* bytes of the seed, and then speaks for the captured rows of the larger one too.
\* (If every sample has the first row: see MCWanted and AttestationProofs.)  For a
\* capture's own tier the cache must still be the captured one (nothing compares
\* that), and the model file must not have changed between parity's hash of it and
\* its native run (and the state is well typed, which the run checks with it).
FinalizedExact ==
  /\ AttestationTypeOK
  /\ final # None /\ Verified(final.capture) /\ final.parity.steady =>
       LET c == final.capture IN
       /\ final.parity.tier = c.tier /\ final.parity.born = c.born =>
            \A i \in DOMAIN c.rows : c.rows[i].model = c.gguf.content
       /\ final.parity.tier # c.tier =>
            /\ \A i \in DOMAIN c.rows : c.rows[i].model = c.gguf.content
            /\ \A model \in Range(final.parity.bytes) \cup Range(c.prefix.bytes) :
                 model = c.gguf.content

\* The sample of select_document_sample against its declared algorithm: the union
\* of as many evenly spaced rows as were asked for, both ends among them, of as
\* many longest texts as were asked for, the earlier among equals, and of the
\* candidates that were named.
SampleAsDeclared ==
  check # None =>
    LET n == Count[check.tier]
        w == check.wanted
        R == 0 .. n - 1
    IN  \E spaced, longest \in SUBSET R :
          /\ check.sample = spaced \cup longest \cup w.truncated
          /\ Cardinality(spaced) = Min({w.spaced, n})
          /\ w.spaced > 1 => {0, n - 1} \subseteq spaced
          /\ Cardinality(longest) = Min({w.longest, n})
          /\ \A a \in longest, b \in R \ longest : Worse(b, a, Size)

\* docs/BENCHMARK_EVALUATION_PLAN.md:584-586: the capture proves the process that
\* started the generation and rejects any later one.
RejectsLaterProcess ==
  Verified(report) =>
    \A i \in DOMAIN report.rows : report.rows[i].by >= report.process.started
=============================================================================
