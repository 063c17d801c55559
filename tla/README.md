# Formal models of leann.cpp

TLA+ models of the parts of leann.cpp whose correctness depends on the order of
steps: what several processes, threads, failing calls and kills can do to an
artifact prefix, to a shared searcher and to the evidence of a benchmark; and of
the search itself, whose heaps, budgets and layers have to fit together. Paths are relative to the repository, line numbers are those of
the commit the models were written from.

## 1. The system

| Component | State it keeps | Operations | Hard part |
|---|---|---|---|
| Artifact publication (`src/index.cpp` Index::build, `src/artifact_publisher.cpp`, `src/build_lock.cpp`) | the files of a prefix: live pair, `.tmp.*`, `.bak.*`, two `.lock` directories with an `owner` descriptor | take locks, write and verify a temporary pair, publish it, roll back, clean up, unwind | concurrent builds, every call can fail, kill at any point, rollback that fails |
| Search sessions (`Index::load`, `DocumentStore::open`, `leann_searcher_*`, `leann search/stats/bench`) | a loaded index, one open document stream | load, open, validate, search, close | files are replaced between any two calls |
| `leann doctor` (`app/main.cpp` 2095-2456) | a report: pair valid, locks, leftovers | inspect, `--repair`, `--force-unlock` | acts on what it saw earlier |
| `leann build` around the publication (`app/main.cpp` 1832-1971) | cancellation flag, embedding cache | build, reload, report | work after the locks are back, second interrupt |
| C API (`src/c_api.cpp`) | searcher and result handles, per-thread last error, callback mutex | open, search, results, destroy | concurrent searches, failing or calling callback, half-made results |
| Document store (`src/document_store.cpp`) | offsets, checksums, one stream with its failbit under a mutex | write, open, read, read_many | concurrent readers, a failure left behind for the next one |
| Search (`src/index.cpp` 998-1276) | none after it returns: frontier, shortlist, batches | route, scan or beam, recompute, rank | equal distances, budgets and their boundaries, graphs that lead nowhere |
| Graph construction (`src/index.cpp` 466-664) | none after the build | export, hub pruning, reverse links, final cap, compact layers | links cut at each end for itself; layers must be nested |
| Product quantizer, checksums, embedders | codebooks, hash states | encode, distance, digest | numeric kernels |
| CLI files (`AtomicFileOutput`, `EmbeddingCacheEmbedder`) | temporary file, cursor in the cache | publish, embed, require_complete | partial failure, last row |
| Benchmark pipeline (`scripts/run_large_scale_benchmark.py`) | caches, ground truth, stage records with checkpoints | generate, resume, publish, repeat | crash between any two writes |
| Benchmark servers (`scripts/openai_embedding_proxy.py`, `cached_embedding_server.py`) | counters | count, reset, snapshot | handler threads and resets |
| Dataset preparation (`scripts/prepare_beir_nq_scale.py`) | a cached archive, staging directories, backups, one public directory | download, select, write, publish | overlapping runs, two renames, undoing, repeated texts |
| Endpoint attestation (`scripts/attest_embedding_endpoint.py`) | what a capture has read so far | capture, finalize | everything it reads changes between two reads |
| Embedding parity (`scripts/validate_embedding_parity.py`) | native vectors of earlier runs | sample, compute, compare | which rows stand for all; reuse |
| Evidence collection (`scripts/collect_large_scale_results.py`) | manifests, a report, a commit file | ingest, bind, pool, match, judge, write | which numbers may be joined; concurrent writers |

How they interact: builds, sessions and the doctor are separate processes that
share nothing but the directory. Builds exclude each other with two lock
directories (`create_directory` is the acquisition); sessions and the doctor take
no lock. A session recognises a usable prefix by the identity stored in both
files, a digest of the corpus; the index is renamed last and is the commit
marker. The doctor judges other processes' locks by their descriptors. Within a
process, threads share a searcher: its callback and its document stream have a
mutex each, everything else of a search is the thread's own. The
scripts run these commands and keep their own checkpoints: a data set is prepared,
its vectors are generated while a capture watches the server that computes them,
parity recomputes a sample, finalize joins both proofs, the orchestrated stages
measure, and the collector turns all of it into one report.

What would make each wrong, and where, is the list of `hazards` in
`PROJECT.json`.

## 2. Modules

| Module | Models |
|---|---|
| `Publication` | builds of one prefix, one action per file-system call |
| `ArtifactPair` | what publication promises a reader: the abstract specification |
| `Reader` | `Publication` and sessions that load, validate and search |
| `Doctor` | `Publication` and `leann doctor`, one action per look or removal |
| `IndexPrefix` | everything that shares one prefix: builds, sessions of `Reader` and a doctor of `Doctor` |
| `PublicationProofs` | theorems about `Publication` and, on top of those, `Reader`, `Doctor` and `IndexPrefix` |
| `CacheGeneration` | resumable generation of a vector cache with concurrent requests |
| `ResumableJob` | what a resumable job promises: the abstract specification |
| `CacheProofs` | theorems about `CacheGeneration` |
| `GroundTruth` | preparation of a benchmark: caches (one step each) and exact neighbours block by block |
| `Orchestration` | `GroundTruth` and the measured stages after it |
| `OrchestrationProofs` | theorems about both |
| `DatasetPreparation` | overlapping runs that select, stage and publish the nested tiers |
| `PreparationProofs` | theorems about `DatasetPreparation` |
| `EmbeddingParity` | the sample of a parity run, as pure operators |
| `EndpointAttestation` | captures, parity runs and finalization next to servers, model files and generated caches |
| `AttestationProofs` | theorems about `EndpointAttestation` |
| `EvidenceCollection` | the collector: from manifests to a report (operators), and the writing of it (actions) |
| `CollectionProofs` | theorems about `EvidenceCollection` |
| `GraphBuild` | from the exported graph to the stored one, and what load accepts, as pure operators |
| `Search` | one query against one index, heap operation by heap operation |
| `SearchProofs` | theorems about `Search` and `GraphBuild` |
| `CApi` | threads that share a searcher, its callback and its document stream |
| `CApiProofs` | theorems about `CApi` |
| `MC...` | small instances for TLC; `MCDoctorLoss`, `MCLaterProcess` and `MCGatePoints` are those of the disagreements of section 5 |

### Publication

A file's content is the *generation* that wrote it: a builder, or `Old` for the
files that were there before. `Partial` is a file still being written, `None` no
file. Two generations have the same identity when `CorpusOf` gives them the same
corpus, so "the two files match" (`Matches`) is what
`Index::validate_document_store` tests, not equality of generations. That is
weaker than "written by the same build", and deliberately so: DESIGN.md says two
builds of one corpus produce a cross that validates.

| State | Code |
|---|---|
| `dir` | the directory: `Live(k)`, `Tmp(b,k)`, `Bak(b,k)` for the index and the documents |
| `lock`, `owner` | the lock directories and the process their descriptor names |
| `held` | `BuildLocks::locks_` |
| `pc` | which call of `Index::build` or `publish_artifact_pair` comes next |
| `had`, `saved`, `rollbackError` | `had_index`/`had_documents`, `*_backed_up`, `rollback_error` non-empty |
| `outcome` | how the build returned or which message it threw |
| `swallowed` | a destructor met an error it cannot report |

`new_documents_installed` is not a variable: it is true exactly when the failing
rename is the last one, which `InstallFails` knows from `pc`. Renames are atomic
and replace their destination, as rename(2) does; removal of a missing file is no
error. Every rename, removal, lock creation and descriptor write may fail on its
own. `Cancel` is enabled at the checkpoints, `Fail` wherever a call or a callback
can throw. `Kill` is enabled between any two steps of a started build; it leaves
files and locks and forgets the memory of the process. A build runs once; a rerun
is another builder.

### Reader

A session reads the generation of the index at `LoadIndex` and of the documents
at `OpenDocuments`, because both keep the file they opened; later publications
do not change what it holds. `served` and `past` remember what a client was
told, for `NeverBack`.

### Doctor

`report`, `pairValid` and `leftovers` are taken in the order of `command_doctor`
and never refreshed. Leftovers are processed in the order of their paths. The
directory is scanned in one step. All processes are on one host, so a descriptor
is never of unknown origin; a recycled pid is allowed for (a dead owner may look
running). `regime` says whether the operator keeps builds and doctor apart
(`"stopped"`) or a build may run during the repair (`"racing"`).

### IndexPrefix

Sessions and the doctor share nothing but the files, and a step of one leaves the state of
the other alone. `PrefixNext` is a step of a build, of the doctor or of a session, so a
session may load while a repair removes, and answer after it.

### CacheGeneration

One process runs `generate_cache` at a time; it may be killed between any two of
its writes and in the middle of an append, and the next run may have other inputs.
A file is its header (`data`: source, model, role) and its rows; row `n` of `data`
is the vector of line `n`. A checksum is what it was computed from, so a checkpoint
holds the rows it commits to, and comparing a checksum is comparing those.

| State | Code |
|---|---|
| `partial`, `checkpoint`, `cache`, `sidecar` | `x.partial`, `x.checkpoint.json`, `x`, `x.meta.json` |
| `pc` | the next write of `generate_cache` |
| `digest` | `payload_digest`; its length is `completed` |
| `known` | `dimension is not None` |
| `pending`, `next`, `batch` | `pending` of `_iter_embedded_batches`, the position of `_iter_batches`, the pair it yielded last |

A worker thread may answer any pending request (`Answer`), but only the oldest is
consumed (`Yield`). A request fails for good once its retries are used up. The
source file does not change during a run. `Explicit` are the commands with
`--dimension`: `make_client` allows more than one request in flight only for them.
`Commit` of `ResumableJob` is refined by the write of a checkpoint, `Publish` by
`os.replace`.

### GroundTruth and Orchestration

`GroundTruth` is `prepare_shared`; `generate_ground_truth` has the same shape as
`generate_cache`, with blocks of queries instead of batches and without
concurrency. A block of truth records the caches and top-k it was computed from,
so that truth for other caches is told apart. `Orchestration` adds
`validate_shared_artifacts`, the manifest and `run_repeated_stage`. Artifacts are
abstracted to the number of the build that wrote them. `Foreign` compares the
inputs of a stage (model and top-k here; command lines, tool versions and endpoint
identities, which go into the same comparison, do not vary in the model).

Between two runs the operator may delete caches, truth, sidecars or an unfinished
job (`Discard`), and delete, rebuild or put back the index (`Disturb`). `Disturb`
keeps out of one window, `Unguarded`: when a run was killed after the last
observation of a stage was recorded and before the stage was marked complete, the
rerun marks it complete without comparing artifacts, so an index replaced just then
is searched under the name of the one whose build was recorded. That is a limit of
the tool; `OneIndexMeasured` holds for operators who do not replace an index after
an interrupted run.

### DatasetPreparation

| State | Code |
|---|---|
| `archive`, `temp` | the cached archive and the `.download-` file of a run |
| `staged` | the `mkdtemp` directory: files, then the manifest |
| `output`, `backup` | the public directory and the `.backup-` directory of a run |
| `previous` | `had_previous` of `publish_directory` |
| `chosen` | the tier column of the run's database |

The selection is computed as the code does it, filler by filler over the rank order
(`Candidate`); a sorted list is given by the place of each element, the number of those
`Before` it (`Ordered`). A document is a number, its text after normalisation and truncation
the least document with that text, so that only equality of texts counts. Every call
may fail (`Fail` before the publication, `ParkFails`, `InstallFails`, the second
disjuncts of `Restore`, `Discard` and `Cleanup` within it), and a run may be killed
anywhere. The staged files are written in one step, since nobody else knows their
name. All runs expect the same MD5: two runs with different `--expected-md5` on one cached
archive, where one replaces what the other has verified and not yet opened again, are not
modelled.

### EndpointAttestation and EmbeddingParity

Three actors share files and a port: an operator who starts and stops servers,
replaces the model file and deletes caches; the generation of the 100k cache and of
the 1m cache, which may be seeded with the rows of the former; and a capture, one
action per read, in the order of `capture_attestation`. A row remembers who computed
it (`by`, the start of the process, and `model`); this is history that no guard of a
capture reads: bytes are models (`Bytes`). Events have distinct ticks, which is what
makes the code's strict comparisons of start times meaningful. `Proven` is the
conjunction of all comparisons, made where the report is written, because none of
them has an effect before. Parity runs follow the capture (finalize refuses older
ones); they read vectors first and load the model later, and reuse what an earlier
run computed for the same `InputHash`.

The model is given `--dimension` (without it the partial file is created after the
first answer, run_large_scale_benchmark.py:520), one process per port, source files
that do not change, and one capture at a time, since captures write nothing that
another reads.

`ProbeBefore` may find no process when neither `--require-process-proof` nor
`--expected-pid` was given; the report then says that its process proof is `unavailable`
(`process` is `None`), and `finalize` accepts it, as `_validate_live_capture` does. The
collector refuses it later (collect_large_scale_results.py:1285-1293). The properties
speak of reports with a verified process (`Verified`), of the others nothing is promised.
The start of the generation is what `_checkpoint_start_artifact` finds with the checkpoint
that was read: the birth time of the file, else that checkpoint's `created_at`.

### EvidenceCollection

A manifest with its stage files is a record; `Manifests` is the file system, and a
path stands for the digest of what is there. `Ingestible`, `CrossSource`,
`TierPrefix`, `ReuseHonest`, `Poolable` and `OneStorage` are what makes the collector
raise; the `...Issues` operators are what it records; `Collect` joins them in its
order of decision. Recall is kept as hits among `TopK`. A manifest and each of its stages may be
`complete` or not, apart from being there (`manifest-incomplete`, `stage-incomplete`,
`missing-stage-file`). The setting of a native point is its `ef_search` and the recompute
batch of its run, so two batches of one `ef_search` are two points; what a sweep requires
is the `ef_search` alone (`Setting`). A matched pair without candidates makes the collector
raise (`RatiosDefined`); latencies, of which the same is asked, are left out. A report
records which tiers had a parity report and an attestation. The state machine is
`write_outputs`: files named by the report's digest, then the commit file, then the
collector's own validation of whatever the commit names by then.

Collecting only reads, and evidence is assumed not to change meanwhile. Validators
of single documents (stage files field by field, parity, attestation and derivation
reports) are abstracted to the records that pass them.

### GraphBuild and Search

A node is the position of its chunk. hnswlib is not modelled: the graph it exports
is any record that is `Exported`. Embeddings are their distances, `gap` between
chunks and `approx` and `exact` to the query, numbers with ties; every sort in the
code is by distance and then by id, which is `Before`. `First` and `Sorted` stand
for `std::sort` and resize.

| State | Code |
|---|---|
| `routed`, `layer` | `entry` and `level` of the descent |
| `frontier`, `shortlist`, `visited` | the two heaps of (distance, id) and the bit set; sets here, as a node is pushed once |
| `current`, `next` | the node whose links the inner loop is at and its position, or the node of the scan |
| `candidates`, `ranked` | what is to be recomputed, and what was |
| `corpus` | history: what the index was built from |

`Hop`, `Descend`, `LoseRoute` are the rounds of the descent; `Enter` starts the scan
or the beam; `Expand` pops the frontier or stops, `VisitLink` is one round of the inner
loop; `Choose` cuts the shortlist to `ExactBudget`; `Recompute` is one batch. `Throw` is an
embedder or a chunk that fails. `Scans` and `Beam` are the code's integer and
ceiling computations with `rerank_ratio` as a fraction, so a ratio that a `double`
does not hold is rounded in the code and exact here.

The build makes no connectivity repair: what pruning and the export leave
unreachable stays so, and properties speak about what the stored links lead to.

### CApi

Threads of one application share a searcher. A search goes through the callback for
its query, reads a batch of chunks, calls back for them, and at last reads the
texts for its handle; which candidates it has is any sequence (`Search` says which).

| State | Code |
|---|---|
| `mutex` | `callback_mutex_` and `stream_mutex_` |
| `position`, `bad` | the get position and the failbit of `stream_` |
| `error`, `status`, `output` | the thread's `last_error_buffer`, what its call returned, its handle |
| `stack` | the local variables of the search |
| `fault` | history: what really happened to the call |

`LockStream`, `Seek`, `ReadBytes`, `Check` are the steps of `DocumentStore::read`, one for
each place where another thread could come in. The callback may call other entry
points of the library (`CallsBack`), fail, or return. `Returns` is the shape of the other
entry points. The application keeps to the header: no destruction during a search,
no search from inside the callback.

## 3. Runs

The instances of the artifact modules have a builder `b2` that brings a new corpus;
where there is a second one, `b1` rebuilds the corpus the prefix already holds, so that both
matching and non-matching crosses are possible. Initially any subset of the two
live files exists: the starting state after `rm`, after an interrupted build of
an older version, or none.

| Run | Instance | Shows |
|---|---|---|
| `publication` | 2 builders, fair | `MutualExclusion`, `LivePairMatches`, `PairNeverLost`, `OutcomeHonest`, `NoResidue`, `NotAllRefused`, and that `Publication` implements `ArtifactPair`; under fairness `LocksComeBack` |
| `prefix` | 2 builders, 1 session and a doctor; builds stopped while the doctor runs, or racing `--repair` | `AnswersFromOneCorpus`, `LoadsOnlyCommitted`, `NeverBack`; `RepairIsSafe`: no repair or unlock loses the pair in the first regime, and none mixes it in either |
| `doctor_loses_pair` | 1 builder, `--repair` | violation of `PairSurvives` (section 5) |
| `cache` | 3 commands, 7 rows in batches of 2, 3 requests in flight, 4 faults, fair | `CacheWhole`, `ReturnsItsOwn`, `WorkFinishes`, and that `CacheGeneration` implements `ResumableJob` |
| `orchestration` | 2 models, 2 top-k, 2 blocks, 3 stages, 2 faults | `ManifestHonest`, `OneIndexMeasured`, `MeasuredAgainstExact`, and `EvidenceKept`, the opposite of what the benchmark plan says (section 5) |
| `dataset` | 3 runs (download, archive, directory), 4 documents, every pattern of equal texts | `OutputWhole`, `SelectionExact`, `DatasetNeverLost` |
| `attestation` | 2 models, 2 servers, 1 replacement, 1 deletion, tiers of 1 and 3 rows, 8 ticks | `RowsAttested`, `ModelIsLoaded`, `FinalizedExact`, `SampleAsDeclared` |
| `attestation_later_process` | the same without birth times | violation of `RejectsLaterProcess` (section 5) |
| `collection` | 2,048 choices of 11 small manifests next to 3 large ones, 128 more with a gate in a combined role, a partial stage, another native batch and searches without candidates, every choice of proofs, and diagnostic command lines; 2 collectors | `CommitWhole`, `PointsAttributed`, `CompleteCoversMatrix` |
| `gate_points` | a gate that is also the official cached sweep, next to complete runs | violation of `GateStaysOut` (section 5) |
| `search` | 108 queries, 9 configurations, 6 chunks; 6 exported graphs and 1 index of other origin | `ShortlistIsBest`, `LocallyBest`, `AnswerIsReference`, `RouteNeverLost`, `OneWayOnlyWhenFull`; under fairness `SearchEnds` |
| `c_api` | 2 threads, 2 searches between them, 3 chunks of which 1 is damaged, batches of 1 | `Exclusive`, `FailureIsItsOwn`, `WholeOrNothing`; under fairness `CallsReturn` |

Type invariants are checked as a conjunct of a property (`CacheWhole`,
`ManifestHonest`, `SelectionExact`, `FinalizedExact`, `RepairIsSafe`, `Exclusive`) or proved
(`TypeCorrect` of `PublicationProofs`, `CollectionProofs` and `SearchProofs`;
`ReaderTypeOK` is part of `ReaderInv`).

Why these bounds are enough to meet the hazards: two builders already race for
both locks, meet each other's stale locks and backups, and publish one after the
other, so a session can see three generations; a third builder adds no new kind of
neighbour, since a build only ever reads its own temporaries and backups, the
live pair and the locks. The theorems of section 4 remove the bound for the
properties they prove. One session suffices because sessions write nothing. The doctor can run any number
of times. `prefix` has the constraint `Followed`, which cuts behaviours off. It follows no error met by a destructor further, which leaves the same
files as a kill at that point (`publication` does follow it). With builds stopped, where
the question is what a repair or an unlock may remove between and after two builds, it
follows no session, and an unlock only as long as a build is still to come, since it
removes no file of a pair. With builds racing, sessions run next to both builds; a doctor
that has begun is followed next to one of them, before the first session and without
`--force-unlock`, and sessions after it, because the doctor removes whatever it listed
whoever wrote it, and what forced unlocking does to running builds is a known limit
(section 5). What the constraint cuts off, the theorems of section 4 cover, up to their
conditions.

Seven rows in batches of two make four requests, more than the window of three, and
a last batch that is not full; the batches of the seeded command start after its
prefix of two rows. Four faults let a job be
torn, resumed, torn again and killed between publication and sidecar. The three
commands are two with the same vectors, so that one can take over what the other
published but not its checkpoint, and one of another model. In `orchestration` two
blocks are the least with a committed and a torn one; warmups and measurements are
counted together (two build and search commands, one `stats`), since they are
treated alike; each fault is a kill, a failing command, a deletion or a
replacement.

`dataset`: three runs are the least with one that removes its backup, one that has
parked the other's result and one that looks in between; their options differ in
seed, queries, sizes and source. Four documents hold a positive, a filler with the
text of a positive, and two fillers with equal text and equal rank. In
`attestation` two servers are the one that computed the rows and a later one, one
replaced model file can be moved or written, one deletion begins a generation
anew behind a capture's back; eight ticks let each of these fall between any two
reads. One row in the small tier and two more in the large one are the least with a
copied and a computed row. `MCFollowed` follows a capture that found no process only with
one server, one model and no deletion, as nothing is stated of its report. `collection` has
for the small tier complete, partial, weak, gate, stale, reused and rebuilt runs, of which
any subset may be given; the second choice has what the first leaves out.

`search`: six chunks, two of them equal, with a degree of at most four let a node
overflow its list (the star), lose links at one end (the chain), fall apart (the
parts) and lead one way. Three layers are the least with a layer that is neither
first nor last. The queries have different orders of the nodes, without ties, with
few and with many; the configurations have beams of one, two, three, four and six
nodes, the scan limit on both sides of the size, one batch and several, a last batch
that is not full, and two that are refused. The one index of other origin passes
load with layers that are not nested, so that `LoseRoute` is reached. `c_api`: two threads are enough for one to
meet the stream or the error the other left; two searches in all let a failed one be
followed by a healthy one of the same or of the other thread.

Fairness: `FairSpec` of `Publication` asks weak fairness of `Run(b)`, the steps of a started build
except `Start` and `Kill`. It is a single-threaded program whose calls return, and
it never waits for another process (a lock that exists is an error, not a wait).
Nothing makes an operator start a build, so `Start` has no fairness, and `Kill`
has none either.

`FairSpec` of `CacheGeneration` asks weak fairness of the steps of a running process
(calls return, and a request ends within its timeout and retries) and strong
fairness of each `Begin(i)`: the operator reruns every command again and again, as
docs/BENCHMARK_EVALUATION_PLAN.md:756 asks. Faults are bounded, so a run eventually
gets through. `WorkFinishes` starts from a checkpoint, because before it the work can
be stuck (section 5). `Spec` of `Search` asks weak fairness of `Next`: it is one
call on one thread, and what could keep it from ending is its own loops. `CApi` asks
weak fairness of `Work(t)` for each thread, the steps of a call that goes on: threads are
scheduled, the application's callback returns, and a failure is never forced. That a
thread waiting for a mutex gets it in the end is certain for a bounded number of
searches only; `std::mutex` itself promises no order among those that wait. The evidence modules state no liveness: a run that is killed
or refused is simply not repeated.

Deadlock is checked except in `attestation` and `collection`, where the bounds on
ticks and the end of all collectors stop the system (a search that has ended
stutters, and the application of `c_api` may always look at a handle or reopen). `Terminating` and `Done` are
the stuttering of a system whose processes have all returned or been killed.

## 4. Proofs

Every proof of a property goes the same way: an inductive invariant, checked by TLC on
the instance of the run first, with one step for each action. What the invariant says
more than the property is what the code knows at that point without saying so. These
invariants stand at the end of the modules they are about.

| Theorems | Invariant | For every value of | Assumptions |
|---|---|---|---|
| `PublicationProofs` | `IInv`, `IReader`, `IDoctor` | `Builders`, `CorpusOf`, `Readers`, `Options`, `Regimes` | `Distinct`, `OptionsAssumption`, `RegimesAssumption` |
| `CacheProofs` | `CacheInv` | inputs, rows, batch, window, prefixes, faults | `CacheAssumption` |
| `OrchestrationProofs` | `OrchestrationInv` | stages, repetitions, inputs, blocks, faults | `TruthAssumption`, `PlanAssumption` |
| `PreparationProofs` | `IInv`, `SelectionInv` | runs, sources, ranks, options | `PreparationAssumption`, `MarksAssumption` |
| `AttestationProofs` | `IInv`, `Values`, `Attested`, `SampleKnown` | rows, servers, replacements, deletions, samples | those of `EndpointAttestation`; `BirthTime`, `FirstRowSampled` where said |
| `CollectionProofs` | `IInv` | collectors, manifests, command lines | `CollectionAssumption`, `ManifestsAssumption` |
| `SearchProofs` | `IInv`, `AnswerOK` | graphs, distances, queries, configurations | `BuildAssumption`, `SearchAssumption` |
| `CApiProofs` | `CApiInv` | threads, chunks, damage, batch, searches | `CApiAssumption` |

### Publication, Reader and Doctor

The builds and the sessions need only that the special contents are not builders and differ
from each other (`Distinct`):

* `TypeCorrect`, `MutualExclusionHolds`, `LivePairHolds`: `Spec => []TypeOK`,
  `[]MutualExclusion`, `[]LivePairMatches`.
* `NoResidueHolds`, `NotAllRefusedHolds`: `Spec => []NoResidue`, `[]NotAllRefused`. The
  latter for a set of builders that is not empty; with none of them "somebody is not
  refused" is false.
* `PairNeverLostHolds`, `OutcomeHonestHolds`: the two action properties.
* `ArtifactPairImplemented`: `Spec => ImplementsArtifactPair`.
* `AnswersHold`: `PrefixSpec => []AnswersFromOneCorpus`, whatever the doctor does.
* `LoadsHold`, `NeverBackHolds`: `PrefixSpec /\ [](regime = "stopped")` implies
  `[]LoadsOnlyCommitted`, `[]NeverBack`: sessions run next to builds and next to the doctor,
  and the operator keeps the latter two apart. Next to a repair that races a build TLC
  checks both, on the instance of `prefix`.
* `RepairIsSafeHolds`: `PrefixSpec /\ []Unforced => RepairIsSafe`, where `Unforced` says
  that an operator who lets builds run next to the doctor does not add `--force-unlock`.
  The run leaves the same behaviours out (`Followed`); with them the property is false
  (section 5, known limits).

`MutualExclusion` alone is not inductive: it does not say which locks a build
holds at each point nor that a held lock is its own; `LocksHeld` does, and
implies it (`Exclusion`). `LivePairMatches` alone is not either: when the rollback
puts the old index back, nothing in it says that the documents next to it belong
to it. `PairInv` adds what a transaction knows at each point (`Transaction`): the
index has left its public name before the documents change, the index in the
backup and the documents that are or will be live again are of one build, and a rollback
error is remembered until the decision about the index. `FilesComplete` says that
temporaries are complete before they are renamed. All of this speaks of the files that
are there (`OfOneBuild`), so that it stays true when a doctor removes some of them.

`Residue` says of each file a build may leave who accounts for it (`Accounted`): its own
program counter, `saved`, its message, a destructor, or that it was killed. `Contention`
says that whoever made the index lock is refused by nobody, and whoever made the
documents lock only by the former, so that of all builds one goes on.

`Protocol` relates what a transaction found (`had`), what it moved (`saved`) and what is
public (`Probed`, `Replaced`, `RolledBack`): `PairNeverLost` and `OutcomeHonest` look at
the step in which a build decides, and are true because of what it did several calls
before. `DocsPlaced` and `IndexesCommitted` say which builds the public files and the
backups can be of: the documents of a build that is at work are in no backup but after
its end, and an index under the public name or in a backup is of a build that
committed. The second is what makes `LoadsOnlyCommitted` inductive, because a rollback
moves a backup to where it can be loaded. It needs no locks: only the commit installs an
index of the build itself, and an outcome never leaves `Committed` again, so even builds
that overlapped, after a forced unlock, would not make an uncommitted index loadable.

The argument: `Frame` shows that a step of one build leaves the memory,
temporaries and backups of every other build alone and moves live files only while
it is critical; with `Exclusion`, what a critical build knows about the live files
stays true while others move (`OthersKeep`). `FilesStep` and `OwnStep` go through
the actions for the build that moves.

For the refinement every step is a withdrawal, a commit, a return of what was withdrawn,
its abandonment, or a stutter of `ArtifactPair`. Each rename maps to one of these by what `PairInv` and
`Protocol` know at that call; the rest changes no public file. In `NeverBack`, `Superseded`
says that what a client had answers from is `Retired` once it has loaded another index:
not public, and in no backup that its build may still restore.

A doctor that builds run into may remove any temporary and any backup (`DoctorTouches`).
That keeps `PairInv`: a rename whose source is gone fails, and the build rolls back. It
does not keep `Residue`, `Protocol` and the rest, so `PairNeverLost` goes (section 5). When
the operator has stopped the builds, `IDoctor` keeps all of `IInv` (`StoppedInv`), because
what that says of an idle, finished or killed build needs no file to be there, and such a
build holds no lock in memory (`QuietHoldsNone`). What `pairValid` was computed from is
still on disk when a backup is removed. `Matches` compares corpora, while a complete pair
is two files of one build; that the public files are of one build whenever both are there
is part of `PairInv`, and closes the gap (`StoppedKeepsPair`).

### CacheGeneration

`CacheWholeHolds`, `ReturnsItsOwnHolds`: `[]CacheWhole`, `[]ReturnsItsOwn`;
`JobImplemented`: `Spec => ImplementsJob`, the refinement of `ResumableJob`.
`CacheAssumption` says that sizes are positive, a prefix is shorter than the cache, and `None` is no file.

`CacheWhole` says nothing of a file that is not published. `Requested` says the pending
requests ask for the rows after those yielded, each once and in order, whoever answers
first; `Follows` that the batch yielded continues what was hashed; `Written` that, once
the header is written, the partial file holds exactly the rows hashed and the checkpoint
is behind by at most the batch in hand; `Checkpointed` what a later process finds after
a kill: a checkpoint is a beginning of its own source, next to a file of the same source,
whatever was torn. From these every `Commit` and `Publish` of `ResumableJob` follows:
rows that are committed are those hashed before, and what is renamed is whole.

### GroundTruth and Orchestration

`ManifestHonestHolds`, `OneIndexMeasuredHolds`, `MeasuredAgainstExactHolds`: `Spec =>
[]...`; `EvidenceKeptHolds`: `Spec => EvidenceKept`, an action property. `PlanAssumption`
is what `stage_plan` and `run_repeated_stage` guarantee: there is a stage, each wants one
observation at least (run_large_scale_benchmark.py:1025), and no stage but the first
builds (1650-1657).

`TruthInv` is for the exact neighbours what `CacheInv` is for a cache (`Growing`,
`Resuming`, `Described`), with the caches added that they are of (`Bound`). Of the stages
`Behind` says that those before the present one are complete and of the inputs the
manifest names; `AtStage` that what has been observed and is not recorded is of the index
that is there; `Counted` that a failed stage is not yet full. `OneIndexMeasured` speaks of
complete manifests only, and needs `OneBuild`: from the first observation of any other
stage on, the build stage is complete and every observation is of the index it measured
last. That is where `Unguarded` enters: without the operator's discipline in that window
the invariant, and the property, are false.

### DatasetPreparation

`PreparationAssumption` says that a corpus is finite, the sizes asked for are integers and
a rank is a number; `MarksAssumption` that None, Other, Torn, Good and Bad are no data
sets, differ, and are not outcomes:

* `OutputIsWhole`: `Spec => []OutputWhole`.
* `DatasetIsNeverLost`: `Spec => DatasetNeverLost`, an action property.
* `SelectionExactHolds`: `Spec => []SelectionExact`.

`IInv` adds to `OutputWhole` what a run's staging directory is at each point
(`StagedKnown`), that an archive is only extracted after its comparison
(`ArchiveCompared`), what may be in a backup (`PublicWhole`), and `RemovalSafe`: while a
run removes its backup, a whole data set is public or in a backup that nobody removes.
The last is what makes `DatasetNeverLost` provable for overlapping runs: a run that
removes a backup has published, and though another run may since have parked what it
published, that run has it in its own backup (`KeptStays`).

`SelectionExact` is about an algorithm: one pass over the fillers in rank order, in which
a text that was taken before is skipped and a document is of the smallest tier that is not
full. `After` says in closed form what the pass has taken when it has looked at the first
n fillers: the positives, and the first fillers with each text among them, up to the size
of the tier. `CandidateStep` shows that `After` obeys the recursion of the fold, and
`LoopIs` that nothing else does. Induction is out of reach here, so `LoopIs` takes
a smallest set of places at which the fold and `After` would differ and removes its last
place. What makes the last place of a set of fillers the last filler is `PlaceFacts`: ranks
order the documents, ties by number, so that places and documents correspond one to one.
`ResultExact` then reads the property off the result of one run, and `SelectionInv` says that
whatever is public or in a backup is that result, of a run whose arguments were valid (`Origins`).

### EvidenceCollection

* `TypeCorrect`: `Spec => []CollectionTypeOK`, and `CommitsAreWhole`: `Spec => []CommitWhole`.
* `PointsAttributedHolds`: `Spec => []PointsAttributed`.
* `CompleteCoversMatrixHolds`: `Spec => []CompleteCoversMatrix`.

`CollectionAssumption` says what a command line is (finitely many manifests, known tiers) and
that thresholds are numbers. `ManifestsAssumption` says what the reading of a manifest
guarantees before any of it is pooled: a stage has one name, a native search is named by the
one ef it was asked for and every other kind has one stage
(collect_large_scale_results.py:1538, 2519-2561).

`IInv` adds that files written so far are there (`WrittenOnDisk`) and that a collector
takes its report once (`NoReportYet`). The other two theorems say what a report is worth and are
about what `Begin` computes, for every set of manifests. For `PointsAttributed`: when the
samples may be pooled, those under one key are of one stage of one manifest (`OneStage`), so they
correspond one to one to its repetitions (`GroupSize`), and the build of a point
is over the same data set and produced its index (`PointAttributed`). The theorem says that no point is of a
run that is *merely* a gate; that no point is of a gate at all is `GateStaysOut`, which is
false (section 5). For `CompleteCoversMatrix`: a complete report has
no issue (`NoIssues`), so no stage is partial and no proof is missing, every profile of a tier has its configurations
(`CompleteProfile`), of no more than one source, hence of exactly one run (`OneRun`), and
real points have their cached ones and form pairs (`NoMatchIssue`). The pair the code picks is
least in its order, and a finite set that is not empty has a least element (`BestPair`).

### EndpointAttestation

* `RowsAreAttested`: `BirthTime` implies `Spec => []RowsAttested`.
* `NamedModelIsLoaded`: `Spec => []ModelIsLoaded`, with birth times or without.
* `FinalizedExactHolds`: `BirthTime` and `FirstRowSampled` imply `Spec => []FinalizedExact`.
* `SampleAsDeclaredHolds`: `Spec => []SampleAsDeclared`, with no further condition.

Here the invariant says what *the server that listens* knows (`TierKnown`,
`LoadedKnown`): every row of a cache that is younger than it is its own or was copied
from the seed, and it has loaded any model file that is older than it. Each reading of a
capture takes over what is then known (`ProcessKnown`, `ModelKnown`, `CapturedKnown`); since later
servers, files and generations only come with later times (`WorldStep`,
`SameGeneration`), it stays true until the comparisons of `Proven` are made.
`RowsAttested` alone is not inductive, because the report is assembled from readings
made at different times. Without birth times `RowsAttested` is false, see section 5.

`FinalizedExact` joins the capture to a later parity run, which computes few rows again.
One of them is enough: `ReportKnown` says that all captured rows, and all rows they were
seeded from, are of the model of one process (`ProvenRows`), and `FirstRow` that the
sample has the first row. A validation of the captured generation sees the captured rows
(`SeesReport`), because a cache only grows while its birth stays the same (`FileGrows`,
`HeldBy`), and native vectors made while the model file was steady are of the file that
the validation names (`NativeKnown`), even if a later validation uses them again.
`FirstRowSampled` is needed: TLC finds `FinalizedExact` violated when a parity run
asks for no evenly spaced row (section 5, known limits). `Values` is what
`AttestationTypeOK` needs to be inductive: a checkpoint is next to a file and counts
its rows.

`SampleAsDeclared` gives the exact numbers of rows. The evenly spaced ones are no two alike
because neighbouring quotients differ (`DivApart`, `SpacedFacts`). The longest are found by one pass that keeps the longest texts seen so far
(`Passed`). `LongestOf` says what it has kept of a set of rows; `PassedComputes` shows it of
whatever satisfies the recursion, with a smallest set for which it fails in place of
induction, and `LongestExists` that something does. `SampleKnown` says that a running
validation holds the sample it was asked for. `FirstRowSampled`, which the theorem before
it needs, says that every run asks for an evenly spaced row.

### GraphBuild and Search

`SearchAssumption` says that a corpus is a graph as hnswlib exports it with distances, a
foreign index is one that load accepts, and configurations are numbers:

* `TypeCorrect`: `Spec => []SearchTypeOK`; `ShortlistHolds`: `Spec => []ShortlistIsBest`.
* `LocallyBestHolds`: `Spec => []LocallyBest`.
* `FindsReachableHolds`: `Spec => []FindsReachable`: with a beam as long as the index the
  shortlist holds everything the stored links lead to. This one is proved only.
* `RouteHolds`: `Spec => []RouteNeverLost`, where `BuiltAccepted` says that whatever is
  `Exported` is built into something `Acceptable`.
* `AnswerHolds`: `Spec => []AnswerIsReference`; `OneWayHolds`: `Spec => []OneWayOnlyWhenFull`.

`ShortlistIsBest` is inductive with the types (`OfferKeepsBest`: a push and, if that
was one too many, a pop keep the best). `LocallyBest` is not, because it speaks of the
moment the beam stops. `WalkOK` says what is true on the way: every node of the
shortlist is in the frontier, is the one whose links are being followed, or was
expanded, and an expanded node's links were visited (`LoopOK` for the one in
progress). When the nearest that waits is farther than the farthest kept, nothing of
the shortlist waits any more. `RouteOK` says the descent is on a layer, `PhaseOK`
what each phase leaves empty. That a finite set has a nearest and a farthest
node (`ExtremeExists`) is proved from the well-founded order of its subsets, as
induction over cardinality is out of reach.

`AnswerOK` carries the answer through the batches: what is still to be recomputed and
what has been are together the first of the shortlist, and a scan that is over has taken
every node. In a scan the first of the shortlist are the first of the whole corpus, because the
shortlist is the best of what was considered and the budget is within the beam
(`FirstOfBest`, `BeamCovers`: rounding up loses nothing). Everything about sorting and
cutting rests on `RankFacts`: ranks are a bijection between the nodes and the numbers
below their count, so a sorted list has every node once (`SortedFacts`) and a list that
was cut has exactly its cap, all of it nearer than what was cut (`FirstFacts`). With
the latter `OneWayHolds` is short: both ends of a link are `Linked` before the cap.

### CApi

`ExclusiveHolds`, `FailureIsItsOwnHolds`, `WholeOrNothingHolds`. `Exclusive` needs `LocksHeld`, which
also holds after calls that threw. `FailureIsItsOwn` says of a thread between two calls
that its message is its own; that no other thread's read is the cause is `StreamPlaced`:
while a thread reads, the stream stands where it put it, without a failbit of others.
`WholeOrNothing` needs `CopiedSoFar`: the texts copied are those of the first results, in
order, the rest is to be read.

### What is not proved

Every invariant and every action property of the passing runs is stated by a theorem.
`LocksComeBack`, `WorkFinishes`, `SearchEnds` and `CallsReturn` are liveness properties
under fairness and are only model-checked: ENABLED is out of the prover's reach. So are the
three disagreements of section 5 that are counterexamples on an instance.

## 5. What the models found

* **`--repair` can take the backups of a running build** (`doctor_loses_pair`). The
  locks are inspected once; a build that starts afterwards parks the live pair in
  `.bak.*`, the scan lists those files, the report says "no lock, valid pair", and
  the loop removes them. If the build then fails or is killed, no complete pair is
  on disk. docs/CLI.md:233 says nothing at all is removed while a lock is present.
  README.md:457 asks to stop all builders first; `prefix` shows in its regime
  `"stopped"` that this is sufficient, and in its regime `"racing"` that the repair
  makes no mixed pair public (`RepairIsSafe`).
* **On Linux a capture can attest a later process** (`attestation_later_process`). For a
  seeded cache the server must be older than the prefix cache; without birth times
  `attest_embedding_endpoint.py:943` takes the `created_at` of the prefix's sidecar,
  which is written after the last of its rows. A server that replaced the generating
  one in between passes. docs/BENCHMARK_EVALUATION_PLAN.md:584-586 says that any
  later process is rejected. The sidecar also records `generation.started_at`.
* **Points of a gate can enter a complete report** (`gate_points`). A gate that shares its
  run with official stages has the role `native-gate+official-cached-sweep`, which is
  declared legal, but both exclusions (collect_large_scale_results.py:3282 and 4464) compare
  the whole role with `native-gate`. Its native points and its native build are reported,
  while the comment at 3285-3287 says gate runs are not publication measurements and the
  warning at 4488-4489 that they are excluded from publication points and build evidence.
* **An interrupted stage goes on instead of restarting** (`orchestration`, `EvidenceKept`).
  docs/BENCHMARK_EVALUATION_PLAN.md:502-503 says that a rerun "reuses verified completed
  stages but restarts an interrupted stage", and 756-757 says it again. `run_repeated_stage`
  takes the observations of an interrupted stage from its state file
  (run_large_scale_benchmark.py:1045-1074) and runs only those that are missing (1105).
  `EvidenceKept` states what the code does: no observation is dropped, over kills, reruns
  and replacements. It holds, so what the plan says does not, and the repetitions of one
  stage may come from before and after a crash.

Known limits that no run shows, because they follow from reading one or two places of the
code:

* `--force-unlock` can remove the lock of a running build that has described itself:
  a lock that is inspected between `create_directory` and `write_lock_owner` is reported as
  `unknown` and not refused, and the removal acts on that report (main.cpp:2341-2349).
  docs/CLI.md:259 says it refuses when a lock names a running process.
* A kill between the creation of a partial file and its first checkpoint leaves a
  partial file alone, which every rerun refuses ("must exist together",
  run_large_scale_benchmark.py:442, 489, 531) until it is removed by hand; with a prefix cache the window
  contains the copying of all its vectors. Ground truth has the same window.
  `WorkFinishes` therefore starts from a checkpoint.
* A sidecar written by `_validate_existing_cache` (lines 300-313) omits `generation`, which
  attest_embedding_endpoint.py:934 requires; captures seeded with it are refused.
* A preparation that is killed between its two renames leaves nothing public; the
  next run does not look for the stranded backup. A failing removal of the backup is
  reported as a failure although the new data set is public.
* A manifest reached under two paths is pooled twice if its stage paths are absolute
  (collect_large_scale_results.py:4336-4340 compares paths). A native role combined with
  `official-real-search-reuse` and no reuse attestation passes line 3119. The
  commit of a concurrent collector makes the first one raise in its own validation
  (5226-5228) although both reports are whole.
* prepare_beir_scifact.py writes in place through a fixed `.tmp` name.
* `--evenly-spaced-documents 0` (validate_embedding_parity.py:472, accepted at line 55) may
  leave a sample without the rows that a cache shares with the capture: the sampled row
  of a cache that was still growing can be one appended after the capture, by another
  server. A capture whose model file was moved into place with an older time is then
  finalized, although its rows are of another model. The default is 16 and no script
  passes 0.

## 6. Roadmap

1. For liveness, the safety part of the argument as theorems: from each state some step is
   possible whose guard nobody else can take away, and each step lowers a measure.
2. Shorter proofs where two modules prove the same fact about finite sets (`MinimalSubset`).

## 7. Not modelled

* Bytes: file formats, checksums, quantisation, SHA-256, CRC32C, scores. A damaged
  file is one that does not load.
* Power loss: C++20 has no portable fsync and DESIGN.md makes no claim about it;
  a kill loses no completed file-system call.
* Windows, where rename does not replace an open file; symbolic links; two hosts
  sharing a file system.
* hnswlib, llama.cpp, the embedding endpoints and other external services.
* `leann build` after the publication: it looks at the public pair again like a session
  and may report another build's; nothing is promised of that. `AtomicFileOutput` and
  the embedding cache's cursor: one process, one file, one rename.
* The benchmark servers, whose counters reach no modelled component.
* Floating point: rounding of distances, NaN (refused before the search), and of the
  beam's length.
* Option parsing, progress, JSON and text output, timing loops of `bench`.
* The other benchmark scripts: `compare_official_leann.py`,
  `run_official_real_search_reuse.py`, `benchmark_cache.py`, `prepare_beir_scifact.py`.
* Attestation on one host: pid and start time identify a process, although start times
  have a resolution of a second on macOS; a cache that is copied or restored gets a new
  birth time; rows appended after the capture may come from another server, since only
  rows of the second probe are attested; a same-tier finalization is not bound to the
  captured file, which `FinalizedExact` says.
* Evidence that changes while it is collected: a manifest is parsed and hashed in two
  reads. An issue recorded for the tier `all` blocks no completeness record.
