-------------------------- MODULE AttestationProofs --------------------------
(***************************************************************************)
(* Theorems about captures of EndpointAttestation, for any number of rows,  *)
(* models, servers, replacements and deletions.                             *)
(***************************************************************************)
EXTENDS EndpointAttestation, FiniteSetTheorems, WellFoundedInduction, TLAPS

CapFields == {"tier", "at", "gguf", "before", "start", "prefix", "process", "gguf2",
              "process2", "rows"}

-----------------------------------------------------------------------------
(***************************************************************************)
(* The invariant.                                                           *)
(***************************************************************************)
FileShape(t) ==
  /\ DOMAIN file[t] = {"born", "rows", "published"}
  /\ file[t].born \in Ticks /\ file[t].born <= now
  /\ file[t].rows \in Seq(Row) /\ Len(file[t].rows) <= Count[t]

CheckpointShape(t) ==
  DOMAIN checkpoint[t] = {"created", "updated", "rows", "seed", "model", "status"}

SidecarShape(t) ==
  sidecar[t] # None => sidecar[t].created \in Ticks /\ sidecar[t].created <= now

WorldShape ==
  /\ now \in 0 .. MaxTime
  /\ gguf \in [content : Models, mtime : Nat, placed : Nat] /\ gguf.placed <= now
  /\ server # None => /\ server.started \in Ticks /\ server.started <= now
                      /\ server.loaded \in Models

\* Rows in flight belong to the generation that runs and fit into its cache.
TierShape(t) ==
  /\ file[t] # None \/ checkpoint[t] # None \/ sidecar[t] # None => FileShape(t)
  /\ begun[t] # None => FileShape(t) /\ CheckpointShape(t)
  /\ begun[t] # None /\ file[t].published => checkpoint[t].status # "running"
  /\ answer[t] # None =>
       /\ begun[t] # None /\ checkpoint[t].status = "running"
       /\ answer[t] \in Seq(Row) /\ Len(answer[t]) > 0
       /\ Len(file[t].rows) + Len(answer[t]) <= Count[t]
  /\ SidecarShape(t)

CacheShape ==
  /\ DOMAIN begun = Tiers /\ DOMAIN answer = Tiers /\ DOMAIN file = Tiers
  /\ DOMAIN checkpoint = Tiers /\ DOMAIN sidecar = Tiers
  /\ \A t \in Tiers : TierShape(t)

\* A row the listening server computed.
By(s, row) == row.by = s.started /\ row.model = s.loaded

Copied(t, i, row) ==
  /\ checkpoint[t].seed # None
  /\ i <= Len(checkpoint[t].seed) /\ row.model = checkpoint[t].seed[i]

\* What a server knows of a cache that is younger than itself.
TierKnown(t) ==
  server # None /\ server.started < file[t].born =>
    /\ t = "100k" /\ (begun[t] # None \/ file[t] # None \/ sidecar[t] # None) =>
         \A i \in DOMAIN file[t].rows : By(server, file[t].rows[i])
    /\ begun[t] # None \/ checkpoint[t] # None =>
         \A i \in DOMAIN file[t].rows :
           By(server, file[t].rows[i]) \/ Copied(t, i, file[t].rows[i])
    /\ answer[t] # None => \A i \in DOMAIN answer[t] : By(server, answer[t][i])

RowsKnown == \A t \in Tiers : TierKnown(t)

\* A server that is younger than the model file has loaded it.
LoadedKnown ==
  server # None /\ gguf.placed <= server.started => server.loaded = gguf.content

Past(points) == cap # None /\ cap.at \in points
AfterStart   == {"prefix", "process", "artifact", "process2", "again"}
AfterPrefix  == {"process", "artifact", "process2", "again"}
AfterProcess == {"artifact", "process2", "again"}
AfterModel   == {"process2", "again"}

CapShape ==
  cap # None =>
    /\ DOMAIN cap = CapFields /\ cap.tier \in Tiers
    /\ cap.at \in AfterStart \cup {"checkpoint", "start"}
    /\ cap.at \notin AfterPrefix => cap.prefix = None

\* The tier's artifact is as old as the capture read.
StartKnown ==
  Past(AfterStart) =>
    /\ cap.start.born <= now /\ cap.start.born \in Ticks
    /\ BirthTime => cap.start.time = cap.start.born

\* A server that is older than the prefix cache computed all of it.
PrefixKnown ==
  Past(AfterPrefix) =>
    \/ cap.before.seed = None /\ cap.prefix = None
    \/ /\ cap.prefix # None /\ cap.prefix.bytes = cap.before.seed
       /\ cap.prefix.time \in Ticks /\ cap.prefix.time <= now
       /\ \E n \in 0 .. Count["1m"] : cap.prefix.bytes \in [1 .. n -> Models]
       /\ BirthTime /\ server # None /\ server.started < cap.prefix.time =>
            \A j \in DOMAIN cap.prefix.bytes : cap.prefix.bytes[j] = server.loaded

\* The probed process, if the probe found it: no other ever has its start.
ProcessKnown ==
  Past(AfterProcess) /\ cap.process # None =>
    /\ cap.process.started \in Ticks /\ cap.process.started <= now
    /\ server # None /\ server.started = cap.process.started => server = cap.process
    /\ BirthTime /\ cap.prefix # None /\ cap.process.started < cap.prefix.time =>
         \A j \in DOMAIN cap.prefix.bytes : cap.prefix.bytes[j] = cap.process.loaded
    /\ gguf.placed <= cap.process.started => cap.process.loaded = gguf.content

\* The model file of the second reading.
ModelKnown ==
  Past(AfterModel) /\ cap.process # None =>
    (cap.gguf2.placed <= cap.process.started => cap.process.loaded = cap.gguf2.content)

\* The rows of the second probe, as long as their generation lasts.
CapturedKnown ==
  Past({"again"}) =>
    /\ cap.rows \in Seq(Row)
    /\ LET t == cap.tier IN
       cap.process # None /\ (begun[t] # None \/ checkpoint[t] # None)
         /\ file[t].born = cap.start.born /\ cap.process2.started < cap.start.born =>
         \A i \in DOMAIN cap.rows :
           By(cap.process2, cap.rows[i]) \/ Copied(t, i, cap.rows[i])

CapKnown == CapShape /\ StartKnown /\ PrefixKnown /\ ProcessKnown /\ ModelKnown
            /\ CapturedKnown

IInv == WorldShape /\ CacheShape /\ RowsKnown /\ LoadedKnown /\ CapKnown
        /\ (BirthTime => RowsAttested) /\ ModelIsLoaded

-----------------------------------------------------------------------------
LEMMA InitInv == Init => IInv
<1> SUFFICES ASSUME Init PROVE IInv
  OBVIOUS
<1> USE DEF Init
<1>1. WorldShape /\ LoadedKnown
  BY AttestationAssumption DEF WorldShape, LoadedKnown
<1>2. CacheShape /\ RowsKnown
  BY DEF CacheShape, TierShape, SidecarShape, RowsKnown, TierKnown
<1>3. CapKnown
  BY DEF CapKnown, CapShape, StartKnown, PrefixKnown, ProcessKnown, ModelKnown,
     CapturedKnown, Past
<1>4. RowsAttested /\ ModelIsLoaded
  BY DEF RowsAttested, ModelIsLoaded, Verified
<1>. QED
  BY <1>1, <1>2, <1>3, <1>4 DEF IInv

\* A batch has at least one row and no more than are missing.
LEMMA BatchFits ==
  ASSUME NEW m \in Nat, m > 0
  PROVE  Min({BatchSize, m}) \in 1 .. m
<1>1. BatchSize \in Nat \ {0}
  BY AttestationAssumption
<1>2. \E x \in {BatchSize, m} : \A y \in {BatchSize, m} : x <= y
  BY <1>1
<1>3. Min({BatchSize, m}) \in {BatchSize, m}
      /\ \A y \in {BatchSize, m} : Min({BatchSize, m}) <= y
  BY <1>2 DEF Min
<1>. QED
  BY <1>1, <1>3

-----------------------------------------------------------------------------
(***************************************************************************)
(* The world and the caches.                                                *)
(***************************************************************************)
LEMMA WorldKeeps ==
  ASSUME WorldShape, Next
  PROVE  WorldShape' /\ now' >= now
<1> USE AttestationAssumption DEF WorldShape, Ticks, Tick
<1>1. CASE StartServer
  BY <1>1 DEF StartServer
<1>2. CASE StopServer
  BY <1>2 DEF StopServer
<1>3. CASE ReplaceModel
  BY <1>3 DEF ReplaceModel
<1>4. CASE \E t \in Tiers : Delete(t)
  BY <1>4 DEF Delete
<1>5. CASE Generation
  <2>1. UNCHANGED <<gguf, server>> /\ (now' = now \/ (now < MaxTime /\ now' = now + 1))
    BY <1>5 DEF Generation, BeginFromPrefix, BeginEmpty, Begin, Answer, Append_, Publish,
       Describe, world
  <2>. QED
    BY <2>1
<1>6. CASE Attestation
  <2>1. UNCHANGED world
    BY <1>6 DEF Attestation, HashArtifact, Reading, ReadCheckpoint, StatStart, ReadPrefix,
       ProbeBefore, Rehash, ProbeAfter, Capture, Abandon, Finalize
  <2>. QED
    BY <2>1 DEF world
<1>7. CASE Validation
  BY <1>7 DEF Validation, ParityInputs, NativeRun, ParityPasses, ParityFails, world
<1>. QED
  BY <1>1, <1>2, <1>3, <1>4, <1>5, <1>6, <1>7 DEF Next, Operator

\* What does not touch a tier leaves what is known of it.
LEMMA TierFrame ==
  ASSUME NEW t \in Tiers, TierShape(t), TierKnown(t), WorldShape, now' >= now,
         now' \in 0 .. MaxTime, server' = server,
         begun'[t] = begun[t], answer'[t] = answer[t], file'[t] = file[t],
         checkpoint'[t] = checkpoint[t], sidecar'[t] = sidecar[t]
  PROVE  TierShape(t)' /\ TierKnown(t)'
<1>1. FileShape(t) => FileShape(t)'
  BY AttestationAssumption DEF FileShape, WorldShape, Ticks
<1>2. TierShape(t)'
  <2>1. SidecarShape(t)'
    BY AttestationAssumption DEF TierShape, SidecarShape, WorldShape, Ticks
  <2>. QED
    BY <1>1, <2>1 DEF TierShape, CheckpointShape
<1>3. TierKnown(t)'
  BY DEF TierKnown, By, Copied
<1>. QED
  BY <1>2, <1>3

\* A new server is younger than every cache.
LEMMA OperatorKeepsCaches ==
  ASSUME WorldShape, CacheShape, RowsKnown, Operator
  PROVE  CacheShape' /\ RowsKnown'
<1>1. now' >= now /\ now' \in 0 .. MaxTime
  BY WorldKeeps DEF Next, WorldShape
<1>2. CASE StartServer
  <2>1. UNCHANGED caches /\ server'.started = now + 1 /\ now' = now + 1
    BY <1>2 DEF StartServer, Tick
  <2>2. \A t \in Tiers : FileShape(t) => FileShape(t)'
    BY <1>1, <2>1, AttestationAssumption DEF FileShape, WorldShape, Ticks, caches
  <2>3. CacheShape'
    <3>1. \A t \in Tiers : SidecarShape(t)'
      BY <1>1, <2>1, AttestationAssumption DEF CacheShape, TierShape, SidecarShape,
         WorldShape, Ticks, caches
    <3>. QED
      BY <2>1, <2>2, <3>1 DEF CacheShape, TierShape, CheckpointShape, caches
  <2>4. ASSUME NEW t \in Tiers PROVE TierKnown(t)'
    <3>1. file[t] # None \/ checkpoint[t] # None \/ sidecar[t] # None \/ begun[t] # None
            \/ answer[t] # None
            => file[t].born <= now /\ file[t].born \in Ticks
      BY DEF CacheShape, TierShape, FileShape
    <3>2. ASSUME file[t].born <= now, file[t].born \in Ticks
          PROVE  ~(server'.started < file'[t].born)
      BY <2>1, <3>2 DEF WorldShape, Ticks, caches
    <3>. QED
      BY <2>1, <3>1, <3>2 DEF TierKnown, caches
  <2>. QED
    BY <2>3, <2>4 DEF RowsKnown
<1>3. CASE StopServer
  <2>1. UNCHANGED <<now, caches>> /\ server' = None
    BY <1>3 DEF StopServer
  <2>. QED
    BY <2>1 DEF CacheShape, TierShape, SidecarShape, FileShape, CheckpointShape, RowsKnown,
       TierKnown, caches
<1>4. CASE ReplaceModel
  <2>1. UNCHANGED <<server, caches>>
    BY <1>4 DEF ReplaceModel
  <2>2. \A t \in Tiers : TierShape(t)' /\ TierKnown(t)'
    BY <1>1, <2>1, TierFrame DEF CacheShape, RowsKnown, caches
  <2>. QED
    BY <2>1, <2>2 DEF CacheShape, RowsKnown, caches
<1>5. ASSUME NEW t \in Tiers, Delete(t) PROVE CacheShape' /\ RowsKnown'
  <2>1. /\ server' = server
        /\ begun'[t] = None /\ answer'[t] = None /\ file'[t] = None
        /\ checkpoint'[t] = None /\ sidecar'[t] = None
    BY <1>5 DEF Delete, CacheShape
  <2>2. \A u \in Tiers \ {t} : TierShape(u)' /\ TierKnown(u)'
    <3>. SUFFICES ASSUME NEW u \in Tiers \ {t} PROVE TierShape(u)' /\ TierKnown(u)'
      OBVIOUS
    <3>1. /\ begun'[u] = begun[u] /\ answer'[u] = answer[u] /\ file'[u] = file[u]
          /\ checkpoint'[u] = checkpoint[u] /\ sidecar'[u] = sidecar[u]
      BY <1>5 DEF Delete, CacheShape
    <3>. QED
      BY <1>1, <2>1, <3>1, TierFrame DEF CacheShape, RowsKnown
  <2>3. TierShape(t)' /\ TierKnown(t)'
    BY <2>1 DEF TierShape, SidecarShape, TierKnown
  <2>4. /\ DOMAIN begun' = Tiers /\ DOMAIN answer' = Tiers /\ DOMAIN file' = Tiers
        /\ DOMAIN checkpoint' = Tiers /\ DOMAIN sidecar' = Tiers
    BY <1>5 DEF Delete, CacheShape
  <2>. QED
    BY <2>2, <2>3, <2>4 DEF CacheShape, RowsKnown
<1>. QED
  BY <1>2, <1>3, <1>4, <1>5 DEF Operator

-----------------------------------------------------------------------------
\* A generation begins without rows in flight; copied rows have the seed's bytes.
LEMMA BeginKeeps ==
  ASSUME WorldShape, CacheShape, RowsKnown, now' >= now, now' \in 0 .. MaxTime,
         NEW t \in Tiers, NEW rows \in Seq(Row), NEW seed, Begin(t, rows, seed),
         Len(rows) <= Count[t],
         \/ rows = << >>
         \/ t = "1m" /\ seed # None /\ seed = Bytes(rows)
  PROVE  CacheShape' /\ RowsKnown'
<1> USE DEF CacheShape, RowsKnown
<1>1. /\ server' = server /\ now' = now + 1
      /\ begun[t] = None /\ begun'[t] = now' /\ answer'[t] = answer[t]
      /\ file'[t] = [born |-> now', rows |-> rows, published |-> FALSE]
      /\ checkpoint'[t].seed = seed /\ checkpoint'[t].status = "running"
      /\ CheckpointShape(t)'
  BY DEF Begin, Tick, NewCheckpoint, CheckpointShape
<1>2. /\ DOMAIN begun' = Tiers /\ DOMAIN answer' = Tiers /\ DOMAIN file' = Tiers
      /\ DOMAIN checkpoint' = Tiers /\ DOMAIN sidecar' = Tiers
  BY DEF Begin
<1>3. ASSUME NEW u \in Tiers \ {t} PROVE TierShape(u)' /\ TierKnown(u)'
  <2>1. /\ begun'[u] = begun[u] /\ answer'[u] = answer[u] /\ file'[u] = file[u]
        /\ checkpoint'[u] = checkpoint[u] /\ sidecar'[u] = sidecar[u]
    BY <1>3 DEF Begin
  <2>. QED
    BY <1>1, <1>3, <2>1, TierFrame
<1>4. answer'[t] = None
  BY <1>1 DEF TierShape
<1>5. FileShape(t)'
  BY <1>1, AttestationAssumption DEF FileShape, WorldShape, Ticks
<1>6. TierShape(t)'
  <2>1. SidecarShape(t)'
    BY AttestationAssumption DEF TierShape, SidecarShape, WorldShape, Ticks, Begin
  <2>. QED
    BY <1>1, <1>4, <1>5, <2>1 DEF TierShape
<1>7. TierKnown(t)'
  <2>1. CASE rows = << >>
    BY <1>1, <1>4, <2>1 DEF TierKnown
  <2>2. CASE t = "1m" /\ seed # None /\ seed = Bytes(rows)
    <3>1. \A i \in DOMAIN rows : i <= Len(seed) /\ rows[i].model = seed[i]
      BY <2>2 DEF Bytes
    <3>. QED
      BY <1>1, <1>4, <2>2, <3>1 DEF TierKnown, Copied
  <2>. QED
    BY <2>1, <2>2
<1>. QED
  BY <1>2, <1>3, <1>6, <1>7

LEMMA PrefixFits ==
  ASSUME WorldShape, CacheShape, BeginFromPrefix
  PROVE  LET rows == file["100k"].rows
         IN  rows \in Seq(Row) /\ Len(rows) <= Count["1m"] /\ Bytes(rows) # None
<1>1. FileShape("100k")
  BY DEF BeginFromPrefix, CacheShape, TierShape, Tiers
<1> DEFINE rows == file["100k"].rows
<1>2. rows \in Seq(Row) /\ Len(rows) \in 0 .. Count["1m"]
  BY <1>1, AttestationAssumption DEF FileShape, Tiers
<1>3. Bytes(rows) \in [1 .. Len(rows) -> Models]
  <2>1. DOMAIN rows = 1 .. Len(rows) /\ \A i \in DOMAIN rows : rows[i] \in Row
    BY <1>2
  <2>2. \A i \in 1 .. Len(rows) : rows[i].model \in Models
    BY <2>1 DEF Row
  <2>. QED
    BY <2>1, <2>2 DEF Bytes
<1>4. Bytes(rows) \in Vectors
  BY <1>2, <1>3 DEF Vectors
<1>. QED
  BY <1>2, <1>4, NoneAssumption

LEMMA AnswerKeeps ==
  ASSUME WorldShape, CacheShape, RowsKnown, now' = now, NEW t \in Tiers, Answer(t)
  PROVE  CacheShape' /\ RowsKnown'
<1> USE DEF CacheShape, RowsKnown
<1> DEFINE n == Min({BatchSize, Count[t] - Len(file[t].rows)})
           got == [i \in 1 .. n |-> [by |-> server.started, model |-> server.loaded]]
<1>1. /\ server' = server /\ server # None /\ begun[t] # None
      /\ checkpoint[t].status = "running" /\ Len(file[t].rows) < Count[t]
      /\ begun' = begun /\ file' = file /\ checkpoint' = checkpoint
      /\ sidecar' = sidecar /\ answer' = [answer EXCEPT ![t] = got]
  BY DEF Answer, world
<1>2. FileShape(t)
  BY <1>1 DEF TierShape
<1>3. n \in 1 .. (Count[t] - Len(file[t].rows))
  <2>1. Len(file[t].rows) \in Nat /\ Count[t] \in Nat
    BY <1>2, AttestationAssumption DEF FileShape
  <2>. QED
    BY <1>1, <2>1, BatchFits
<1>4. got \in Seq(Row) /\ Len(got) = n
  <2>1. n \in Nat
    BY <1>2, <1>3, AttestationAssumption DEF FileShape
  <2>2. [by |-> server.started, model |-> server.loaded] \in Row
    BY <1>1 DEF WorldShape, Row
  <2>. HIDE DEF n
  <2>3. got \in [1 .. n -> Row]
    BY <2>2
  <2>. QED
    BY <2>1, <2>3
<1>5. ASSUME NEW u \in Tiers \ {t} PROVE TierShape(u)' /\ TierKnown(u)'
  BY <1>1, <1>5, TierFrame DEF WorldShape
<1>6. TierShape(t)'
  <2>1. Len(file[t].rows) \in Nat /\ Count[t] \in Nat
    BY <1>2, AttestationAssumption DEF FileShape
  <2>2. answer'[t] = got
    BY <1>1
  <2>3. Len(got) > 0 /\ Len(file[t].rows) + Len(got) <= Count[t]
    BY <1>3, <1>4, <2>1
  <2>4. FileShape(t)' /\ (CheckpointShape(t) => CheckpointShape(t)')
    BY <1>1, <1>2 DEF FileShape, CheckpointShape
  <2>. QED
    BY <1>1, <1>4, <2>2, <2>3, <2>4 DEF TierShape, SidecarShape
<1>7. TierKnown(t)'
  <2>1. answer'[t] = got
    BY <1>1
  <2>2. \A i \in DOMAIN got : By(server, got[i])
    BY DEF By
  <2>3. \A i \in DOMAIN answer'[t] : By(server', answer'[t][i])
    BY <1>1, <2>1, <2>2
  <2>. QED
    BY <1>1, <2>3 DEF TierKnown, By, Copied
<1>8. DOMAIN answer' = Tiers
  BY <1>1
<1>. QED
  BY <1>1, <1>5, <1>6, <1>7, <1>8

LEMMA AppendKeeps ==
  ASSUME WorldShape, CacheShape, RowsKnown, now' >= now, now' \in 0 .. MaxTime,
         NEW t \in Tiers, Append_(t)
  PROVE  CacheShape' /\ RowsKnown'
<1> USE DEF CacheShape, RowsKnown
<1> DEFINE rows == file[t].rows
           more == answer[t]
<1>1. /\ server' = server /\ begun' = begun /\ sidecar' = sidecar
      /\ more # None /\ answer'[t] = None
      /\ DOMAIN begun' = Tiers /\ DOMAIN answer' = Tiers /\ DOMAIN file' = Tiers
      /\ DOMAIN checkpoint' = Tiers /\ DOMAIN sidecar' = Tiers
  BY DEF Append_
<1>2. /\ begun[t] # None /\ FileShape(t) /\ CheckpointShape(t)
      /\ rows \in Seq(Row) /\ more \in Seq(Row)
      /\ Len(rows) + Len(more) <= Count[t]
  BY <1>1 DEF TierShape, FileShape
<1>3. /\ DOMAIN file'[t] = DOMAIN file[t] /\ file'[t].born = file[t].born
      /\ file'[t].rows = rows \o more /\ file'[t].published = file[t].published
  BY <1>2 DEF Append_, FileShape
<1>4. /\ DOMAIN checkpoint'[t] = DOMAIN checkpoint[t]
      /\ checkpoint'[t].seed = checkpoint[t].seed
      /\ checkpoint'[t].status = checkpoint[t].status
  BY <1>2 DEF Append_, CheckpointShape
<1>5. ASSUME NEW u \in Tiers \ {t} PROVE TierShape(u)' /\ TierKnown(u)'
  <2>1. /\ begun'[u] = begun[u] /\ answer'[u] = answer[u] /\ file'[u] = file[u]
        /\ checkpoint'[u] = checkpoint[u] /\ sidecar'[u] = sidecar[u]
    BY <1>1, <1>5 DEF Append_
  <2>. QED
    BY <1>1, <1>5, <2>1, TierFrame
<1>6. FileShape(t)'
  <2>1. rows \o more \in Seq(Row) /\ Len(rows \o more) = Len(rows) + Len(more)
    BY <1>2
  <2>. QED
    BY <1>2, <1>3, <2>1, AttestationAssumption DEF FileShape, WorldShape, Ticks
<1>7. TierShape(t)'
  <2>1. SidecarShape(t)'
    BY <1>1, AttestationAssumption DEF TierShape, SidecarShape, WorldShape, Ticks
  <2>. QED
    BY <1>1, <1>2, <1>3, <1>4, <1>6, <2>1 DEF TierShape, CheckpointShape
<1>8. TierKnown(t)'
  <2>. SUFFICES ASSUME server # None, server.started < file[t].born
                PROVE  TierKnown(t)'
    BY <1>1, <1>3 DEF TierKnown
  <2>1. \A i \in DOMAIN more : By(server, more[i])
    BY <1>1 DEF TierKnown
  <2>2. t = "100k" => \A i \in DOMAIN rows : By(server, rows[i])
    BY <1>2 DEF TierKnown
  <2>3. \A i \in DOMAIN rows : By(server, rows[i]) \/ Copied(t, i, rows[i])
    BY <1>2 DEF TierKnown
  <2>4. \A i \in DOMAIN (rows \o more) :
          \/ i \in DOMAIN rows /\ (rows \o more)[i] = rows[i]
          \/ \E j \in DOMAIN more : (rows \o more)[i] = more[j]
    <3>. SUFFICES ASSUME NEW i \in DOMAIN (rows \o more), i \notin DOMAIN rows
                  PROVE  \E j \in DOMAIN more : (rows \o more)[i] = more[j]
      BY <1>2
    <3>1. i - Len(rows) \in DOMAIN more /\ (rows \o more)[i] = more[i - Len(rows)]
      BY <1>2
    <3>. QED
      BY <3>1
  <2>5. t = "100k" => \A i \in DOMAIN (rows \o more) : By(server, (rows \o more)[i])
    BY <2>1, <2>2, <2>4
  <2>6. \A i \in DOMAIN (rows \o more) :
          By(server, (rows \o more)[i]) \/ Copied(t, i, (rows \o more)[i])
    BY <2>1, <2>3, <2>4
  <2>. HIDE DEF rows, more
  <2>. QED
    BY <1>1, <1>3, <1>4, <2>5, <2>6 DEF TierKnown, By, Copied
<1>. QED
  BY <1>1, <1>5, <1>7, <1>8

LEMMA PublishKeeps ==
  ASSUME WorldShape, CacheShape, RowsKnown, now' = now, NEW t \in Tiers, Publish(t)
  PROVE  CacheShape' /\ RowsKnown'
<1> USE DEF CacheShape, RowsKnown
<1>1. /\ server' = server /\ begun' = begun /\ sidecar' = sidecar /\ answer' = answer
      /\ DOMAIN file' = Tiers /\ DOMAIN checkpoint' = Tiers
      /\ begun[t] # None /\ Len(file[t].rows) = Count[t]
  BY DEF Publish, world
<1>2. FileShape(t) /\ CheckpointShape(t)
  BY <1>1 DEF TierShape
<1>3. /\ DOMAIN file'[t] = DOMAIN file[t] /\ file'[t].born = file[t].born
      /\ file'[t].rows = file[t].rows
  BY <1>2 DEF Publish, FileShape
<1>4. /\ DOMAIN checkpoint'[t] = DOMAIN checkpoint[t]
      /\ checkpoint'[t].seed = checkpoint[t].seed
      /\ checkpoint'[t].status = "ready-to-publish"
  BY <1>2 DEF Publish, CheckpointShape
<1>5. answer[t] = None
  BY <1>1, <1>2, AttestationAssumption DEF TierShape, FileShape
<1>6. ASSUME NEW u \in Tiers \ {t} PROVE TierShape(u)' /\ TierKnown(u)'
  <2>1. file'[u] = file[u] /\ checkpoint'[u] = checkpoint[u]
    BY <1>6 DEF Publish
  <2>. QED
    BY <1>1, <1>6, <2>1, TierFrame DEF WorldShape
<1>7. FileShape(t)'
  BY <1>2, <1>3 DEF FileShape
<1>8. TierShape(t)'
  BY <1>1, <1>2, <1>4, <1>5, <1>7 DEF TierShape, SidecarShape, CheckpointShape
<1>9. TierKnown(t)'
  BY <1>1, <1>3, <1>4, <1>5 DEF TierKnown, By, Copied
<1>. QED
  BY <1>1, <1>6, <1>8, <1>9

LEMMA DescribeKeeps ==
  ASSUME WorldShape, CacheShape, RowsKnown, now' = now, NEW t \in Tiers, Describe(t)
  PROVE  CacheShape' /\ RowsKnown'
<1> USE DEF CacheShape, RowsKnown
<1>1. /\ server' = server /\ file' = file /\ answer' = answer
      /\ DOMAIN begun' = Tiers /\ DOMAIN sidecar' = Tiers /\ DOMAIN checkpoint' = Tiers
      /\ begun[t] # None /\ begun'[t] = None /\ checkpoint'[t] = None
      /\ file[t].published
  BY DEF Describe, world
<1>2. FileShape(t)' /\ answer[t] = None
  BY <1>1 DEF TierShape, FileShape
<1>3. ASSUME NEW u \in Tiers \ {t} PROVE TierShape(u)' /\ TierKnown(u)'
  <2>1. begun'[u] = begun[u] /\ checkpoint'[u] = checkpoint[u] /\ sidecar'[u] = sidecar[u]
    BY <1>3 DEF Describe
  <2>. QED
    BY <1>1, <1>3, <2>1, TierFrame DEF WorldShape
<1>4. TierShape(t)' /\ TierKnown(t)'
  <2>1. sidecar'[t].created = now /\ FileShape(t)
    BY <1>1 DEF Describe, TierShape
  <2>2. SidecarShape(t)'
    BY <2>1, AttestationAssumption DEF SidecarShape, FileShape, WorldShape, Ticks
  <2>. QED
    BY <1>1, <1>2, <2>2 DEF TierShape, TierKnown, By
<1>. QED
  BY <1>1, <1>3, <1>4

LEMMA CachesKeep ==
  ASSUME WorldShape, CacheShape, RowsKnown, Next
  PROVE  CacheShape' /\ RowsKnown'
<1>1. now' >= now /\ now' \in 0 .. MaxTime
  BY WorldKeeps DEF WorldShape
<1>2. CASE Operator
  BY <1>2, OperatorKeepsCaches
<1>3. CASE BeginFromPrefix
  BY <1>1, <1>3, PrefixFits, BeginKeeps DEF BeginFromPrefix, Tiers
<1>4. ASSUME NEW t \in Tiers, BeginEmpty(t) PROVE CacheShape' /\ RowsKnown'
  <2>1. << >> \in Seq(Row) /\ Len(<< >>) <= Count[t]
    BY AttestationAssumption
  <2>. QED
    BY <1>1, <1>4, <2>1, BeginKeeps DEF BeginEmpty
<1>5. ASSUME NEW t \in Tiers, Answer(t) \/ Append_(t) \/ Publish(t) \/ Describe(t)
      PROVE  CacheShape' /\ RowsKnown'
  BY <1>1, <1>5, AnswerKeeps, AppendKeeps, PublishKeeps, DescribeKeeps
     DEF Answer, Publish, Describe, world
<1>6. CASE Attestation \/ Validation
  <2>1. UNCHANGED <<world, caches>>
    BY <1>6 DEF Attestation, HashArtifact, Reading, ReadCheckpoint, StatStart, ReadPrefix,
       ProbeBefore, Rehash, ProbeAfter, Capture, Abandon, Finalize,
       Validation, ParityInputs, NativeRun, ParityPasses, ParityFails
  <2>. QED
    BY <2>1 DEF world, caches, CacheShape, TierShape, SidecarShape, FileShape,
       CheckpointShape, RowsKnown, TierKnown, By, Copied
<1>. QED
  BY <1>2, <1>3, <1>4, <1>5, <1>6 DEF Next, Generation

-----------------------------------------------------------------------------
(***************************************************************************)
(* The server and the capture.                                              *)
(***************************************************************************)
LEMMA LoadedKeeps ==
  ASSUME WorldShape, LoadedKnown, Next
  PROVE  LoadedKnown'
<1> USE DEF WorldShape, LoadedKnown
<1>1. CASE StartServer
  BY <1>1 DEF StartServer
<1>2. CASE StopServer
  BY <1>2 DEF StopServer
<1>3. CASE ReplaceModel
  BY <1>3, AttestationAssumption DEF ReplaceModel, Tick, Ticks
<1>4. CASE UNCHANGED <<server, gguf>>
  BY <1>4
<1>5. CASE (\E t \in Tiers : Delete(t)) \/ Generation
  BY <1>4, <1>5 DEF Delete, Generation, BeginFromPrefix, BeginEmpty, Begin, Answer, Append_,
     Publish, Describe, world
<1>6. CASE Attestation \/ Validation
  BY <1>4, <1>6 DEF world, Attestation, HashArtifact, Reading, ReadCheckpoint, StatStart,
     ReadPrefix, ProbeBefore, Rehash, ProbeAfter, Capture, Abandon, Finalize,
     Validation, ParityInputs, NativeRun, ParityPasses, ParityFails
<1>. QED
  BY <1>1, <1>2, <1>3, <1>5, <1>6 DEF Next, Operator

\* A generation that is as old as one seen earlier is that one, with its seed.
LEMMA SameGeneration ==
  ASSUME WorldShape, CacheShape, Next, NEW t \in Tiers, NEW b \in Nat, b <= now,
         begun'[t] # None \/ checkpoint'[t] # None, file'[t].born = b
  PROVE  /\ begun[t] # None \/ checkpoint[t] # None
         /\ file[t].born = b /\ checkpoint'[t].seed = checkpoint[t].seed
<1> USE DEF CacheShape
<1>1. CASE UNCHANGED <<begun, checkpoint, file>>
  BY <1>1
<1>2. CASE StartServer \/ StopServer \/ ReplaceModel \/ Attestation \/ Validation
  BY <1>1, <1>2 DEF caches, StartServer, StopServer, ReplaceModel, Attestation,
     HashArtifact, Reading, ReadCheckpoint, StatStart, ReadPrefix, ProbeBefore, Rehash,
     ProbeAfter, Capture, Abandon, Finalize, Validation, ParityInputs, NativeRun,
     ParityPasses, ParityFails
<1>3. ASSUME NEW u \in Tiers, Delete(u)
      PROVE  u # t /\ UNCHANGED <<begun[t], checkpoint[t], file[t]>>
  BY <1>3 DEF Delete
<1>4. ASSUME NEW u \in Tiers, NEW rows, NEW seed, Begin(u, rows, seed)
      PROVE  u # t /\ UNCHANGED <<begun[t], checkpoint[t], file[t]>>
  BY <1>4 DEF Begin, Tick, WorldShape
<1>5. CASE BeginFromPrefix
  BY <1>4, <1>5 DEF BeginFromPrefix, Tiers
<1>6. ASSUME NEW u \in Tiers, BeginEmpty(u) PROVE UNCHANGED <<begun[t], checkpoint[t], file[t]>>
  BY <1>4, <1>6 DEF BeginEmpty
<1>7. ASSUME NEW u \in Tiers, Answer(u) PROVE UNCHANGED <<begun, checkpoint, file>>
  BY <1>7 DEF Answer
<1>8. ASSUME NEW u \in Tiers, Describe(u)
      PROVE  u # t /\ UNCHANGED <<begun[t], checkpoint[t], file[t]>>
  BY <1>8 DEF Describe
<1>9. ASSUME NEW u \in Tiers, Append_(u) \/ Publish(u)
      PROVE  /\ begun' = begun /\ file'[t].born = file[t].born
             /\ checkpoint'[t].seed = checkpoint[t].seed
             /\ begun[t] # None \/ checkpoint[t] # None
  <2>1. begun' = begun /\ FileShape(u) /\ CheckpointShape(u) /\ begun[u] # None
    BY <1>9 DEF Append_, Publish, TierShape
  <2>. QED
    BY <1>9, <2>1 DEF Append_, Publish, FileShape, CheckpointShape
<1>. QED
  BY <1>2, <1>3, <1>5, <1>6, <1>7, <1>8, <1>9 DEF Next, Operator, Generation

\* The world as a capture meets it: servers only start, later than all it read.
LEMMA WorldStep ==
  ASSUME WorldShape, Next
  PROVE  /\ \/ UNCHANGED server \/ server' = None
            \/ server' # None /\ server'.started > now
         /\ UNCHANGED gguf \/ gguf'.placed > now
<1> USE DEF WorldShape, Tick
<1>1. CASE Operator
  BY <1>1 DEF Operator, StartServer, StopServer, ReplaceModel, Delete
<1>2. CASE Generation
  BY <1>2 DEF Generation, BeginFromPrefix, BeginEmpty, Begin, Answer, Append_, Publish,
     Describe, world
<1>3. CASE Attestation \/ Validation
  BY <1>3 DEF world, Attestation, HashArtifact, Reading, ReadCheckpoint, StatStart,
     ReadPrefix, ProbeBefore, Rehash, ProbeAfter, Capture, Abandon, Finalize,
     Validation, ParityInputs, NativeRun, ParityPasses, ParityFails
<1>. QED
  BY <1>1, <1>2, <1>3 DEF Next

\* What a capture has read stays true while the others act.
LEMMA CaptureFrame ==
  ASSUME WorldShape, CacheShape, CapKnown, Next, cap' = cap
  PROVE  CapKnown'
<1> USE DEF CapKnown
<1>1. now \in Nat /\ now' \in Nat /\ now' >= now
  BY WorldKeeps, AttestationAssumption DEF WorldShape
<1>2. CapShape' /\ ModelKnown'
  BY DEF CapShape, ModelKnown, Past
<1>3. StartKnown'
  BY <1>1, AttestationAssumption DEF StartKnown, Past, Ticks
<1>4. /\ gguf'.placed \in Nat /\ gguf.placed \in Nat
      /\ server' # None => server'.started \in Nat
  BY WorldKeeps, AttestationAssumption DEF WorldShape, Ticks
<1>5. PrefixKnown'
  <2>. SUFFICES ASSUME Past(AfterPrefix) PROVE PrefixKnown'
    BY DEF PrefixKnown, Past
  <2>1. cap.prefix # None => cap.prefix.time \in Nat /\ cap.prefix.time <= now
    BY AttestationAssumption DEF PrefixKnown, Ticks
  <2>2. server' = server \/ server' = None
        \/ (cap.prefix # None => ~(server'.started < cap.prefix.time))
    BY <1>1, <1>4, <2>1, WorldStep
  <2>. QED
    BY <1>1, <2>1, <2>2, AttestationAssumption DEF PrefixKnown, Ticks
<1>6. ProcessKnown'
  <2>. SUFFICES ASSUME Past(AfterProcess), cap.process # None PROVE ProcessKnown'
    BY DEF ProcessKnown, Past
  <2>1. cap.process.started \in Nat /\ cap.process.started <= now
    BY AttestationAssumption DEF ProcessKnown, Ticks
  <2>2. /\ server' = server \/ server' = None \/ server'.started # cap.process.started
        /\ gguf' = gguf \/ ~(gguf'.placed <= cap.process.started)
    BY <1>1, <1>4, <2>1, WorldStep
  <2>. QED
    BY <1>1, <2>1, <2>2, AttestationAssumption DEF ProcessKnown, Ticks
<1>7. CapturedKnown'
  <2>. SUFFICES ASSUME Past({"again"}) PROVE CapturedKnown'
    BY DEF CapturedKnown, Past
  <2>1. cap.tier \in Tiers /\ cap.start.born \in Nat /\ cap.start.born <= now
    BY AttestationAssumption DEF CapShape, StartKnown, Past, AfterStart, Ticks
  <2>2. SUFFICES ASSUME cap.process # None,
                        begun'[cap.tier] # None \/ checkpoint'[cap.tier] # None,
                        file'[cap.tier].born = cap.start.born,
                        cap.process2.started < cap.start.born,
                        NEW i \in DOMAIN cap.rows
                 PROVE  \/ By(cap.process2, cap.rows[i])
                        \/ Copied(cap.tier, i, cap.rows[i])'
    BY DEF CapturedKnown, Past
  <2>3. /\ begun[cap.tier] # None \/ checkpoint[cap.tier] # None
        /\ file[cap.tier].born = cap.start.born
        /\ checkpoint'[cap.tier].seed = checkpoint[cap.tier].seed
    BY <2>1, <2>2, SameGeneration
  <2>4. By(cap.process2, cap.rows[i]) \/ Copied(cap.tier, i, cap.rows[i])
    BY <2>2, <2>3 DEF CapturedKnown
  <2>. QED
    BY <2>3, <2>4 DEF Copied
<1>. QED
  BY <1>2, <1>3, <1>5, <1>6, <1>7

\* Each reading establishes what is then known; the rows of a prefix cache and of
\* the artifact are taken from what the listening server knows of them.
LEMMA ReadingsKeep ==
  ASSUME WorldShape, CacheShape, RowsKnown, LoadedKnown, CapKnown,
         UNCHANGED <<world, caches>>,
         \/ \E t \in Tiers : HashArtifact(t)
         \/ ReadCheckpoint \/ StatStart \/ ReadPrefix \/ ProbeBefore \/ Rehash
         \/ ProbeAfter \/ Capture \/ Abandon
  PROVE  CapKnown'
<1> USE DEF CapKnown, Past, AfterStart, AfterPrefix, AfterProcess, AfterModel, world, caches
<1>1. CASE Capture \/ Abandon
  BY <1>1 DEF Capture, Abandon, CapShape, StartKnown, PrefixKnown, ProcessKnown,
     ModelKnown, CapturedKnown
<1>2. ASSUME NEW t \in Tiers, HashArtifact(t) PROVE CapKnown'
  <2>1. cap' = NewCapture(t) /\ cap'.at = "checkpoint"
    BY <1>2 DEF HashArtifact, NewCapture
  <2>2. CapShape'
    BY <2>1 DEF CapShape, NewCapture, CapFields
  <2>. QED
    BY <2>1, <2>2 DEF StartKnown, PrefixKnown, ProcessKnown, ModelKnown, CapturedKnown
<1>3. CASE ReadCheckpoint
  <2>1. cap'.at = "start" /\ CapShape'
    BY <1>3 DEF ReadCheckpoint, Reading, CapShape, CapFields
  <2>. QED
    BY <2>1 DEF StartKnown, PrefixKnown, ProcessKnown, ModelKnown, CapturedKnown
<1>4. CASE StatStart
  <2>1. /\ cap'.at = "prefix" /\ CapShape'
        /\ cap'.start = StartArtifact(cap.tier, cap.before) /\ FileShape(cap.tier)
    BY <1>4 DEF StatStart, Reading, CapShape, CapFields, CacheShape, TierShape
  <2>2. StartKnown'
    BY <2>1 DEF StartKnown, StartArtifact, FileShape
  <2>. QED
    BY <2>1, <2>2 DEF PrefixKnown, ProcessKnown, ModelKnown, CapturedKnown
<1>5. CASE ReadPrefix
  <2>1. cap'.at = "process" /\ CapShape' /\ cap'.start = cap.start
    BY <1>5 DEF ReadPrefix, Reading, CapShape, CapFields
  <2>2. StartKnown'
    BY <1>5, <2>1 DEF StartKnown, ReadPrefix, Reading
  <2>3. cap'.before = cap.before
    BY <1>5 DEF ReadPrefix, Reading, CapShape, CapFields
  <2>4. ASSUME cap.before.seed = None, cap' = [cap EXCEPT !.at = "process"]
        PROVE  PrefixKnown'
    <3>1. cap.prefix = None /\ cap'.prefix = cap.prefix
      BY <1>5, <2>4 DEF ReadPrefix, Reading, CapShape, CapFields
    <3>2. cap'.before.seed = None /\ cap'.prefix = None
      BY <2>3, <2>4, <3>1
    <3>. QED
      BY <3>2 DEF PrefixKnown
  <2>5. ASSUME ~(cap.before.seed = None /\ cap' = [cap EXCEPT !.at = "process"])
        PROVE  PrefixKnown'
    <3> DEFINE rows == file["100k"].rows
    <3>1. /\ sidecar["100k"] # None /\ Bytes(rows) = cap.before.seed
          /\ cap'.prefix = [bytes |-> Bytes(rows), time |-> PrefixStart]
      BY <1>5, <2>5 DEF ReadPrefix, Reading, CapShape, CapFields
    <3>2. FileShape("100k") /\ TierKnown("100k")
      BY <3>1 DEF CacheShape, TierShape, RowsKnown, Tiers
    <3>3. /\ BirthTime => PrefixStart = file["100k"].born
          /\ PrefixStart \in Ticks /\ PrefixStart <= now
      BY <3>1, <3>2 DEF PrefixStart, FileShape, SidecarShape, TierShape, CacheShape, Tiers
    <3>4. \E n \in 0 .. Count["1m"] : Bytes(rows) \in [1 .. n -> Models]
      <4>1. DOMAIN rows = 1 .. Len(rows) /\ \A i \in DOMAIN rows : rows[i] \in Row
        BY <3>2 DEF FileShape
      <4>2. \A i \in 1 .. Len(rows) : rows[i].model \in Models
        BY <4>1 DEF Row
      <4>3. Len(rows) \in 0 .. Count["1m"]
        BY <3>2, AttestationAssumption DEF FileShape, Tiers
      <4>. QED
        BY <4>1, <4>2, <4>3 DEF Bytes
    <3>5. cap'.prefix # None
      <4>1. Bytes(rows) \in Vectors
        BY <3>4 DEF Vectors
      <4>2. [bytes |-> Bytes(rows), time |-> PrefixStart] \in [bytes : Vectors, time : Ticks]
        BY <3>3, <4>1
      <4>. QED
        BY <3>1, <4>2, NoneAssumption
    <3>6. BirthTime /\ server # None /\ server.started < PrefixStart =>
            \A j \in DOMAIN Bytes(rows) : Bytes(rows)[j] = server.loaded
      BY <3>1, <3>2, <3>3 DEF TierKnown, By, Bytes
    <3>. HIDE DEF rows
    <3>7. /\ cap'.prefix.bytes = Bytes(rows) /\ cap'.before.seed = Bytes(rows)
          /\ cap'.prefix.time = PrefixStart /\ server' = server /\ now' = now
      BY <2>3, <3>1
    <3>. QED
      BY <3>3, <3>4, <3>5, <3>6, <3>7 DEF PrefixKnown
  <2>6. PrefixKnown'
    BY <2>4, <2>5
  <2>. QED
    BY <2>1, <2>2, <2>6 DEF ProcessKnown, ModelKnown, CapturedKnown
<1>6. CASE ProbeBefore
  <2>1. /\ cap'.at = "artifact" /\ CapShape' /\ cap'.start = cap.start
        /\ cap'.before = cap.before /\ cap'.prefix = cap.prefix
        /\ cap'.process \in {server, None} /\ server # None
    BY <1>6 DEF ProbeBefore, Reading, CapShape, CapFields, Listens
  <2>2. StartKnown' /\ PrefixKnown'
    BY <1>6, <2>1 DEF StartKnown, PrefixKnown, ProbeBefore, Reading
  <2>3. ProcessKnown'
    BY <1>6, <2>1 DEF ProcessKnown, PrefixKnown, WorldShape, LoadedKnown, ProbeBefore, Reading
  <2>. QED
    BY <2>1, <2>2, <2>3 DEF ModelKnown, CapturedKnown
<1>7. CASE Rehash
  <2>1. /\ cap'.at = "process2" /\ CapShape' /\ cap'.start = cap.start
        /\ cap'.before = cap.before /\ cap'.prefix = cap.prefix
        /\ cap'.process = cap.process /\ cap'.gguf2 = gguf
    BY <1>7 DEF Rehash, Reading, CapShape, CapFields
  <2>2. StartKnown' /\ PrefixKnown' /\ ProcessKnown'
    BY <1>7, <2>1 DEF StartKnown, PrefixKnown, ProcessKnown, Rehash, Reading
  <2>3. ModelKnown'
    BY <1>7, <2>1 DEF ModelKnown, ProcessKnown, Rehash, Reading
  <2>. QED
    BY <2>1, <2>2, <2>3 DEF CapturedKnown
<1>8. CASE ProbeAfter
  <2>1. /\ cap'.at = "again" /\ CapShape' /\ cap'.start = cap.start
        /\ cap'.before = cap.before /\ cap'.prefix = cap.prefix
        /\ cap'.process = cap.process /\ cap'.gguf2 = cap.gguf2
        /\ cap'.tier = cap.tier /\ cap.tier \in Tiers
        /\ cap.process # None => cap'.process2 = server /\ server # None
        /\ cap'.rows = IF file[cap.tier] = None THEN << >> ELSE file[cap.tier].rows
    BY <1>8 DEF ProbeAfter, Reading, CapShape, CapFields, Listens
  <2>2. StartKnown' /\ PrefixKnown' /\ ProcessKnown' /\ ModelKnown'
    BY <1>8, <2>1 DEF StartKnown, PrefixKnown, ProcessKnown, ModelKnown, ProbeAfter, Reading
  <2>3. cap'.rows \in Seq(Row)
    BY <2>1 DEF CacheShape, TierShape, FileShape
  <2>4. CapturedKnown'
    <3>1. CASE file[cap.tier] = None
      BY <2>1, <2>3, <3>1 DEF CapturedKnown
    <3>2. CASE file[cap.tier] # None
      <4>1. TierKnown(cap.tier)
        BY <2>1 DEF RowsKnown
      <4>. QED
        BY <2>1, <2>3, <3>2, <4>1 DEF CapturedKnown, TierKnown, By, Copied
    <3>. QED
      BY <3>1, <3>2
  <2>. QED
    BY <2>1, <2>2, <2>4
<1>. QED
  BY <1>1, <1>2, <1>3, <1>4, <1>5, <1>6, <1>7, <1>8

-----------------------------------------------------------------------------
(***************************************************************************)
(* What capture_attestation attests.                                        *)
(***************************************************************************)
\* The comparisons of Proven tie the readings to one process and one generation.
LEMMA ProvenReadings ==
  ASSUME IInv, cap # None, cap.at = "again", Proven(cap)
  PROVE  /\ StartKnown /\ PrefixKnown /\ ProcessKnown /\ ModelKnown /\ CapturedKnown
         /\ cap.tier \in Tiers
         /\ \A points : "again" \in points => Past(points)
         /\ checkpoint[cap.tier] # None
         /\ checkpoint[cap.tier].seed = cap.before.seed
         /\ file[cap.tier].born = cap.start.born /\ FileShape(cap.tier)
         /\ cap.gguf2 = cap.gguf
         /\ cap.process # None =>
              /\ cap.process2.started = cap.process.started
              /\ cap.process.started < cap.start.time
              /\ cap.prefix # None => cap.process.started < cap.prefix.time
              /\ cap.gguf.mtime <= cap.process.started
<1>1. /\ StartKnown /\ PrefixKnown /\ ProcessKnown /\ ModelKnown /\ CapturedKnown
      /\ cap.tier \in Tiers
      /\ \A points : "again" \in points => Past(points)
  BY DEF IInv, CapKnown, CapShape, Past
<1>2. /\ checkpoint[cap.tier] # None
      /\ checkpoint[cap.tier].seed = cap.before.seed
      /\ file[cap.tier].born = cap.start.born /\ FileShape(cap.tier)
      /\ cap.gguf2 = cap.gguf
      /\ cap.process # None =>
           /\ cap.process2.started = cap.process.started
           /\ cap.process.started < cap.start.time
           /\ cap.prefix # None => cap.process.started < cap.prefix.time
           /\ cap.gguf.mtime <= cap.process.started
  BY <1>1 DEF IInv, Proven, SameCheckpoint, StartArtifact, SameProcess, Identity,
     StartedBefore, Untouched, CacheShape, TierShape
<1>. QED
  BY <1>1, <1>2

\* The rows that the second probe saw, when every comparison succeeds.
LEMMA ProvenRows ==
  ASSUME IInv, cap # None, cap.at = "again", Proven(cap), BirthTime, cap.process # None,
         NEW i \in DOMAIN cap.rows
  PROVE  \/ By(cap.process2, cap.rows[i])
         \/ /\ cap.prefix # None /\ i <= Len(cap.prefix.bytes)
            /\ cap.rows[i].model = cap.process.loaded
<1> SUFFICES ASSUME ~By(cap.process2, cap.rows[i])
             PROVE  /\ cap.prefix # None /\ i <= Len(cap.prefix.bytes)
                    /\ cap.rows[i].model = cap.process.loaded
  OBVIOUS
<1>1. Copied(cap.tier, i, cap.rows[i])
  BY ProvenReadings DEF CapturedKnown, StartKnown, AfterStart
<1>2. cap.before.seed # None /\ i <= Len(cap.before.seed)
      /\ cap.rows[i].model = cap.before.seed[i]
  BY <1>1, ProvenReadings DEF Copied
<1>3. PICK n \in 0 .. Count["1m"] : cap.prefix.bytes \in [1 .. n -> Models]
  BY <1>2, ProvenReadings DEF PrefixKnown, AfterPrefix
<1>4. cap.prefix # None /\ cap.prefix.bytes = cap.before.seed
  BY <1>2, ProvenReadings DEF PrefixKnown, AfterPrefix
<1>5. i \in DOMAIN cap.prefix.bytes
  <2>1. Len(cap.prefix.bytes) = n /\ i \in Nat \ {0}
    BY <1>3, ProvenReadings, AttestationAssumption DEF CapturedKnown, Tiers
  <2>. QED
    BY <1>2, <1>3, <1>4, <2>1
<1>6. cap.prefix.bytes[i] = cap.process.loaded
  BY <1>4, <1>5, ProvenReadings DEF ProcessKnown, AfterProcess
<1>. QED
  BY <1>2, <1>4, <1>6

LEMMA ReportKeeps ==
  ASSUME IInv, Next
  PROVE  (BirthTime => RowsAttested') /\ ModelIsLoaded'
<1> USE DEF IInv
<1>1. CASE report' = report
  BY <1>1 DEF RowsAttested, ModelIsLoaded, Verified
<1>2. CASE Capture
  <2>1. /\ cap # None /\ cap.at = "again" /\ Proven(cap)
        /\ report'.gguf = cap.gguf /\ report'.prefix = cap.prefix
        /\ report'.process = cap.process /\ report'.rows = cap.rows
    BY <1>2 DEF Capture
  <2>2. ASSUME BirthTime PROVE RowsAttested'
    BY <2>1, <2>2, ProvenReadings, ProvenRows DEF RowsAttested, Verified, By
  <2>3. ModelIsLoaded'
    BY <2>1, ProvenReadings DEF ModelIsLoaded, Verified, ModelKnown, AfterModel
  <2>. QED
    BY <2>2, <2>3
<1>3. CASE Attestation
  BY <1>1, <1>2, <1>3 DEF Attestation, HashArtifact, Reading, ReadCheckpoint, StatStart,
     ReadPrefix, ProbeBefore, Rehash, ProbeAfter, Abandon, Finalize, captures
<1>4. CASE Operator \/ Generation \/ Validation
  BY <1>1, <1>4 DEF Operator, StartServer, StopServer, ReplaceModel, Delete, Generation,
     BeginFromPrefix, BeginEmpty, Begin, Answer, Append_, Publish, Describe, Validation,
     ParityInputs, NativeRun, ParityPasses, ParityFails, captures
<1>. QED
  BY <1>3, <1>4 DEF Next

LEMMA NextKeeps == IInv /\ Next => IInv'
<1> SUFFICES ASSUME IInv, Next PROVE IInv'
  OBVIOUS
<1>1. WorldShape' /\ CacheShape' /\ RowsKnown' /\ LoadedKnown'
  BY WorldKeeps, CachesKeep, LoadedKeeps DEF IInv
<1>2. CapKnown'
  <2>1. CASE cap' = cap
    BY <2>1, CaptureFrame DEF IInv
  <2>2. CASE \/ \E t \in Tiers : HashArtifact(t)
             \/ ReadCheckpoint \/ StatStart \/ ReadPrefix \/ ProbeBefore \/ Rehash
             \/ ProbeAfter \/ Capture \/ Abandon
    <3>1. UNCHANGED <<world, caches>>
      BY <2>2 DEF HashArtifact, Reading, ReadCheckpoint, StatStart, ReadPrefix, ProbeBefore,
         Rehash, ProbeAfter, Capture, Abandon
    <3>. QED
      BY <2>2, <3>1, ReadingsKeep DEF IInv
  <2>3. CASE Finalize \/ Operator \/ Generation \/ Validation
    <3>1. cap' = cap
      BY <2>3 DEF Finalize, Operator, StartServer, StopServer, ReplaceModel, Delete,
         Generation, BeginFromPrefix, BeginEmpty, Begin, Answer, Append_, Publish, Describe,
         Validation, ParityInputs, NativeRun, ParityPasses, ParityFails, captures
    <3>. QED
      BY <2>1, <3>1
  <2>. QED
    BY <2>2, <2>3 DEF Next, Attestation
<1>3. (BirthTime => RowsAttested') /\ ModelIsLoaded'
  BY ReportKeeps
<1>. QED
  BY <1>1, <1>2, <1>3 DEF IInv

LEMMA Invariance == Spec => []IInv
<1>1. IInv /\ [Next]_vars => IInv'
  <2>1. IInv /\ UNCHANGED vars => IInv'
    BY DEF vars, world, caches, captures, parities, IInv, WorldShape, CacheShape, TierShape,
       FileShape, SidecarShape, CheckpointShape, RowsKnown, TierKnown, By, Copied, LoadedKnown, CapKnown,
       CapShape, StartKnown, PrefixKnown, ProcessKnown, ModelKnown, CapturedKnown, Past,
       RowsAttested, ModelIsLoaded, Verified
  <2>. QED
    BY <2>1, NextKeeps
<1>. QED
  BY <1>1, InitInv, PTL DEF Spec

\* Where files have birth times, capture_attestation attests the rows it says it
\* attests, whatever an operator and the generation did between its readings: each was
\* computed by the attested process or has the bytes of a row that was.
THEOREM RowsAreAttested ==
  ASSUME BirthTime
  PROVE  Spec => []RowsAttested
<1>1. IInv => RowsAttested
  BY DEF IInv
<1>. QED
  BY <1>1, Invariance, PTL

\* With birth times or without, the model a capture names is the one the attested
\* process had loaded, if the times of the model file are those of its writing.
THEOREM NamedModelIsLoaded == Spec => []ModelIsLoaded
<1>1. IInv => ModelIsLoaded
  BY DEF IInv
<1>. QED
  BY <1>1, Invariance, PTL

-----------------------------------------------------------------------------
(***************************************************************************)
(* The sample of a parity run.  EmbeddingParity keeps the longest rows in   *)
(* one pass that is a fold, a function CHOSEN to satisfy a recursion over   *)
(* sets of positions.  What satisfies it is proved of a smallest set for    *)
(* which it fails.                                                          *)
(***************************************************************************)
\* H holds the k longest rows of U, or all of them if there are no more than k.
LongestOf(H, U, k, size) ==
  /\ H \subseteq U /\ Cardinality(H) <= k
  /\ H # U => Cardinality(H) = k
  /\ \A a \in H, b \in U \ H : Worse(b, a, size)

\* The rows of the corpus have sizes.
SizesOK(n, size) == \A r \in 0 .. n - 1 : size[r] \in Nat

\* The heap orders rows strictly and totally.
LEMMA WorseOrder ==
  ASSUME NEW n \in Nat, NEW size, SizesOK(n, size)
  PROVE  /\ \A a \in 0 .. n - 1 : ~Worse(a, a, size)
         /\ \A a, b \in 0 .. n - 1 : a = b \/ Worse(a, b, size) \/ Worse(b, a, size)
         /\ \A a, b, c \in 0 .. n - 1 :
              Worse(a, b, size) /\ Worse(b, c, size) => Worse(a, c, size)
<1>1. \A r \in 0 .. n - 1 : r \in Int /\ size[r] \in Int
  BY DEF SizesOK
<1>2. ASSUME NEW a \in 0 .. n - 1 PROVE ~Worse(a, a, size)
  BY <1>1 DEF Worse
<1>3. ASSUME NEW a \in 0 .. n - 1, NEW b \in 0 .. n - 1
      PROVE  a = b \/ Worse(a, b, size) \/ Worse(b, a, size)
  BY <1>1 DEF Worse
<1>4. ASSUME NEW a \in 0 .. n - 1, NEW b \in 0 .. n - 1, NEW c \in 0 .. n - 1,
             Worse(a, b, size), Worse(b, c, size)
      PROVE  Worse(a, c, size)
  <2>1. /\ a \in Int /\ b \in Int /\ c \in Int
        /\ size[a] \in Int /\ size[b] \in Int /\ size[c] \in Int
    BY <1>1
  <2>2. /\ size[a] < size[b] \/ (size[a] = size[b] /\ a > b)
        /\ size[b] < size[c] \/ (size[b] = size[c] /\ b > c)
    BY <1>4 DEF Worse
  <2>3. size[a] < size[c] \/ (size[a] = size[c] /\ a > c)
    BY <2>1, <2>2
  <2>. QED
    BY <2>3 DEF Worse
<1> DEFINE R == 0 .. n - 1
<1>5. /\ \A a \in R : ~Worse(a, a, size)
      /\ \A a, b \in R : a = b \/ Worse(a, b, size) \/ Worse(b, a, size)
      /\ \A a, b, c \in R : Worse(a, b, size) /\ Worse(b, c, size) => Worse(a, c, size)
  <2>1. /\ \A a \in R : ~Worse(a, a, size)
        /\ \A a, b \in R : a = b \/ Worse(a, b, size) \/ Worse(b, a, size)
    BY <1>2, <1>3
  <2>2. ASSUME NEW a \in R, NEW b \in R, NEW c \in R,
               Worse(a, b, size), Worse(b, c, size)
        PROVE  Worse(a, c, size)
    BY <1>4, <2>2
  <2>. HIDE DEF R
  <2>. QED
    BY <2>1, <2>2
<1>. QED
  BY <1>5

\* Of some subsets of a finite set one has none of the others below it.
LEMMA MinimalSubset ==
  ASSUME NEW S, IsFiniteSet(S), NEW F \in SUBSET SUBSET S, F # {}
  PROVE  \E U \in F : \A V \in F : V \subseteq U => V = U
<1>1. IsWellFoundedOn(StrictSubsetOrdering(S), SUBSET S)
  BY FS_StrictSubsetOrderingWellFounded, FS_FiniteSubsetsOfFinite
<1>2. PICK U \in F : \A V \in F : ~ (<<V, U>> \in StrictSubsetOrdering(S))
  BY <1>1, WFMin
<1>. QED
  BY <1>2 DEF StrictSubsetOrdering

\* A strict order on a finite set that is not empty leaves somebody first.
LEMMA FirstExists ==
  ASSUME NEW S, IsFiniteSet(S), S # {}, NEW R,
         \A a, b, c \in S : <<a, b>> \in R /\ <<b, c>> \in R => <<a, c>> \in R,
         \A a \in S : <<a, a>> \notin R
  PROVE  \E x \in S : \A y \in S : <<y, x>> \notin R
<1> DEFINE F == {V \in SUBSET S : V # {} /\ \A a \in V, b \in S : <<b, a>> \in R => b \in V}
<1>1. F \in SUBSET SUBSET S /\ S \in F
  OBVIOUS
<1>2. PICK V \in F : \A W \in F : W \subseteq V => W = V
  <2>. HIDE DEF F
  <2>. QED
    BY <1>1, MinimalSubset
<1>3. PICK x \in V : TRUE
  BY <1>2
<1> DEFINE W == {b \in V : <<b, x>> \in R}
<1>4. V \subseteq S /\ W \subseteq V /\ W # V
  BY <1>2, <1>3
<1>5. \A a \in W, b \in S : <<b, a>> \in R => b \in W
  BY <1>2, <1>3, <1>4
<1>6. W = {}
  <2>. SUFFICES ASSUME W # {} PROVE FALSE
    OBVIOUS
  <2>1. W \in F
    BY <1>4, <1>5
  <2>. QED
    BY <1>2, <1>4, <2>1
<1>. QED
  BY <1>2, <1>3, <1>4, <1>6

\* The root of the heap.
LEMMA WorstExists ==
  ASSUME NEW n \in Nat, NEW size, SizesOK(n, size), NEW H \in SUBSET (0 .. n - 1), H # {}
  PROVE  \E r \in H : \A o \in H \ {r} : Worse(r, o, size)
<1> DEFINE R == {p \in H \X H : Worse(p[1], p[2], size)}
<1>1. IsFiniteSet(H)
  <2>1. IsFiniteSet(0 .. n - 1)
    BY FS_Interval
  <2>. QED
    BY <2>1, FS_Subset
<1>2. \A a, b \in H : <<a, b>> \in R <=> Worse(a, b, size)
  OBVIOUS
<1>. HIDE DEF R
<1>3. /\ \A a \in H : ~Worse(a, a, size)
      /\ \A a, b \in H : a = b \/ Worse(a, b, size) \/ Worse(b, a, size)
      /\ \A a, b, c \in H : Worse(a, b, size) /\ Worse(b, c, size) => Worse(a, c, size)
  BY WorseOrder
<1>4. PICK r \in H : \A y \in H : <<y, r>> \notin R
  <2>1. \A a \in H : <<a, a>> \notin R
    BY <1>2, <1>3
  <2>2. \A a, b, c \in H : <<a, b>> \in R /\ <<b, c>> \in R => <<a, c>> \in R
    BY <1>2, <1>3
  <2>. QED
    BY <1>1, <2>1, <2>2, FirstExists
<1>. QED
  BY <1>2, <1>3, <1>4

\* A heap with the longest rows so far keeps the longest of one row more.
LEMMA RetainedIsLongest ==
  ASSUME NEW n \in Nat, NEW size, SizesOK(n, size), NEW k \in Nat \ {0},
         NEW U \in SUBSET (0 .. n - 1), NEW r \in (0 .. n - 1) \ U,
         NEW H, LongestOf(H, U, k, size)
  PROVE  LongestOf(Retained(H, r, k, size), U \cup {r}, k, size)
<1>1. /\ IsFiniteSet(U) /\ IsFiniteSet(H) /\ H \subseteq U /\ Cardinality(H) \in Nat
      /\ Cardinality(H) <= k /\ r \notin H
  <2>1. H \subseteq U /\ Cardinality(H) <= k /\ r \notin H
    BY DEF LongestOf
  <2>2. IsFiniteSet(0 .. n - 1)
    BY FS_Interval
  <2>3. IsFiniteSet(U)
    BY <2>2, FS_Subset
  <2>. QED
    BY <2>1, <2>3, FS_Subset, FS_CardinalityType
<1>2. CASE Cardinality(H) < k
  <2>1. H = U
    BY <1>1, <1>2 DEF LongestOf
  <2>2. Cardinality(U \cup {r}) = Cardinality(H) + 1
    BY <1>1, <2>1, FS_AddElement
  <2>3. Cardinality(U \cup {r}) <= k
    BY <1>1, <1>2, <2>2
  <2>4. Retained(H, r, k, size) = U \cup {r}
    BY <1>2, <2>1 DEF Retained
  <2>. QED
    BY <2>3, <2>4 DEF LongestOf
<1>3. CASE ~(Cardinality(H) < k)
  <2> DEFINE worst == CHOOSE x \in H : \A o \in H \ {x} : Worse(x, o, size)
  <2>1. Cardinality(H) = k /\ H # {}
    <3>1. Cardinality(H) = k
      BY <1>1, <1>3
    <3>. QED
      BY <3>1, FS_EmptySet
  <2>2. worst \in H /\ \A o \in H \ {worst} : Worse(worst, o, size)
    <3>1. \E x \in H : \A o \in H \ {x} : Worse(x, o, size)
      BY <1>1, <2>1, WorstExists
    <3>. QED
      BY <3>1
  <2>3. Retained(H, r, k, size) = IF Worse(worst, r, size) THEN (H \ {worst}) \cup {r} ELSE H
    BY <1>3 DEF Retained
  <2>. HIDE DEF worst
  <2>4. /\ \A a \in H, b \in U \ H : Worse(b, a, size)
        /\ worst \in 0 .. n - 1 /\ worst # r
    BY <1>1, <2>2 DEF LongestOf
  <2>5. CASE Worse(worst, r, size)
    <3> DEFINE kept == (H \ {worst}) \cup {r}
    <3>1. Cardinality(kept) = k
      <4>1. Cardinality(H \ {worst}) = Cardinality(H) - 1 /\ IsFiniteSet(H \ {worst})
        BY <1>1, <2>2, FS_RemoveElement
      <4>2. Cardinality(kept) = Cardinality(H \ {worst}) + 1
        BY <1>1, <4>1, FS_AddElement
      <4>. QED
        BY <2>1, <4>1, <4>2
    <3>2. ASSUME NEW a \in kept, NEW b \in (U \cup {r}) \ kept
          PROVE  Worse(b, a, size)
      <4>1. (b = worst \/ b \in U \ H) /\ b \in 0 .. n - 1 /\ a \in 0 .. n - 1
        BY <1>1, <3>2
      <4>2. Worse(b, worst, size) \/ b = worst
        BY <2>2, <2>4, <4>1
      <4>3. Worse(worst, a, size)
        BY <2>2, <2>5, <3>2
      <4>4. worst \in 0 .. n - 1
        BY <2>4
      <4> DEFINE R == 0 .. n - 1
      <4>5. \A x, y, z \in R : Worse(x, y, size) /\ Worse(y, z, size) => Worse(x, z, size)
        BY WorseOrder
      <4>6. b \in R /\ a \in R /\ worst \in R
        BY <4>1, <4>4
      <4>. HIDE DEF kept, R
      <4>7. CASE b = worst
        BY <4>3, <4>7
      <4>8. CASE Worse(b, worst, size)
        BY <4>3, <4>5, <4>6, <4>8
      <4>. QED
        BY <4>2, <4>7, <4>8
    <3>3. kept \subseteq U \cup {r}
      BY <1>1
    <3>4. Retained(H, r, k, size) = kept /\ Cardinality(kept) <= k
      BY <2>3, <2>5, <3>1
    <3>. HIDE DEF kept
    <3>. QED
      BY <3>1, <3>2, <3>3, <3>4 DEF LongestOf
  <2>6. CASE ~Worse(worst, r, size)
    <3>1. Worse(r, worst, size)
      BY <2>4, <2>6, WorseOrder
    <3>2. ASSUME NEW a \in H, NEW b \in (U \cup {r}) \ H
          PROVE  Worse(b, a, size)
      <4>1. CASE b = r
        BY <1>1, <2>2, <2>4, <3>1, <4>1, WorseOrder
      <4>2. CASE b # r
        BY <2>4, <4>2
      <4>. QED
        BY <4>1, <4>2
    <3>. QED
      BY <1>1, <2>1, <2>3, <2>6, <3>2 DEF LongestOf
  <2>. QED
    BY <2>5, <2>6
<1>. QED
  BY <1>2, <1>3

\* There is only one such set.
LEMMA LongestUnique ==
  ASSUME NEW n \in Nat, NEW size, SizesOK(n, size), NEW k \in Nat,
         NEW U \in SUBSET (0 .. n - 1), NEW H, NEW G,
         LongestOf(H, U, k, size), LongestOf(G, U, k, size)
  PROVE  H \subseteq G
<1> SUFFICES ASSUME NEW a \in H, a \notin G PROVE FALSE
  OBVIOUS
<1>1. /\ IsFiniteSet(H) /\ IsFiniteSet(G) /\ H \subseteq U /\ G \subseteq U
      /\ Cardinality(H) <= k /\ Cardinality(G) = k
      /\ Cardinality(H) \in Nat
  <2>1. H \subseteq U /\ G \subseteq U /\ Cardinality(H) <= k /\ Cardinality(G) = k
    BY DEF LongestOf
  <2>2. IsFiniteSet(0 .. n - 1)
    BY FS_Interval
  <2>3. IsFiniteSet(U)
    BY <2>2, FS_Subset
  <2>. QED
    BY <2>1, <2>3, FS_Subset, FS_CardinalityType
<1>2. PICK b \in G : b \notin H
  <2>. SUFFICES ASSUME G \subseteq H PROVE FALSE
    OBVIOUS
  <2>1. G \in SUBSET H /\ IsFiniteSet(H)
    BY <1>1
  <2>2. Cardinality(G) <= Cardinality(H) /\ (Cardinality(H) = Cardinality(G) => H = G)
    BY <2>1, FS_Subset
  <2>. QED
    BY <1>1, <2>2
<1>3. Worse(b, a, size) /\ Worse(a, b, size)
  BY <1>1, <1>2 DEF LongestOf
<1>4. a \in 0 .. n - 1 /\ b \in 0 .. n - 1
  BY <1>1, <1>2
<1>5. Worse(a, a, size)
  BY <1>3, <1>4, WorseOrder
<1>. QED
  BY <1>4, <1>5, WorseOrder

-----------------------------------------------------------------------------
\* The rows at these positions of the pass.
RowsAt(s) == {p - 1 : p \in s}

\* What a function computes that satisfies the recursion of the pass.
Passed(n, k, size, f) ==
  [s \in SUBSET (1 .. n) |->
     IF s = {} THEN {} ELSE Retained(f[s \ {Max(s)}], Max(s) - 1, k, size)]

\* The last position of a set of them.
LEMMA MaxOf ==
  ASSUME NEW n \in Nat, NEW s \in SUBSET (1 .. n), s # {}
  PROVE  /\ Max(s) \in s /\ Max(s) - 1 \in (0 .. n - 1) \ RowsAt(s \ {Max(s)})
         /\ RowsAt(s) = RowsAt(s \ {Max(s)}) \cup {Max(s) - 1}
         /\ RowsAt(s) \subseteq 0 .. n - 1 /\ RowsAt(s \ {Max(s)}) \subseteq 0 .. n - 1
<1> DEFINE m == Max(s)
<1>1. m \in s
  <2> DEFINE R == {p \in s \X s : p[1] > p[2]}
  <2>1. IsFiniteSet(s)
    <3>1. IsFiniteSet(1 .. n)
      BY FS_Interval
    <3>. QED
      BY <3>1, FS_Subset
  <2>2. \A a, b \in s : a \in Int /\ b \in Int /\ (<<a, b>> \in R <=> a > b)
    OBVIOUS
  <2>. HIDE DEF R
  <2>3. \A a \in s : <<a, a>> \notin R
    BY <2>2
  <2>4. \A a, b, c \in s : <<a, b>> \in R /\ <<b, c>> \in R => <<a, c>> \in R
    BY <2>2
  <2>5. PICK x \in s : \A y \in s : <<y, x>> \notin R
    BY <2>1, <2>3, <2>4, FirstExists
  <2>6. ASSUME NEW y \in s PROVE x >= y
    <3>1. x \in Int /\ y \in Int /\ ~(y > x)
      BY <2>2, <2>5
    <3>. QED
      BY <3>1
  <2>7. \E y \in s : \A z \in s : y >= z
    BY <2>6
  <2>. QED
    BY <2>7 DEF Max
<1>. HIDE DEF m
<1>2. m \in 1 .. n /\ \A p \in s : p \in Int
  BY <1>1
<1>3. RowsAt(s) = RowsAt(s \ {m}) \cup {m - 1}
  BY <1>1 DEF RowsAt
<1>4. m - 1 \notin RowsAt(s \ {m})
  BY <1>2 DEF RowsAt
<1>5. RowsAt(s) \subseteq 0 .. n - 1 /\ RowsAt(s \ {m}) \subseteq 0 .. n - 1 /\ m - 1 \in 0 .. n - 1
  BY <1>2 DEF RowsAt
<1>. QED
  BY <1>1, <1>3, <1>4, <1>5 DEF m

\* Each row of the pass keeps the longest of those before it.
LEMMA PassedIsLongest ==
  ASSUME NEW n \in Nat, NEW size, SizesOK(n, size), NEW k \in Nat \ {0},
         NEW s \in SUBSET (1 .. n), s # {}, NEW H,
         LongestOf(H, RowsAt(s \ {Max(s)}), k, size)
  PROVE  LongestOf(Retained(H, Max(s) - 1, k, size), RowsAt(s), k, size)
<1> DEFINE U == RowsAt(s \ {Max(s)})
           r == Max(s) - 1
<1>1. U \in SUBSET (0 .. n - 1) /\ r \in (0 .. n - 1) \ U /\ RowsAt(s) = U \cup {r}
  BY MaxOf
<1>2. LongestOf(H, U, k, size)
  OBVIOUS
<1>. HIDE DEF U, r
<1>3. LongestOf(Retained(H, r, k, size), U \cup {r}, k, size)
  BY <1>1, <1>2, RetainedIsLongest
<1>. QED
  BY <1>1, <1>3 DEF r

\* The empty heap before the first row.
LEMMA NoneIsLongest ==
  ASSUME NEW k \in Nat, NEW size
  PROVE  RowsAt({}) = {} /\ LongestOf({}, {}, k, size)
BY FS_EmptySet DEF RowsAt, LongestOf

\* Every subset has such a set, by the pass itself.
LEMMA LongestExists ==
  ASSUME NEW n \in Nat, NEW size, SizesOK(n, size), NEW k \in Nat \ {0}
  PROVE  \A s \in SUBSET (1 .. n) : \E H : LongestOf(H, RowsAt(s), k, size)
<1> DEFINE Lacking == {s \in SUBSET (1 .. n) : ~ \E H : LongestOf(H, RowsAt(s), k, size)}
<1> SUFFICES ASSUME Lacking # {} PROVE FALSE
  OBVIOUS
<1>1. PICK s \in Lacking : \A V \in Lacking : V \subseteq s => V = s
  <2> DEFINE P == 1 .. n
  <2>1. IsFiniteSet(P)
    BY FS_Interval
  <2>2. Lacking \in SUBSET SUBSET P
    OBVIOUS
  <2>. HIDE DEF Lacking, P
  <2>. QED
    BY <2>1, <2>2, MinimalSubset
<1>2. s # {}
  BY NoneIsLongest
<1>3. Max(s) \in s
  BY <1>2, MaxOf
<1>4. PICK H : LongestOf(H, RowsAt(s \ {Max(s)}), k, size)
  BY <1>1, <1>3
<1>. QED
  BY <1>2, <1>4, PassedIsLongest

\* Whatever satisfies the recursion computes it.
LEMMA PassedComputes ==
  ASSUME NEW n \in Nat, NEW size, SizesOK(n, size), NEW k \in Nat \ {0},
         NEW f, f = Passed(n, k, size, f)
  PROVE  \A s \in SUBSET (1 .. n) : LongestOf(f[s], RowsAt(s), k, size)
<1> DEFINE Lacking == {s \in SUBSET (1 .. n) : ~ LongestOf(f[s], RowsAt(s), k, size)}
<1> SUFFICES ASSUME Lacking # {} PROVE FALSE
  OBVIOUS
<1>1. PICK s \in Lacking : \A V \in Lacking : V \subseteq s => V = s
  <2> DEFINE P == 1 .. n
  <2>1. IsFiniteSet(P)
    BY FS_Interval
  <2>2. Lacking \in SUBSET SUBSET P
    OBVIOUS
  <2>. HIDE DEF Lacking, P
  <2>. QED
    BY <2>1, <2>2, MinimalSubset
<1>2. \A t \in SUBSET (1 .. n) :
        f[t] = IF t = {} THEN {} ELSE Retained(f[t \ {Max(t)}], Max(t) - 1, k, size)
  <2>1. \A t \in SUBSET (1 .. n) :
          Passed(n, k, size, f)[t]
            = IF t = {} THEN {} ELSE Retained(f[t \ {Max(t)}], Max(t) - 1, k, size)
    BY DEF Passed
  <2>. QED
    BY <2>1
<1>3. s # {}
  <2>. SUFFICES ASSUME s = {} PROVE FALSE
    OBVIOUS
  <2>1. f[{}] = {}
    BY <1>2
  <2>2. LongestOf(f[{}], RowsAt({}), k, size)
    BY <2>1, NoneIsLongest
  <2>. QED
    BY <2>2
<1>4. Max(s) \in s
  BY <1>3, MaxOf
<1>5. LongestOf(f[s \ {Max(s)}], RowsAt(s \ {Max(s)}), k, size)
  <2> DEFINE V == s \ {Max(s)}
  <2>1. V \in SUBSET (1 .. n) /\ V \subseteq s /\ V # s
    BY <1>4
  <2>. HIDE DEF V
  <2>2. LongestOf(f[V], RowsAt(V), k, size)
    BY <1>1, <2>1
  <2>. QED
    BY <2>2 DEF V
<1>6. LongestOf(f[s], RowsAt(s), k, size)
  <2> DEFINE H == f[s \ {Max(s)}]
  <2>1. s \in SUBSET (1 .. n) /\ LongestOf(H, RowsAt(s \ {Max(s)}), k, size)
    BY <1>5
  <2>2. f[s] = Retained(H, Max(s) - 1, k, size)
    BY <1>2, <1>3
  <2>. HIDE DEF H
  <2>3. LongestOf(Retained(H, Max(s) - 1, k, size), RowsAt(s), k, size)
    BY <1>3, <2>1, PassedIsLongest
  <2>. QED
    BY <2>2, <2>3
<1>. QED
  BY <1>6

\* Something satisfies it.
LEMMA PassedExists ==
  ASSUME NEW n \in Nat, NEW size, SizesOK(n, size), NEW k \in Nat \ {0}
  PROVE  \E f : f = Passed(n, k, size, f)
<1> DEFINE h == [s \in SUBSET (1 .. n) |-> CHOOSE H : LongestOf(H, RowsAt(s), k, size)]
<1>1. \A s \in SUBSET (1 .. n) : LongestOf(h[s], RowsAt(s), k, size)
  BY LongestExists
<1>2. ASSUME NEW s \in SUBSET (1 .. n)
      PROVE  h[s] = IF s = {} THEN {} ELSE Retained(h[s \ {Max(s)}], Max(s) - 1, k, size)
  <2>. HIDE DEF h
  <2>1. CASE s = {}
    <3>1. LongestOf(h[s], {}, k, size)
      BY <1>1, <2>1, NoneIsLongest
    <3>. QED
      BY <2>1, <3>1 DEF LongestOf
  <2>2. CASE s # {}
    <3> DEFINE kept == Retained(h[s \ {Max(s)}], Max(s) - 1, k, size)
    <3>1. LongestOf(kept, RowsAt(s), k, size) /\ LongestOf(h[s], RowsAt(s), k, size)
      BY <1>1, <2>2, PassedIsLongest
    <3>2. RowsAt(s) \in SUBSET (0 .. n - 1)
      BY <2>2, MaxOf
    <3>. HIDE DEF kept
    <3>3. kept \subseteq h[s] /\ h[s] \subseteq kept
      BY <3>1, <3>2, LongestUnique
    <3>4. h[s] = kept
      BY <3>3
    <3>. QED
      BY <2>2, <3>4 DEF kept
  <2>. QED
    BY <2>1, <2>2
<1> DEFINE E(s) == IF s = {} THEN {} ELSE Retained(h[s \ {Max(s)}], Max(s) - 1, k, size)
           D == SUBSET (1 .. n)
<1>3. Passed(n, k, size, h) = [s \in D |-> E(s)]
  BY DEF Passed
<1>4. h = [s \in D |-> E(s)]
  <2>1. h = [s \in D |-> h[s]]
    OBVIOUS
  <2>. HIDE DEF h
  <2>2. \A s \in D : h[s] = E(s)
    BY <1>2
  <2>. HIDE DEF E, D
  <2>. QED
    BY <2>1, <2>2
<1>. QED
  BY <1>3, <1>4

\* The heap at the end of the pass holds the longest rows of the corpus.
LEMMA LongestFacts ==
  ASSUME NEW n \in Nat, NEW size, SizesOK(n, size), NEW k \in Nat
  PROVE  LongestOf(Longest(n, k, size), 0 .. n - 1, k, size)
<1>1. CASE k = 0
  <2>1. Longest(n, k, size) = {}
    BY <1>1 DEF Longest
  <2>2. Cardinality({}) = k
    BY <1>1, FS_EmptySet
  <2> DEFINE R == 0 .. n - 1
  <2>3. Cardinality({}) <= k
    BY <2>2
  <2>. HIDE DEF R
  <2>4. LongestOf({}, R, k, size)
    BY <2>2, <2>3 DEF LongestOf
  <2>. QED
    BY <2>1, <2>4 DEF R
<1>2. CASE k # 0
  <2> DEFINE seq == [p \in 1 .. n |-> p - 1]
             S == DOMAIN seq
             Body(f) == [s \in SUBSET S |->
                           IF s = {} THEN {}
                           ELSE Retained(f[s \ {Max(s)}], seq[Max(s)], k, size)]
             g == CHOOSE f : f = Body(f)
  <2>1. Longest(n, k, size) = g[S]
    BY <1>2 DEF Longest, FoldLeft, MapThenFoldSet
  <2>2. ASSUME NEW f PROVE Body(f) = Passed(n, k, size, f)
    <3> DEFINE P == 1 .. n
               A(s) == IF s = {} THEN {} ELSE Retained(f[s \ {Max(s)}], seq[Max(s)], k, size)
               B(s) == IF s = {} THEN {} ELSE Retained(f[s \ {Max(s)}], Max(s) - 1, k, size)
    <3>1. ASSUME NEW s \in SUBSET P PROVE A(s) = B(s)
      <4>1. CASE s # {}
        <5>1. Max(s) \in 1 .. n
          BY <4>1, MaxOf
        <5>2. seq[Max(s)] = Max(s) - 1
          BY <5>1
        <5>. HIDE DEF seq
        <5>. QED
          BY <4>1, <5>2
      <4>. QED
        BY <4>1
    <3>2. Body(f) = [s \in SUBSET P |-> A(s)] /\ Passed(n, k, size, f) = [s \in SUBSET P |-> B(s)]
      BY DEF Passed
    <3>. HIDE DEF A, B, Body, P
    <3>. QED
      BY <3>1, <3>2
  <2>. HIDE DEF Body
  <2>3. \E f : f = Body(f)
    BY <1>2, <2>2, PassedExists
  <2>4. g = Body(g)
    BY <2>3
  <2>5. g = Passed(n, k, size, g)
    BY <2>2, <2>4
  <2>. HIDE DEF g
  <2>6. LongestOf(g[1 .. n], RowsAt(1 .. n), k, size)
    BY <1>2, <2>5, PassedComputes
  <2>7. RowsAt(1 .. n) = 0 .. n - 1
    <3>1. \A r \in 0 .. n - 1 : r + 1 \in 1 .. n /\ r = (r + 1) - 1
      OBVIOUS
    <3>2. \A p \in 1 .. n : p - 1 \in 0 .. n - 1
      OBVIOUS
    <3>. QED
      BY <3>1, <3>2 DEF RowsAt
  <2>8. S = 1 .. n
    OBVIOUS
  <2>. QED
    BY <2>1, <2>6, <2>7, <2>8
<1>. QED
  BY <1>1, <1>2

\* The division that gives the last row.
LEMMA DivExact ==
  ASSUME NEW a \in Nat, a > 0, NEW b \in Nat
  PROVE  (a * b) \div a = b
<1> DEFINE q == (a * b) \div a
<1>1. a * b \in Nat /\ q \in Int /\ a * q <= a * b /\ a * b < a * q + a
  OBVIOUS
<1>. HIDE DEF q
<1>2. a * (b - q) >= 0 /\ a * (b - q) < a
  BY <1>1
<1>3. b - q \in Int
  BY <1>1
<1>4. b - q >= 0 /\ b - q < 1
  BY <1>2, <1>3
<1>. QED
  BY <1>1, <1>3, <1>4 DEF q

\* Multiples that are at least the divisor apart have different quotients.
LEMMA DivApart ==
  ASSUME NEW d \in Nat, d > 0, NEW m \in Nat, m >= d, NEW p \in Nat, NEW q \in Nat, p < q
  PROVE  (p * m) \div d < (q * m) \div d
<1> DEFINE a == p * m
           b == q * m
           x == a \div d
           y == b \div d
<1>1. a \in Nat /\ b \in Nat /\ b >= a + d
  <2>1. q - p \in Nat /\ q - p >= 1
    OBVIOUS
  <2>2. (q - p) * m >= m
    BY <2>1
  <2>3. b = a + (q - p) * m
    OBVIOUS
  <2>. QED
    BY <2>2, <2>3
<1>. HIDE DEF a, b
<1>2. /\ x \in Int /\ d * x <= a
      /\ y \in Int /\ b < d * y + d
  BY <1>1
<1>. HIDE DEF x, y
<1>3. d * (y - x) > 0
  BY <1>1, <1>2
<1>4. y - x \in Int
  BY <1>2
<1>5. y - x > 0
  BY <1>3, <1>4
<1>. QED
  BY <1>2, <1>5 DEF a, b, x, y

\* As many rows as requested if there are so many, the first and the last among them.
LEMMA SpacedFacts ==
  ASSUME NEW n \in Nat \ {0}, NEW k \in Nat
  PROVE  /\ EvenlySpaced(n, k) \subseteq 0 .. n - 1 /\ IsFiniteSet(EvenlySpaced(n, k))
         /\ Cardinality(EvenlySpaced(n, k)) = IF k < n THEN k ELSE n
         /\ k > 0 => 0 \in EvenlySpaced(n, k)
         /\ k > 1 => n - 1 \in EvenlySpaced(n, k)
<1>1. CASE k >= n
  <2> DEFINE R == 0 .. n - 1
  <2>2. IsFiniteSet(R) /\ Cardinality(R) = n /\ 0 \in R /\ n - 1 \in R
    BY FS_Interval
  <2>4. EvenlySpaced(n, k) =
          CASE k >= n -> R
            [] k <= 0 -> {}
            [] k = 1  -> {0}
            [] OTHER  -> {(p * (n - 1)) \div (k - 1) : p \in 0 .. k - 1}
    BY DEF EvenlySpaced
  <2>5. ~(k <= 0) /\ (k = 1 => R = {0})
    BY <1>1
  <2>. HIDE DEF R
  <2>1. EvenlySpaced(n, k) = R
    BY <1>1, <2>4, <2>5
  <2>3. Cardinality(EvenlySpaced(n, k)) = n
    BY <2>1, <2>2
  <2>. QED
    BY <1>1, <2>1, <2>2, <2>3 DEF R
<1>2. CASE k < n /\ k = 0
  <2>1. EvenlySpaced(n, k) = {}
    BY <1>2 DEF EvenlySpaced
  <2>2. IsFiniteSet({}) /\ Cardinality({}) = 0
    BY FS_EmptySet
  <2>. QED
    BY <1>2, <2>1, <2>2
<1>3. CASE k < n /\ k = 1
  <2>1. EvenlySpaced(n, k) = {0}
    BY <1>3 DEF EvenlySpaced
  <2>2. IsFiniteSet({0}) /\ Cardinality({0}) = 1
    BY FS_Singleton
  <2>. QED
    BY <1>3, <2>1, <2>2
<1>4. CASE k < n /\ k > 1
  <2> DEFINE row(p) == (p * (n - 1)) \div (k - 1)
             P == 0 .. k - 1
             f == [p \in P |-> row(p)]
             E == {row(p) : p \in P}
  <2>1. EvenlySpaced(n, k) = E
    BY <1>4 DEF EvenlySpaced
  <2>2. IsFiniteSet(P) /\ Cardinality(P) = k
    BY <1>4, FS_Interval
  <2>3. 0 \in P /\ k - 1 \in P /\ k - 1 \in Nat /\ k - 1 > 0 /\ n - 1 \in Nat
    BY <1>4
  <2>4. row(0) = 0 /\ row(k - 1) = n - 1
    <3>1. 0 * (n - 1) = 0 /\ 0 \div (k - 1) = 0
      BY <2>3
    <3>2. ((k - 1) * (n - 1)) \div (k - 1) = n - 1
      BY <2>3, DivExact
    <3>. QED
      BY <3>1, <3>2
  <2>5. 0 \in E /\ n - 1 \in E
    <3>. HIDE DEF row, P
    <3>1. row(0) \in E /\ row(k - 1) \in E
      BY <2>3
    <3>. QED
      BY <2>4, <3>1
  <2>6. \A p, q \in P : p < q => row(p) < row(q) /\ row(p) \in Int /\ row(q) \in Int
    <3>. SUFFICES ASSUME NEW p \in P, NEW q \in P, p < q
                  PROVE  row(p) < row(q) /\ row(p) \in Int /\ row(q) \in Int
      OBVIOUS
    <3>1. p \in Nat /\ q \in Nat /\ n - 1 >= k - 1
      BY <1>4
    <3>2. row(p) < row(q)
      BY <2>3, <3>1, DivApart
    <3>3. p * (n - 1) \in Int /\ q * (n - 1) \in Int
      BY <2>3, <3>1
    <3>. QED
      BY <2>3, <3>2, <3>3
  <2>7. IsFiniteSet(E) /\ Cardinality(E) = k
    <3>1. P \subseteq Int
      OBVIOUS
    <3>. HIDE DEF row, P
    <3>2. \A p, q \in P : row(p) = row(q) => p = q
      <4>1. \A p, q \in P : p # q => p < q \/ q < p
        BY <3>1
      <4>. QED
        BY <2>6, <4>1
    <3>3. f \in Bijection(P, E)
      BY <3>2 DEF Bijection, Injection, Surjection, IsInjective
    <3>. HIDE DEF f, E
    <3>. QED
      BY <2>2, <3>3, FS_Bijection DEF ExistsBijection
  <2>8. E \subseteq 0 .. n - 1
    <3>. SUFFICES ASSUME NEW p \in P PROVE row(p) \in 0 .. n - 1
      OBVIOUS
    <3>1. p \in Nat /\ p <= k - 1 /\ k - 1 \in P
      BY <2>3
    <3>2. row(p) \in Int /\ row(p) >= 0
      BY <2>3, <3>1
    <3>3. row(p) <= n - 1
      <4>1. p < k - 1 \/ p = k - 1
        BY <2>3, <3>1
      <4>. HIDE DEF row, P
      <4>2. ASSUME p < k - 1 PROVE row(p) < row(k - 1)
        BY <2>6, <3>1, <4>2
      <4>. QED
        BY <2>3, <2>4, <3>2, <4>1, <4>2
    <3>. QED
      BY <2>3, <3>2, <3>3
  <2>. HIDE DEF E
  <2>. QED
    BY <1>4, <2>1, <2>5, <2>7, <2>8
<1>. QED
  BY <1>1, <1>2, <1>3, <1>4

\* What select_document_sample declares of its categories, for every corpus.
LEMMA SampleFacts ==
  ASSUME NEW n \in Nat \ {0}, NEW size, SizesOK(n, size), NEW w,
         w.spaced \in Nat, w.longest \in Nat
  PROVE  LET R == 0 .. n - 1
             spaced == EvenlySpaced(n, w.spaced)
             longest == Longest(n, w.longest, size)
         IN  /\ Sample(n, w, size) = spaced \cup longest \cup w.truncated
             /\ spaced \in SUBSET R /\ longest \in SUBSET R
             /\ Cardinality(spaced) = Min({w.spaced, n})
             /\ w.spaced > 1 => {0, n - 1} \subseteq spaced
             /\ Cardinality(longest) = Min({w.longest, n})
             /\ \A a \in longest, b \in R \ longest : Worse(b, a, size)
<1> DEFINE R == 0 .. n - 1
           E == EvenlySpaced(n, w.spaced)
           L == Longest(n, w.longest, size)
<1>1. Sample(n, w, size) = E \cup L \cup w.truncated
  BY DEF Sample
<1>2. /\ E \subseteq R
      /\ Cardinality(E) = IF w.spaced < n THEN w.spaced ELSE n
      /\ w.spaced > 1 => {0, n - 1} \subseteq E
  BY SpacedFacts
<1>3. LongestOf(L, R, w.longest, size)
  BY LongestFacts
<1>4. IsFiniteSet(R) /\ Cardinality(R) = n
  <2> DEFINE last == n - 1
  <2>1. 0 \in Int /\ last \in Int
    OBVIOUS
  <2>. HIDE DEF last
  <2>2. /\ IsFiniteSet(0 .. last)
        /\ Cardinality(0 .. last) = IF 0 > last THEN 0 ELSE last - 0 + 1
    BY <2>1, FS_Interval
  <2>. QED
    BY <2>2 DEF last
<1>. HIDE DEF E, L, R
<1>5. L \subseteq R /\ Cardinality(L) = IF w.longest < n THEN w.longest ELSE n
  <2>1. /\ L \subseteq R /\ Cardinality(L) <= w.longest
        /\ L # R => Cardinality(L) = w.longest
    BY <1>3 DEF LongestOf
  <2>2. Cardinality(L) <= n
    BY <1>4, <2>1, FS_Subset
  <2>. QED
    BY <1>4, <2>1, <2>2
<1>6. \A k \in Nat : Min({k, n}) = IF k < n THEN k ELSE n
  <2>. SUFFICES ASSUME NEW k \in Nat PROVE Min({k, n}) = IF k < n THEN k ELSE n
    OBVIOUS
  <2>1. \E x \in {k, n} : \A y \in {k, n} : x <= y
    OBVIOUS
  <2>2. Min({k, n}) \in {k, n} /\ \A y \in {k, n} : Min({k, n}) <= y
    BY <2>1 DEF Min
  <2>. QED
    BY <2>2
<1>7. \A a \in L, b \in R \ L : Worse(b, a, size)
  BY <1>3 DEF LongestOf
<1>. QED
  BY <1>1, <1>2, <1>5, <1>6, <1>7 DEF E, L, R

-----------------------------------------------------------------------------
(***************************************************************************)
(* FinalizedExact: what is known of every value, of the captured artifact   *)
(* while its generation lasts, and of the validations made after a capture. *)
(***************************************************************************)

\* A parity run always computes the first row again: --evenly-spaced-documents
\* is at least 1.  With 0 the sample may consist of copied rows alone.
FirstRowSampled == \A w \in Wanted : w.spaced > 0

TierValues(t) ==
  /\ file[t] \in CacheFile \cup {None}
  /\ checkpoint[t] \in Checkpoint \cup {None}
  /\ begun[t] # None => checkpoint[t] # None
  /\ checkpoint[t] # None => file[t] # None /\ checkpoint[t].rows = Len(file[t].rows)
  /\ begun[t] # None /\ file[t].published => Len(file[t].rows) = Count[t]
  /\ sidecar[t] # None => /\ file[t] # None /\ file[t].published
                          /\ begun[t] = None /\ Len(file[t].rows) = Count[t]

Values ==
  /\ gguf \in ModelFile
  /\ server \in Process \cup {None}
  /\ begun \in [Tiers -> Ticks \cup {None}]
  /\ \A t \in Tiers : TierValues(t)
  /\ cap # None => cap.gguf \in ModelFile
  /\ Past(AfterPrefix) /\ cap.prefix # None => 1 \in DOMAIN cap.prefix.bytes
  /\ Past(AfterProcess) => cap.process \in Process \cup {None}
  /\ report # None => report.process \in Process \cup {None}

\* The cache born at b, as long as it is there, begins with these rows.
HeldBy(t, b, rows) ==
  file[t] # None /\ file[t].born = b =>
    \A i \in DOMAIN rows : i \in DOMAIN file[t].rows /\ file[t].rows[i] = rows[i]

\* Two probes that found the same process found the same model in it.
AgainKnown ==
  Past({"again"}) =>
    /\ cap.process # None /\ cap.process2.started = cap.process.started
         => cap.process2 = cap.process
    /\ HeldBy(cap.tier, cap.start.born, cap.rows)

ReportKnown ==
  report # None =>
    /\ cap = None
    /\ report.born \in Ticks /\ report.born <= now
    /\ report.tier \in Tiers /\ report.rows \in Seq(Row)
    /\ HeldBy(report.tier, report.born, report.rows)
    /\ report.process # None =>
         \A i \in DOMAIN report.rows : report.rows[i].model = report.process.loaded
    /\ report.process # None /\ report.prefix # None =>
         /\ 1 \in DOMAIN report.prefix.bytes
         /\ \A i \in DOMAIN report.prefix.bytes :
              report.prefix.bytes[i] = report.process.loaded

\* A validation of the captured generation saw the captured rows.
SeesReport(v) ==
  v.tier = report.tier /\ v.born = report.born =>
    \A i \in DOMAIN report.rows :
      i \in DOMAIN v.bytes /\ v.bytes[i] = report.rows[i].model

CheckKnown ==
  check # None =>
    /\ report # None
    /\ DOMAIN check = {"tier", "bytes", "born", "gguf", "sample", "wanted"}
    /\ 0 \in check.sample
    /\ SeesReport(check)

NativeKnown == \A n \in native : n.steady => n.model = n.of.gguf

\* The first row was computed by the model that the validation names.
Validated(v) ==
  /\ v.steady => v.bytes[1] = v.gguf
  /\ SeesReport(v)

ParityKnown == parity # None => report # None /\ Validated(parity)

FinalKnown ==
  final # None =>
    /\ report # None /\ final.capture = report
    /\ Validated(final.parity)
    /\ final.parity.gguf = report.gguf.content
    /\ final.parity.tier # report.tier =>
         report.prefix # None /\ report.prefix.bytes = final.parity.bytes

Attested == AgainKnown /\ ReportKnown /\ CheckKnown /\ NativeKnown /\ ParityKnown
            /\ FinalKnown

LEMMA InitValues == Init => Values /\ Attested
<1> SUFFICES ASSUME Init PROVE Values /\ Attested
  OBVIOUS
<1> USE DEF Init
<1>1. gguf \in ModelFile
  BY AttestationAssumption DEF ModelFile, Moments
<1>2. Values
  BY <1>1 DEF Values, TierValues, Past
<1>3. Attested
  BY DEF Attested, AgainKnown, ReportKnown, CheckKnown, NativeKnown, ParityKnown,
     FinalKnown, Past
<1>. QED
  BY <1>2, <1>3

\* Whatever the corpus, its first row is among at least one evenly spaced row.
LEMMA FirstRow ==
  ASSUME FirstRowSampled, NEW t \in Tiers, NEW w \in Wanted
  PROVE  0 \in Sample(Count[t], w, Size)
<1>1. Count[t] \in Nat \ {0} /\ w.spaced \in Nat /\ w.spaced > 0
  BY AttestationAssumption DEF FirstRowSampled
<1>2. 0 \in EvenlySpaced(Count[t], w.spaced)
  BY <1>1, SpacedFacts
<1>. QED
  BY <1>2 DEF Sample

\* The rows of a cache are rows of a source, and their bytes are vectors.
LEMMA RowsFit ==
  ASSUME NEW t \in Tiers, NEW rows \in Seq(Row), Len(rows) <= Count[t]
  PROVE  /\ Len(rows) \in 0 .. Count["1m"]
         /\ rows \in RowsOf("1m") /\ Bytes(rows) \in Vectors
<1>1. Len(rows) \in 0 .. Count["1m"]
  BY AttestationAssumption DEF Tiers
<1>2. rows \in [1 .. Len(rows) -> Row]
  OBVIOUS
<1>3. Bytes(rows) \in [1 .. Len(rows) -> Models]
  BY <1>2 DEF Bytes, Row
<1>. QED
  BY <1>1, <1>2, <1>3 DEF RowsOf, Vectors

LEMMA TierValuesFrame ==
  ASSUME NEW t, TierValues(t), begun'[t] = begun[t], file'[t] = file[t],
         checkpoint'[t] = checkpoint[t], sidecar'[t] = sidecar[t]
  PROVE  TierValues(t)'
BY DEF TierValues

-----------------------------------------------------------------------------
\* A new generation starts from rows that fit.
LEMMA BeginValues ==
  ASSUME WorldShape, CacheShape, WorldShape', Values, NEW t \in Tiers,
         NEW rows \in Seq(Row), Len(rows) <= Count[t],
         NEW seed \in Vectors \cup {None}, Begin(t, rows, seed)
  PROVE  begun' \in [Tiers -> Ticks \cup {None}] /\ \A u \in Tiers : TierValues(u)'
<1> USE DEF Values, CacheShape
<1>1. now' \in Ticks
  BY AttestationAssumption DEF Begin, Tick, WorldShape, Ticks
<1>2. /\ begun' = [begun EXCEPT ![t] = now']
      /\ file' = [file EXCEPT ![t] = [born |-> now', rows |-> rows, published |-> FALSE]]
      /\ checkpoint' = [checkpoint EXCEPT ![t] = NewCheckpoint(rows, seed)]
      /\ sidecar' = sidecar /\ file[t] = None
  BY DEF Begin
<1>3. file'[t] \in CacheFile /\ file'[t].rows = rows
  BY <1>1, <1>2, RowsFit DEF CacheFile
<1>4. checkpoint'[t] = NewCheckpoint(rows, seed)
  BY <1>2
<1>5. checkpoint'[t] \in Checkpoint /\ checkpoint'[t].rows = Len(rows)
  BY <1>1, <1>4, RowsFit DEF NewCheckpoint, Checkpoint, WorldShape
<1>6. TierValues(t)'
  BY <1>2, <1>3, <1>5, NoneAssumption DEF TierValues
<1>7. ASSUME NEW u \in Tiers \ {t} PROVE TierValues(u)'
  BY <1>2, <1>7, TierValuesFrame
<1>. QED
  BY <1>1, <1>2, <1>6, <1>7

\* Appended rows are counted by the checkpoint in the same step.
LEMMA AppendValues ==
  ASSUME WorldShape, CacheShape, WorldShape', CacheShape', Values, NEW t \in Tiers,
         Append_(t)
  PROVE  begun' = begun /\ \A u \in Tiers : TierValues(u)'
<1> USE DEF Values, CacheShape
<1>1. now' \in Ticks
  BY AttestationAssumption DEF Append_, Tick, WorldShape, Ticks
<1>2. /\ begun' = begun /\ sidecar' = sidecar
      /\ file' = [file EXCEPT ![t].rows = @ \o answer[t]]
      /\ checkpoint' = [checkpoint EXCEPT ![t].rows = @ + Len(answer[t]),
                                          ![t].updated = now']
  BY DEF Append_
<1>3. /\ begun[t] # None /\ file[t] \in CacheFile /\ checkpoint[t] \in Checkpoint
      /\ checkpoint[t].rows = Len(file[t].rows)
      /\ answer[t] \in Seq(Row) /\ file[t].rows \in Seq(Row)
  BY DEF Append_, TierShape, TierValues, FileShape
<1>4. /\ file'[t] = [file[t] EXCEPT !.rows = @ \o answer[t]]
      /\ checkpoint'[t] = [checkpoint[t] EXCEPT !.rows = @ + Len(answer[t]), !.updated = now']
  BY <1>2
<1>5. FileShape(t)'
  BY <1>2, <1>3 DEF TierShape
<1>6. /\ file'[t].rows = file[t].rows \o answer[t]
      /\ file'[t].born = file[t].born /\ file'[t].published = file[t].published
      /\ file'[t] = [born |-> file[t].born, rows |-> file'[t].rows,
                     published |-> file[t].published]
  BY <1>3, <1>4 DEF CacheFile
<1>7. file'[t] \in CacheFile
  <2>1. file'[t].rows \in RowsOf("1m")
    BY <1>5, RowsFit DEF FileShape
  <2>. QED
    BY <1>3, <1>6, <2>1 DEF CacheFile
<1>8. /\ checkpoint'[t].rows = Len(file'[t].rows)
      /\ checkpoint'[t] = [created |-> checkpoint[t].created, updated |-> now',
                           rows |-> Len(file'[t].rows), seed |-> checkpoint[t].seed,
                           model |-> checkpoint[t].model, status |-> checkpoint[t].status]
  <2>1. Len(file'[t].rows) = checkpoint[t].rows + Len(answer[t])
    BY <1>3, <1>6
  <2>. QED
    BY <1>3, <1>4, <2>1 DEF Checkpoint
<1>9. checkpoint'[t] \in Checkpoint
  <2>1. Len(file'[t].rows) \in 0 .. Count["1m"]
    BY <1>5, RowsFit DEF FileShape
  <2>. QED
    BY <1>1, <1>3, <1>8, <2>1 DEF Checkpoint
<1>10. TierValues(t)'
  <2>1. sidecar[t] = None /\ ~file[t].published /\ ~file'[t].published
    <3>1. answer[t] # None /\ checkpoint[t].status = "running"
      BY DEF Append_, TierShape
    <3>. QED
      BY <1>3, <1>6, <3>1 DEF TierShape, TierValues, CacheFile
  <2>2. sidecar'[t] = None /\ file'[t] # None /\ checkpoint'[t] # None
    BY <1>2, <1>7, <1>9, <2>1, NoneAssumption
  <2>. QED
    BY <1>7, <1>8, <1>9, <2>1, <2>2 DEF TierValues
<1>11. ASSUME NEW u \in Tiers \ {t} PROVE TierValues(u)'
  BY <1>2, <1>11, TierValuesFrame
<1>. QED
  BY <1>2, <1>10, <1>11

LEMMA PublishValues ==
  ASSUME WorldShape, CacheShape, Values, NEW t \in Tiers, Publish(t)
  PROVE  begun' = begun /\ \A u \in Tiers : TierValues(u)'
<1> USE DEF Values, CacheShape
<1>1. /\ begun' = begun /\ sidecar' = sidecar
      /\ file' = [file EXCEPT ![t].published = TRUE]
      /\ checkpoint' = [checkpoint EXCEPT ![t].status = "ready-to-publish"]
  BY DEF Publish
<1>2. /\ begun[t] # None /\ file[t] \in CacheFile /\ checkpoint[t] \in Checkpoint
      /\ checkpoint[t].rows = Len(file[t].rows)
  BY DEF Publish, TierValues
<1>3. /\ file'[t] = [file[t] EXCEPT !.published = TRUE]
      /\ checkpoint'[t] = [checkpoint[t] EXCEPT !.status = "ready-to-publish"]
  BY <1>1
<1>4. /\ file'[t] \in CacheFile /\ file'[t].published /\ file'[t].rows = file[t].rows
      /\ checkpoint'[t] \in Checkpoint /\ checkpoint'[t].rows = checkpoint[t].rows
  BY <1>2, <1>3 DEF CacheFile, Checkpoint
<1>5. TierValues(t)'
  <2>1. sidecar'[t] = None /\ Len(file'[t].rows) = Count[t]
    BY <1>1, <1>2, <1>4 DEF Publish, TierValues
  <2>2. file'[t] # None /\ checkpoint'[t] # None
    BY <1>4, NoneAssumption
  <2>. QED
    BY <1>2, <1>4, <2>1, <2>2 DEF TierValues
<1>6. ASSUME NEW u \in Tiers \ {t} PROVE TierValues(u)'
  BY <1>1, <1>6, TierValuesFrame
<1>. QED
  BY <1>1, <1>5, <1>6

\* The checkpoint goes when the sidecar comes.
LEMMA DescribeValues ==
  ASSUME WorldShape, CacheShape, Values, NEW t \in Tiers, Describe(t)
  PROVE  begun' \in [Tiers -> Ticks \cup {None}] /\ \A u \in Tiers : TierValues(u)'
<1> USE DEF Values, CacheShape
<1>1. /\ begun' = [begun EXCEPT ![t] = None] /\ file' = file
      /\ checkpoint' = [checkpoint EXCEPT ![t] = None]
      /\ begun[t] # None /\ file[t].published
  BY DEF Describe
<1>2. TierValues(t)'
  BY <1>1 DEF TierValues
<1>3. ASSUME NEW u \in Tiers \ {t} PROVE TierValues(u)'
  <2>1. sidecar'[u] = sidecar[u]
    BY <1>3 DEF Describe
  <2>. QED
    BY <1>1, <1>3, <2>1, TierValuesFrame
<1>. QED
  BY <1>1, <1>2, <1>3

LEMMA DeleteValues ==
  ASSUME CacheShape, Values, NEW t \in Tiers, Delete(t)
  PROVE  begun' \in [Tiers -> Ticks \cup {None}] /\ \A u \in Tiers : TierValues(u)'
<1> USE DEF Values, CacheShape
<1>1. /\ begun' = [begun EXCEPT ![t] = None] /\ file' = [file EXCEPT ![t] = None]
      /\ checkpoint' = [checkpoint EXCEPT ![t] = None]
      /\ sidecar' = [sidecar EXCEPT ![t] = None]
  BY DEF Delete
<1>2. TierValues(t)'
  BY <1>1 DEF TierValues
<1>3. ASSUME NEW u \in Tiers \ {t} PROVE TierValues(u)'
  BY <1>1, <1>3, TierValuesFrame
<1>. QED
  BY <1>1, <1>2, <1>3

\* A step of the generation acts on one tier.
LEMMA CachesKeepValues ==
  ASSUME WorldShape, CacheShape, WorldShape', CacheShape', Values, Next
  PROVE  begun' \in [Tiers -> Ticks \cup {None}] /\ \A u \in Tiers : TierValues(u)'
<1>1. CASE UNCHANGED caches
  BY <1>1 DEF caches, Values, TierValues
<1>2. CASE StartServer \/ StopServer \/ ReplaceModel \/ Attestation \/ Validation
  <2>1. UNCHANGED caches
    BY <1>2 DEF StartServer, StopServer, ReplaceModel, Attestation, HashArtifact, Reading,
       ReadCheckpoint, StatStart, ReadPrefix, ProbeBefore, Rehash, ProbeAfter, Capture,
       Abandon, Finalize, Validation, ParityInputs, NativeRun, ParityPasses, ParityFails
  <2>. QED
    BY <1>1, <2>1
<1>3. CASE \E t \in Tiers : Delete(t)
  BY <1>3, DeleteValues
<1>4. CASE BeginFromPrefix
  <2> DEFINE rows == file["100k"].rows
  <2>1. "1m" \in Tiers /\ rows \in Seq(Row) /\ Len(rows) <= Count["1m"]
    BY <1>4, PrefixFits DEF Tiers
  <2>2. Bytes(rows) \in Vectors
    BY <2>1, RowsFit
  <2>3. Begin("1m", rows, Bytes(rows))
    BY <1>4 DEF BeginFromPrefix
  <2>. HIDE DEF rows
  <2>. QED
    BY <2>1, <2>2, <2>3, BeginValues
<1>5. ASSUME NEW t \in Tiers, BeginEmpty(t)
      PROVE  begun' \in [Tiers -> Ticks \cup {None}] /\ \A u \in Tiers : TierValues(u)'
  <2>1. << >> \in Seq(Row) /\ Len(<< >>) <= Count[t]
    BY AttestationAssumption
  <2>2. Begin(t, << >>, None)
    BY <1>5 DEF BeginEmpty
  <2>. QED
    BY <2>1, <2>2, BeginValues
<1>6. ASSUME NEW t \in Tiers, Answer(t)
      PROVE  begun' \in [Tiers -> Ticks \cup {None}] /\ \A u \in Tiers : TierValues(u)'
  <2>1. UNCHANGED <<begun, file, checkpoint, sidecar>>
    BY <1>6 DEF Answer
  <2>. QED
    BY <2>1, TierValuesFrame DEF Values
<1>7. ASSUME NEW t \in Tiers, Append_(t) \/ Publish(t)
      PROVE  begun' \in [Tiers -> Ticks \cup {None}] /\ \A u \in Tiers : TierValues(u)'
  <2>1. begun' = begun /\ \A u \in Tiers : TierValues(u)'
    BY <1>7, AppendValues, PublishValues
  <2>. QED
    BY <2>1 DEF Values
<1>8. ASSUME NEW t \in Tiers, Describe(t)
      PROVE  begun' \in [Tiers -> Ticks \cup {None}] /\ \A u \in Tiers : TierValues(u)'
  BY <1>8, DescribeValues
<1>. QED
  BY <1>2, <1>3, <1>4, <1>5, <1>6, <1>7, <1>8 DEF Next, Operator, Generation

LEMMA WorldKeepsValues ==
  ASSUME WorldShape, WorldShape', gguf \in ModelFile, server \in Process \cup {None}, Next
  PROVE  gguf' \in ModelFile /\ server' \in Process \cup {None}
<1>1. CASE StartServer
  <2>1. now' \in Ticks
    BY <1>1, AttestationAssumption DEF StartServer, Tick, WorldShape, Ticks
  <2>. QED
    BY <1>1, <2>1 DEF StartServer, ModelFile, Process
<1>2. CASE StopServer
  BY <1>2 DEF StopServer
<1>3. CASE ReplaceModel
  <2>1. now' \in Moments /\ 0 \in Moments
    BY <1>3, AttestationAssumption DEF ReplaceModel, Tick, WorldShape, Moments
  <2>2. gguf' \in ModelFile
    BY <1>3, <2>1 DEF ReplaceModel, ModelFile
  <2>. QED
    BY <1>3, <2>2 DEF ReplaceModel
<1>4. CASE Generation \/ Attestation \/ Validation \/ \E t \in Tiers : Delete(t)
  <2>1. UNCHANGED <<gguf, server>>
    BY <1>4 DEF Delete, Generation, BeginFromPrefix, BeginEmpty, Begin, Answer, Append_,
       Publish, Describe, Attestation, HashArtifact, Reading, ReadCheckpoint, StatStart,
       ReadPrefix, ProbeBefore, Rehash, ProbeAfter, Capture, Abandon, Finalize, Validation,
       ParityInputs, NativeRun, ParityPasses, ParityFails, world
  <2>. QED
    BY <2>1
<1>. QED
  BY <1>1, <1>2, <1>3, <1>4 DEF Next, Operator

\* A capture copies the model file and the process that it reads.
LEMMA CaptureKeepsValues ==
  ASSUME CapShape, Values, Next
  PROVE  /\ cap' # None => cap'.gguf \in ModelFile
         /\ Past(AfterPrefix)' /\ cap'.prefix # None => 1 \in DOMAIN cap'.prefix.bytes
         /\ Past(AfterProcess)' => cap'.process \in Process \cup {None}
         /\ report' # None => report'.process \in Process \cup {None}
<1> USE DEF Values, CapShape, Past, AfterPrefix, AfterProcess
<1>1. CASE UNCHANGED captures
  BY <1>1 DEF captures
<1>2. CASE Operator \/ Generation \/ Validation \/ Finalize
  <2>1. UNCHANGED captures
    BY <1>2 DEF Operator, StartServer, StopServer, ReplaceModel, Delete, Generation,
       BeginFromPrefix, BeginEmpty, Begin, Answer, Append_, Publish, Describe, Validation,
       ParityInputs, NativeRun, ParityPasses, ParityFails, Finalize
  <2>. QED
    BY <1>1, <2>1
<1>3. CASE \E t \in Tiers : HashArtifact(t)
  <2>1. cap'.at = "checkpoint" /\ cap'.gguf = gguf /\ report' = report
    BY <1>3 DEF HashArtifact, NewCapture
  <2>. QED
    BY <2>1
<1>4. CASE ReadCheckpoint \/ StatStart
  <2>1. /\ cap # None /\ cap'.gguf = cap.gguf /\ report' = report
        /\ cap'.at \in {"start", "prefix"}
    BY <1>4 DEF ReadCheckpoint, StatStart, Reading, CapFields
  <2>. QED
    BY <2>1
<1>9. CASE ReadPrefix
  <2>1. /\ cap # None /\ cap'.gguf = cap.gguf /\ report' = report /\ cap'.at = "process"
    BY <1>9 DEF ReadPrefix, Reading, CapFields
  <2>2. ASSUME cap'.prefix # None PROVE 1 \in DOMAIN cap'.prefix.bytes
    <3> DEFINE rows == file["100k"].rows
    <3>1. DOMAIN cap = CapFields /\ cap.at = "prefix" /\ cap.prefix = None
      BY <1>9 DEF ReadPrefix, Reading
    <3>2. cap' # [cap EXCEPT !.at = "process"]
      <4>. SUFFICES ASSUME cap' = [cap EXCEPT !.at = "process"] PROVE FALSE
        OBVIOUS
      <4>1. [cap EXCEPT !.at = "process"].prefix = cap.prefix
        BY <3>1 DEF CapFields
      <4>. QED
        BY <2>2, <3>1, <4>1
    <3>3. /\ sidecar["100k"] # None /\ Bytes(rows) = cap.before.seed
          /\ cap'.prefix = [bytes |-> cap.before.seed, time |-> PrefixStart]
      BY <1>9, <3>2 DEF ReadPrefix, CapFields
    <3>4. file["100k"] \in CacheFile /\ Len(rows) = Count["100k"]
      BY <3>3 DEF TierValues, Tiers
    <3>5. rows \in RowsOf("1m") /\ Count["100k"] \in Nat \ {0} /\ Count["1m"] \in Nat
      BY <3>4, AttestationAssumption DEF CacheFile, Tiers
    <3>. HIDE DEF rows
    <3>6. PICK n \in 0 .. Count["1m"] : rows \in [1 .. n -> Row]
      BY <3>5 DEF RowsOf
    <3>7. DOMAIN rows = 1 .. n /\ n \in Nat
      BY <3>5, <3>6
    <3>8. 1 \in DOMAIN rows
      <4>1. Len(rows) = n
        BY <3>6, <3>7
      <4>. QED
        BY <3>4, <3>5, <3>7, <4>1
    <3>9. 1 \in DOMAIN Bytes(rows) /\ cap'.prefix.bytes = Bytes(rows)
      BY <3>3, <3>8 DEF Bytes
    <3>. QED
      BY <3>9
  <2>. QED
    BY <2>1, <2>2
<1>5. CASE ProbeBefore
  <2>1. /\ cap # None /\ cap.at = "process" /\ cap'.gguf = cap.gguf /\ report' = report
        /\ cap'.prefix = cap.prefix /\ cap'.process \in {server, None} /\ server # None
    BY <1>5 DEF ProbeBefore, Reading, Listens, CapFields
  <2>. QED
    BY <2>1
<1>6. CASE Rehash \/ ProbeAfter
  <2>1. /\ cap # None /\ cap.at \in AfterProcess /\ cap'.gguf = cap.gguf
        /\ cap'.prefix = cap.prefix /\ cap'.process = cap.process /\ report' = report
    BY <1>6 DEF Rehash, ProbeAfter, Reading, CapFields
  <2>. QED
    BY <2>1
<1>7. CASE Capture
  <2>1. /\ cap # None /\ cap.at = "again" /\ cap' = None /\ report'.process = cap.process
    BY <1>7 DEF Capture
  <2>. QED
    BY <2>1
<1>8. CASE Abandon
  BY <1>8 DEF Abandon
<1>. QED
  BY <1>2, <1>3, <1>4, <1>5, <1>6, <1>7, <1>8, <1>9 DEF Next, Attestation

LEMMA ValuesKeep ==
  ASSUME IInv, IInv', Values, Next
  PROVE  Values'
<1>1. /\ WorldShape /\ CacheShape /\ CapShape /\ WorldShape' /\ CacheShape'
      /\ gguf \in ModelFile /\ server \in Process \cup {None}
  BY DEF IInv, CapKnown, Values
<1>. QED
  BY <1>1, CachesKeepValues, WorldKeepsValues, CaptureKeepsValues DEF Values

\* The type invariant of the runs.
LEMMA WellTyped ==
  ASSUME IInv, Values
  PROVE  AttestationTypeOK
<1>1. now \in Moments
  BY DEF IInv, WorldShape, Moments
<1>2. ASSUME NEW t \in Tiers
      PROVE  /\ file[t] # None => /\ DOMAIN file[t].rows \subseteq 1 .. Count[t]
                                  /\ \A i \in DOMAIN file[t].rows : file[t].rows[i] \in Row
             /\ checkpoint[t] # None => /\ file[t] # None
                                        /\ checkpoint[t].rows = Len(file[t].rows)
             /\ sidecar[t] # None => file[t] # None /\ file[t].published
             /\ begun[t] # None => checkpoint[t] # None
             /\ answer[t] # None =>
                  /\ checkpoint[t].status = "running"
                  /\ Len(file[t].rows) + Len(answer[t]) <= Count[t]
  <2>1. TierShape(t) /\ TierValues(t)
    BY DEF IInv, CacheShape, Values
  <2>2. ASSUME file[t] # None
        PROVE  /\ DOMAIN file[t].rows \subseteq 1 .. Count[t]
               /\ \A i \in DOMAIN file[t].rows : file[t].rows[i] \in Row
    <3>1. FileShape(t)
      BY <2>1, <2>2 DEF TierShape
    <3>2. /\ DOMAIN file[t].rows = 1 .. Len(file[t].rows)
          /\ Len(file[t].rows) \in Nat /\ Len(file[t].rows) <= Count[t] /\ Count[t] \in Nat
      BY <3>1, AttestationAssumption DEF FileShape
    <3>. QED
      BY <3>1, <3>2 DEF FileShape
  <2>. QED
    BY <2>1, <2>2 DEF TierShape, TierValues
<1>3. cap # None => cap.tier \in Tiers
  BY DEF IInv, CapKnown, CapShape
<1>. QED
  BY <1>1, <1>2, <1>3 DEF AttestationTypeOK, Values

-----------------------------------------------------------------------------
(***************************************************************************)
(* A generation is append-only: a cache born before this step was there      *)
(* already, and keeps its rows.                                             *)
(***************************************************************************)
LEMMA FileGrows ==
  ASSUME WorldShape, CacheShape, Values, Next, NEW t \in Tiers, NEW b \in Nat, b <= now,
         file'[t] # None, file'[t].born = b
  PROVE  /\ file[t] # None /\ file[t].born = b
         /\ \A i \in DOMAIN file[t].rows :
              i \in DOMAIN file'[t].rows /\ file'[t].rows[i] = file[t].rows[i]
<1> USE DEF CacheShape
<1>1. CASE file' = file
  BY <1>1
<1>2. CASE StartServer \/ StopServer \/ ReplaceModel \/ Attestation \/ Validation
  <2>1. UNCHANGED file
    BY <1>2 DEF StartServer, StopServer, ReplaceModel, Attestation, HashArtifact, Reading,
       ReadCheckpoint, StatStart, ReadPrefix, ProbeBefore, Rehash, ProbeAfter, Capture,
       Abandon, Finalize, Validation, ParityInputs, NativeRun, ParityPasses, ParityFails,
       caches
  <2>. QED
    BY <1>1, <2>1
<1>3. ASSUME NEW u \in Tiers, Delete(u)
      PROVE  file'[t] = file[t]
  BY <1>3 DEF Delete
<1>4. ASSUME NEW u \in Tiers, NEW rows, NEW seed, Begin(u, rows, seed)
      PROVE  file'[t] = file[t]
  <2>1. file' = [file EXCEPT ![u] = [born |-> now', rows |-> rows, published |-> FALSE]]
        /\ now' = now + 1
    BY <1>4 DEF Begin, Tick
  <2>2. CASE t = u
    <3>1. file'[t].born = now + 1
      BY <2>1, <2>2
    <3>. QED
      BY <3>1, AttestationAssumption DEF WorldShape
  <2>. QED
    BY <2>1, <2>2
<1>5. CASE BeginFromPrefix
  <2>1. file'[t] = file[t]
    BY <1>4, <1>5 DEF BeginFromPrefix, Tiers
  <2>. QED
    BY <2>1
<1>6. ASSUME NEW u \in Tiers, BeginEmpty(u)
      PROVE  file'[t] = file[t]
  BY <1>4, <1>6 DEF BeginEmpty
<1>7. ASSUME NEW u \in Tiers, Answer(u) \/ Describe(u)
      PROVE  file'[t] = file[t]
  BY <1>7 DEF Answer, Describe
<1>8. ASSUME NEW u \in Tiers, Append_(u), t = u
      PROVE  /\ file[t] # None /\ file[t].born = b
             /\ \A i \in DOMAIN file[t].rows :
                  i \in DOMAIN file'[t].rows /\ file'[t].rows[i] = file[t].rows[i]
  <2>1. /\ begun[t] # None /\ file[t] \in CacheFile
        /\ answer[t] \in Seq(Row) /\ file[t].rows \in Seq(Row)
        /\ file'[t] = [file[t] EXCEPT !.rows = @ \o answer[t]]
    BY <1>8 DEF Append_, TierShape, FileShape, Values, TierValues
  <2>2. file'[t].rows = file[t].rows \o answer[t] /\ file'[t].born = file[t].born
    BY <2>1 DEF CacheFile
  <2>. QED
    BY <2>1, <2>2, NoneAssumption
<1>9. ASSUME NEW u \in Tiers, Append_(u), t # u
      PROVE  file'[t] = file[t]
  BY <1>9 DEF Append_
<1>10. ASSUME NEW u \in Tiers, Publish(u)
       PROVE  /\ file[t] # None /\ file[t].born = b
              /\ \A i \in DOMAIN file[t].rows :
                   i \in DOMAIN file'[t].rows /\ file'[t].rows[i] = file[t].rows[i]
  <2>1. CASE t = u
    <3>1. file[t] \in CacheFile /\ file'[t] = [file[t] EXCEPT !.published = TRUE]
      BY <1>10, <2>1 DEF Publish, Values, TierValues
    <3>2. file'[t].rows = file[t].rows /\ file'[t].born = file[t].born
      BY <3>1 DEF CacheFile
    <3>. QED
      BY <3>1, <3>2, NoneAssumption
  <2>2. CASE t # u
    <3>1. file'[t] = file[t]
      BY <1>10, <2>2 DEF Publish
    <3>. QED
      BY <3>1
  <2>. QED
    BY <2>1, <2>2
<1>. QED
  BY <1>2, <1>3, <1>5, <1>6, <1>7, <1>8, <1>9, <1>10 DEF Next, Operator, Generation

LEMMA StillHeld ==
  ASSUME WorldShape, CacheShape, Values, Next, NEW t \in Tiers, NEW b \in Nat, b <= now,
         NEW rows, HeldBy(t, b, rows), file'[t] # None, file'[t].born = b,
         NEW i \in DOMAIN rows
  PROVE  i \in DOMAIN file'[t].rows /\ file'[t].rows[i] = rows[i]
<1>1. /\ file[t] # None /\ file[t].born = b
      /\ \A j \in DOMAIN file[t].rows :
           j \in DOMAIN file'[t].rows /\ file'[t].rows[j] = file[t].rows[j]
  BY FileGrows
<1>2. i \in DOMAIN file[t].rows /\ file[t].rows[i] = rows[i]
  BY <1>1 DEF HeldBy
<1>. QED
  BY <1>1, <1>2

LEMMA AgainKeeps ==
  ASSUME IInv, Values, AgainKnown, Next
  PROVE  AgainKnown'
<1>. SUFFICES ASSUME Past({"again"})'
              PROVE  AgainKnown'
  BY DEF AgainKnown
<1>1. WorldShape /\ CacheShape /\ CapShape /\ StartKnown /\ ProcessKnown
  BY DEF IInv, CapKnown
<1>2. CASE cap' = cap
  <2>1. /\ Past({"again"}) /\ cap.tier \in Tiers
        /\ cap.start.born \in Nat /\ cap.start.born <= now
    BY <1>1, <1>2, AttestationAssumption DEF Past, CapShape, StartKnown, AfterStart, Ticks
  <2>2. HeldBy(cap.tier, cap.start.born, cap.rows)
        /\ (cap.process # None /\ cap.process2.started = cap.process.started
              => cap.process2 = cap.process)
    BY <2>1 DEF AgainKnown
  <2>3. ASSUME file'[cap.tier] # None, file'[cap.tier].born = cap.start.born,
               NEW i \in DOMAIN cap.rows
        PROVE  i \in DOMAIN file'[cap.tier].rows /\ file'[cap.tier].rows[i] = cap.rows[i]
    BY <1>1, <2>1, <2>2, <2>3, StillHeld
  <2>4. HeldBy(cap.tier, cap.start.born, cap.rows)'
    BY <1>2, <2>3 DEF HeldBy
  <2>. QED
    BY <1>2, <2>2, <2>4 DEF AgainKnown
<1>3. CASE ProbeAfter
  <2>1. /\ Past(AfterProcess) /\ file' = file
        /\ cap'.tier = cap.tier /\ cap'.start = cap.start /\ cap'.process = cap.process
        /\ cap.process # None => cap'.process2 = server /\ server # None
        /\ cap'.rows = IF file[cap.tier] = None THEN << >> ELSE file[cap.tier].rows
    BY <1>1, <1>3 DEF ProbeAfter, Reading, Listens, Past, AfterProcess, CapShape, CapFields,
       caches
  <2>2. cap'.process # None /\ cap'.process2.started = cap'.process.started
          => cap'.process2 = cap'.process
    BY <1>1, <2>1 DEF ProcessKnown
  <2>3. HeldBy(cap.tier, cap.start.born, cap.rows)'
    <3>1. CASE file[cap.tier] = None
      BY <2>1, <3>1 DEF HeldBy
    <3>2. CASE file[cap.tier] # None
      <4>1. cap'.rows = file'[cap'.tier].rows
        BY <2>1, <3>2
      <4>. QED
        BY <4>1 DEF HeldBy
    <3>. QED
      BY <3>1, <3>2
  <2>. QED
    BY <2>2, <2>3 DEF AgainKnown
<1>4. CASE \/ \E t \in Tiers : HashArtifact(t)
           \/ ReadCheckpoint \/ StatStart \/ ReadPrefix \/ ProbeBefore \/ Rehash
           \/ Capture \/ Abandon
  <2>1. cap' = None \/ cap'.at # "again"
    <3>1. CASE Capture \/ Abandon
      BY <3>1 DEF Capture, Abandon
    <3>2. CASE \E t \in Tiers : HashArtifact(t)
      BY <3>2 DEF HashArtifact, NewCapture
    <3>3. CASE ReadCheckpoint \/ StatStart \/ ProbeBefore \/ Rehash
      BY <1>1, <3>3 DEF ReadCheckpoint, StatStart, ProbeBefore, Rehash, Reading, CapShape,
         CapFields
    <3>4. CASE ReadPrefix
      BY <1>1, <3>4 DEF ReadPrefix, Reading, CapShape, CapFields
    <3>. QED
      BY <1>4, <3>1, <3>2, <3>3, <3>4
  <2>. QED
    BY <2>1 DEF Past
<1>5. CASE Finalize \/ Operator \/ Generation \/ Validation
  <2>1. cap' = cap
    BY <1>5 DEF Finalize, Operator, StartServer, StopServer, ReplaceModel, Delete,
       Generation, BeginFromPrefix, BeginEmpty, Begin, Answer, Append_, Publish, Describe,
       Validation, ParityInputs, NativeRun, ParityPasses, ParityFails, captures
  <2>. QED
    BY <1>2, <2>1
<1>. QED
  BY <1>3, <1>4, <1>5 DEF Next, Attestation

-----------------------------------------------------------------------------
(***************************************************************************)
(* The capture that is followed is written once, and validations follow it. *)
(***************************************************************************)
LEMMA ReportStable ==
  ASSUME ReportKnown, Next
  PROVE  /\ report # None => report' = report /\ cap' = cap
         /\ ~Capture => report' = report
<1>1. CASE Operator \/ Generation \/ Validation \/ Finalize
  <2>1. UNCHANGED captures
    BY <1>1 DEF Operator, StartServer, StopServer, ReplaceModel, Delete, Generation,
       BeginFromPrefix, BeginEmpty, Begin, Answer, Append_, Publish, Describe, Validation,
       ParityInputs, NativeRun, ParityPasses, ParityFails, Finalize
  <2>. QED
    BY <2>1 DEF captures
<1>2. CASE \E t \in Tiers : HashArtifact(t)
  BY <1>2 DEF HashArtifact
<1>3. CASE ReadCheckpoint \/ StatStart \/ ReadPrefix \/ ProbeBefore \/ Rehash \/ ProbeAfter
           \/ Abandon
  BY <1>3 DEF ReadCheckpoint, StatStart, ReadPrefix, ProbeBefore, Rehash, ProbeAfter,
     Reading, Abandon, ReportKnown
<1>4. CASE Capture
  BY <1>4 DEF Capture, ReportKnown
<1>. QED
  BY <1>1, <1>2, <1>3, <1>4 DEF Next, Attestation

LEMMA CapturedReport ==
  ASSUME BirthTime, IInv, Values, AgainKnown, Capture
  PROVE  ReportKnown'
<1>1. /\ cap # None /\ cap.at = "again" /\ Proven(cap) /\ cap' = None
      /\ file' = file /\ now' = now
      /\ report'.tier = cap.tier /\ report'.prefix = cap.prefix
      /\ report'.born = cap.start.born /\ report'.process = cap.process
      /\ report'.rows = cap.rows
  BY DEF Capture, caches, world
<1>2. /\ cap.start.born \in Ticks /\ cap.start.born <= now
      /\ cap.tier \in Tiers /\ cap.rows \in Seq(Row)
  BY <1>1, ProvenReadings DEF StartKnown, CapturedKnown, AfterStart
<1>3. /\ HeldBy(cap.tier, cap.start.born, cap.rows)
      /\ cap.process # None => cap.process2 = cap.process
  BY <1>1, ProvenReadings DEF AgainKnown
<1>4. ASSUME cap.process # None, NEW i \in DOMAIN cap.rows
      PROVE  cap.rows[i].model = cap.process.loaded
  BY <1>1, <1>3, <1>4, ProvenRows DEF By
<1>5. ASSUME cap.process # None, cap.prefix # None
      PROVE  /\ 1 \in DOMAIN cap.prefix.bytes
             /\ \A i \in DOMAIN cap.prefix.bytes : cap.prefix.bytes[i] = cap.process.loaded
  <2>1. 1 \in DOMAIN cap.prefix.bytes
    BY <1>1, <1>5 DEF Values, Past, AfterPrefix
  <2>2. \A i \in DOMAIN cap.prefix.bytes : cap.prefix.bytes[i] = cap.process.loaded
    BY <1>1, <1>5, ProvenReadings DEF ProcessKnown, AfterProcess
  <2>. QED
    BY <2>1, <2>2
<1>6. HeldBy(report.tier, report.born, report.rows)'
  BY <1>1, <1>3 DEF HeldBy
<1>. QED
  BY <1>1, <1>2, <1>4, <1>5, <1>6 DEF ReportKnown

LEMMA ReportKnownKeeps ==
  ASSUME BirthTime, IInv, Values, AgainKnown, ReportKnown, Next
  PROVE  ReportKnown'
<1>1. CASE Capture
  BY <1>1, CapturedReport
<1>2. CASE report = None /\ ~Capture
  BY <1>2, ReportStable DEF ReportKnown
<1>3. CASE report # None
  <2>1. report' = report /\ cap' = cap
    BY <1>3, ReportStable
  <2>2. /\ WorldShape /\ CacheShape /\ report.tier \in Tiers
        /\ report.born \in Nat /\ report.born <= now
        /\ HeldBy(report.tier, report.born, report.rows)
    BY <1>3, AttestationAssumption DEF IInv, ReportKnown, Ticks
  <2>3. ASSUME file'[report.tier] # None, file'[report.tier].born = report.born,
               NEW i \in DOMAIN report.rows
        PROVE  i \in DOMAIN file'[report.tier].rows
               /\ file'[report.tier].rows[i] = report.rows[i]
    BY <2>2, <2>3, StillHeld
  <2>4. HeldBy(report.tier, report.born, report.rows)'
    BY <2>1, <2>3 DEF HeldBy
  <2>5. report.born <= now'
    BY <2>2, WorldKeeps, AttestationAssumption DEF WorldShape
  <2>. QED
    BY <1>3, <2>1, <2>4, <2>5 DEF ReportKnown
<1>. QED
  BY <1>1, <1>2, <1>3

\* What a validation reads of the captured generation includes the captured rows.
LEMMA CheckKeeps ==
  ASSUME FirstRowSampled, ReportKnown, CheckKnown, Next
  PROVE  CheckKnown'
<1>1. CASE check' = check
  <2>1. check # None => report' = report
    BY ReportStable DEF CheckKnown
  <2>. QED
    BY <1>1, <2>1 DEF CheckKnown, SeesReport
<1>2. CASE Operator \/ Generation \/ Attestation
  <2>1. check' = check
    BY <1>2 DEF Operator, StartServer, StopServer, ReplaceModel, Delete, Generation,
       BeginFromPrefix, BeginEmpty, Begin, Answer, Append_, Publish, Describe, Attestation,
       HashArtifact, Reading, ReadCheckpoint, StatStart, ReadPrefix, ProbeBefore, Rehash,
       ProbeAfter, Capture, Abandon, Finalize, parities
  <2>. QED
    BY <1>1, <2>1
<1>3. ASSUME NEW t \in Tiers, NEW w \in Wanted, ParityInputs(t, w)
      PROVE  CheckKnown'
  <2>1. /\ report # None /\ report' = report /\ file[t] # None
        /\ check' = [tier |-> t, bytes |-> Bytes(file[t].rows), born |-> file[t].born,
                     gguf |-> gguf, sample |-> Sample(Count[t], w, Size), wanted |-> w]
    BY <1>3 DEF ParityInputs, captures
  <2>2. 0 \in check'.sample
    BY <2>1, FirstRow
  <2>3. SeesReport(check)'
    <3>. SUFFICES ASSUME t = report.tier, file[t].born = report.born,
                         NEW i \in DOMAIN report.rows
                  PROVE  /\ i \in DOMAIN Bytes(file[t].rows)
                         /\ Bytes(file[t].rows)[i] = report.rows[i].model
      BY <2>1 DEF SeesReport
    <3>1. i \in DOMAIN file[t].rows /\ file[t].rows[i] = report.rows[i]
      BY <2>1 DEF ReportKnown, HeldBy
    <3>. QED
      BY <3>1 DEF Bytes
  <2>. QED
    BY <2>1, <2>2, <2>3 DEF CheckKnown
<1>4. CASE NativeRun
  BY <1>1, <1>4 DEF NativeRun
<1>5. CASE ParityPasses \/ ParityFails
  BY <1>5 DEF ParityPasses, ParityFails, CheckKnown
<1>. QED
  BY <1>2, <1>3, <1>4, <1>5 DEF Next, Validation

\* Vectors made while the model file stayed as hashed are those of the hashed file;
\* a later validation of the same inputs may use them again.
LEMMA NativeKeeps ==
  ASSUME CheckKnown, NativeKnown, Next
  PROVE  NativeKnown'
<1>1. CASE native' = native
  BY <1>1 DEF NativeKnown
<1>2. CASE Operator \/ Generation \/ Attestation
  <2>1. native' = native
    BY <1>2 DEF Operator, StartServer, StopServer, ReplaceModel, Delete, Generation,
       BeginFromPrefix, BeginEmpty, Begin, Answer, Append_, Publish, Describe, Attestation,
       HashArtifact, Reading, ReadCheckpoint, StatStart, ReadPrefix, ProbeBefore, Rehash,
       ProbeAfter, Capture, Abandon, Finalize, parities
  <2>. QED
    BY <1>1, <2>1
<1>3. CASE NativeRun
  <2> DEFINE new == [of |-> InputHash, model |-> gguf.content,
                     steady |-> gguf = check.gguf]
  <2>1. check # None /\ native' = native \cup {new}
    BY <1>3 DEF NativeRun
  <2>2. InputHash.gguf = check.gguf.content
    BY <2>1 DEF InputHash, CheckKnown
  <2>3. new.of = InputHash /\ new.model = gguf.content /\ new.steady = (gguf = check.gguf)
    OBVIOUS
  <2>4. new.steady => new.model = new.of.gguf
    BY <2>2, <2>3
  <2>. HIDE DEF new
  <2>. QED
    BY <2>1, <2>4 DEF NativeKnown
<1>4. CASE ParityPasses \/ ParityFails \/ \E t \in Tiers, w \in Wanted : ParityInputs(t, w)
  BY <1>1, <1>4 DEF ParityPasses, ParityFails, ParityInputs
<1>. QED
  BY <1>2, <1>3, <1>4 DEF Next, Validation

\* A passing validation compared the first row, whatever its sample.
LEMMA ParityKeeps ==
  ASSUME ReportKnown, CheckKnown, NativeKnown, ParityKnown, Next
  PROVE  ParityKnown'
<1>1. CASE parity' = parity
  <2>1. parity # None => report' = report
    BY ReportStable DEF ParityKnown
  <2>. QED
    BY <1>1, <2>1 DEF ParityKnown, Validated, SeesReport
<1>2. CASE Operator \/ Generation \/ Attestation
  <2>1. parity' = parity
    BY <1>2 DEF Operator, StartServer, StopServer, ReplaceModel, Delete, Generation,
       BeginFromPrefix, BeginEmpty, Begin, Answer, Append_, Publish, Describe, Attestation,
       HashArtifact, Reading, ReadCheckpoint, StatStart, ReadPrefix, ProbeBefore, Rehash,
       ProbeAfter, Capture, Abandon, Finalize, parities
  <2>. QED
    BY <1>1, <2>1
<1>3. CASE ParityPasses
  <2>1. check # None /\ report' = report
    BY <1>3 DEF ParityPasses, captures
  <2>2. PICK n \in native :
          /\ n.of = InputHash
          /\ Alike(n.model)
          /\ parity' = [tier |-> check.tier, bytes |-> check.bytes, born |-> check.born,
                        gguf |-> check.gguf.content, steady |-> n.steady]
    BY <1>3 DEF ParityPasses
  <2>3. InputHash.gguf = check.gguf.content /\ 0 \in check.sample
    BY <2>1 DEF InputHash, CheckKnown
  <2>4. check.bytes[1] = n.model
    <3>1. check.bytes[0 + 1] = n.model
      BY <2>2, <2>3 DEF Alike
    <3>. QED
      BY <3>1
  <2>5. n.steady => n.model = check.gguf.content
    BY <2>2, <2>3 DEF NativeKnown
  <2>6. /\ parity'.tier = check.tier /\ parity'.bytes = check.bytes
        /\ parity'.born = check.born /\ parity'.gguf = check.gguf.content
        /\ parity'.steady = n.steady
    BY <2>2
  <2>7. SeesReport(parity)'
    BY <2>1, <2>6 DEF SeesReport, CheckKnown
  <2>8. parity'.steady => parity'.bytes[1] = parity'.gguf
    BY <2>4, <2>5, <2>6
  <2>. QED
    BY <2>1, <2>7, <2>8 DEF ParityKnown, Validated, CheckKnown
<1>4. CASE NativeRun \/ ParityFails \/ \E t \in Tiers, w \in Wanted : ParityInputs(t, w)
  BY <1>1, <1>4 DEF NativeRun, ParityFails, ParityInputs
<1>. QED
  BY <1>2, <1>3, <1>4 DEF Next, Validation

\* finalize joins the two proofs once.
LEMMA FinalKeeps ==
  ASSUME ReportKnown, ParityKnown, FinalKnown, Next
  PROVE  FinalKnown'
<1>1. CASE final' = final
  <2>1. final # None => report' = report
    BY ReportStable DEF FinalKnown
  <2>. QED
    BY <1>1, <2>1 DEF FinalKnown, Validated, SeesReport
<1>2. CASE Finalize
  <2>1. /\ report # None /\ parity # None /\ Bound
        /\ parity.gguf = report.gguf.content /\ report' = report
        /\ final' = [capture |-> report, parity |-> parity]
    BY <1>2 DEF Finalize, captures
  <2>2. final'.capture = report /\ final'.parity = parity
    BY <2>1
  <2>3. Validated(parity)
    BY <2>1 DEF ParityKnown
  <2>4. Validated(final.parity)'
    BY <2>1, <2>2, <2>3 DEF Validated, SeesReport
  <2>. QED
    BY <2>1, <2>2, <2>4 DEF FinalKnown, Bound
<1>3. CASE Operator \/ Generation \/ Validation \/ \E t \in Tiers : HashArtifact(t)
  <2>1. final' = final
    BY <1>3 DEF Operator, StartServer, StopServer, ReplaceModel, Delete, Generation,
       BeginFromPrefix, BeginEmpty, Begin, Answer, Append_, Publish, Describe, HashArtifact,
       Validation, ParityInputs, NativeRun, ParityPasses, ParityFails
  <2>. QED
    BY <1>1, <2>1
<1>4. CASE ReadCheckpoint \/ StatStart \/ ReadPrefix \/ ProbeBefore \/ Rehash \/ ProbeAfter
           \/ Capture \/ Abandon
  <2>1. final' = final
    BY <1>4 DEF Reading, ReadCheckpoint, StatStart, ReadPrefix, ProbeBefore, Rehash,
       ProbeAfter, Capture, Abandon
  <2>. QED
    BY <1>1, <2>1
<1>. QED
  BY <1>2, <1>3, <1>4 DEF Next, Attestation

\* Equal first rows carry over to all rows: one process computed them.
LEMMA AttestedExact ==
  ASSUME IInv, Values, Attested
  PROVE  FinalizedExact
<1>1. AttestationTypeOK
  BY WellTyped
<1>2. ASSUME final # None, Verified(final.capture), final.parity.steady
      PROVE  LET c == final.capture IN
             /\ final.parity.tier = c.tier /\ final.parity.born = c.born =>
                  \A i \in DOMAIN c.rows : c.rows[i].model = c.gguf.content
             /\ final.parity.tier # c.tier =>
                  /\ \A i \in DOMAIN c.rows : c.rows[i].model = c.gguf.content
                  /\ \A model \in Range(final.parity.bytes) \cup Range(c.prefix.bytes) :
                       model = c.gguf.content
  <2>1. /\ final.capture = report /\ ReportKnown /\ report # None /\ report.process # None
        /\ final.parity.bytes[1] = report.gguf.content /\ SeesReport(final.parity)
    BY <1>2 DEF Attested, FinalKnown, Validated, Verified
  <2>2. ASSUME final.parity.tier = report.tier, final.parity.born = report.born,
               NEW i \in DOMAIN report.rows
        PROVE  report.rows[i].model = report.gguf.content
    <3>1. 1 \in DOMAIN report.rows
      BY <2>1, <2>2 DEF ReportKnown
    <3>2. final.parity.bytes[1] = report.rows[1].model
      BY <2>1, <2>2, <3>1 DEF SeesReport
    <3>. QED
      BY <2>1, <2>2, <3>1, <3>2 DEF ReportKnown
  <2>3. ASSUME final.parity.tier # report.tier
        PROVE  /\ report.prefix # None /\ report.prefix.bytes = final.parity.bytes
               /\ report.process.loaded = report.gguf.content
    <3>1. report.prefix # None /\ report.prefix.bytes = final.parity.bytes
      BY <1>2, <2>1, <2>3 DEF Attested, FinalKnown
    <3>2. 1 \in DOMAIN report.prefix.bytes
      BY <2>1, <3>1 DEF ReportKnown
    <3>. QED
      BY <2>1, <3>1, <3>2 DEF ReportKnown
  <2>4. ASSUME final.parity.tier # report.tier,
               NEW model \in Range(final.parity.bytes) \cup Range(report.prefix.bytes)
        PROVE  model = report.gguf.content
    <3>1. PICK i \in DOMAIN report.prefix.bytes : model = report.prefix.bytes[i]
      BY <2>3, <2>4 DEF Range
    <3>. QED
      BY <2>1, <2>3, <2>4, <3>1 DEF ReportKnown
  <2>5. ASSUME final.parity.tier # report.tier, NEW i \in DOMAIN report.rows
        PROVE  report.rows[i].model = report.gguf.content
    BY <2>1, <2>3, <2>5 DEF ReportKnown
  <2>. QED
    BY <2>1, <2>2, <2>4, <2>5
<1>. QED
  BY <1>1, <1>2 DEF FinalizedExact

\* Where files have birth times and every parity run computes the first row again, a
\* finalized attestation with a steady model file says more than its sample: every
\* captured row, or every row of the cache it was seeded from, is the named model's.
\* Capture and parity run are joined however the operator, the generation and the
\* two tools interleave.
THEOREM FinalizedExactHolds ==
  ASSUME BirthTime, FirstRowSampled
  PROVE  Spec => []FinalizedExact
<1>1. IInv /\ IInv' /\ Values /\ Attested /\ [Next]_vars => Values' /\ Attested'
  <2>1. CASE Next
    BY <2>1, ValuesKeep, AgainKeeps, ReportKnownKeeps, CheckKeeps, NativeKeeps,
       ParityKeeps, FinalKeeps DEF Attested
  <2>2. CASE UNCHANGED vars
    BY <2>2 DEF vars, world, caches, captures, parities, Values, TierValues, Attested,
       AgainKnown, HeldBy, ReportKnown, CheckKnown, NativeKnown, ParityKnown, FinalKnown,
       Validated, SeesReport, Past
  <2>. QED
    BY <2>1, <2>2
<1>2. IInv /\ Values /\ Attested => FinalizedExact
  BY AttestedExact
<1>. QED
  BY <1>1, <1>2, Invariance, InitValues, PTL DEF Spec

-----------------------------------------------------------------------------
\* What a running validation holds is the sample it was asked for.
SampleKnown ==
  check # None =>
    /\ check.tier \in Tiers /\ check.wanted \in Wanted
    /\ check.wanted.truncated \subseteq 0 .. Count[check.tier] - 1
    /\ check.sample = Sample(Count[check.tier], check.wanted, Size)

\* Only the reading of the inputs chooses a sample.
LEMMA SampleKeeps ==
  ASSUME SampleKnown, Next
  PROVE  SampleKnown'
<1>1. CASE check' = check \/ check' = None
  BY <1>1 DEF SampleKnown
<1>2. CASE Operator \/ Generation \/ Attestation
  <2>1. check' = check
    BY <1>2 DEF Operator, StartServer, StopServer, ReplaceModel, Delete, Generation,
       BeginFromPrefix, BeginEmpty, Begin, Answer, Append_, Publish, Describe, Attestation,
       HashArtifact, Reading, ReadCheckpoint, StatStart, ReadPrefix, ProbeBefore, Rehash,
       ProbeAfter, Capture, Abandon, Finalize, parities
  <2>. QED
    BY <1>1, <2>1
<1>3. ASSUME NEW t \in Tiers, NEW w \in Wanted, ParityInputs(t, w)
      PROVE  SampleKnown'
  <2>1. /\ check'.tier = t /\ check'.wanted = w /\ check'.sample = Sample(Count[t], w, Size)
        /\ w.truncated \subseteq 0 .. Count[t] - 1
    BY <1>3 DEF ParityInputs, SampleAccepted
  <2>. QED
    BY <2>1 DEF SampleKnown
<1>4. CASE NativeRun \/ ParityPasses \/ ParityFails
  BY <1>1, <1>4 DEF NativeRun, ParityPasses, ParityFails
<1>. QED
  BY <1>2, <1>3, <1>4 DEF Next, Validation

\* The lemmas about one sample, said of the validation that runs.
LEMMA SampleFits ==
  ASSUME SampleKnown
  PROVE  SampleAsDeclared
<1> SUFFICES ASSUME check # None PROVE SampleAsDeclared
  BY DEF SampleAsDeclared
<1> DEFINE n == Count[check.tier]
           w == check.wanted
           R == 0 .. n - 1
<1>1. /\ check.tier \in Tiers /\ w \in Wanted /\ w.truncated \subseteq R
      /\ check.sample = Sample(n, w, Size)
  BY DEF SampleKnown
<1>2. n \in Nat \ {0} /\ w.spaced \in Nat /\ w.longest \in Nat
  BY <1>1, AttestationAssumption
<1>3. SizesOK(n, Size)
  <2>1. n <= Count["1m"] /\ Count["1m"] \in Nat
    BY <1>1, AttestationAssumption DEF Tiers
  <2>. QED
    BY <1>2, <2>1, AttestationAssumption DEF SizesOK
<1>. HIDE DEF n, w
<1> DEFINE spaced == EvenlySpaced(n, w.spaced)
           longest == Longest(n, w.longest, Size)
<1>4. /\ check.sample = spaced \cup longest \cup w.truncated
      /\ spaced \in SUBSET R /\ longest \in SUBSET R
      /\ Cardinality(spaced) = Min({w.spaced, n})
      /\ w.spaced > 1 => {0, n - 1} \subseteq spaced
      /\ Cardinality(longest) = Min({w.longest, n})
      /\ \A a \in longest, b \in R \ longest : Worse(b, a, Size)
  BY <1>1, <1>2, <1>3, SampleFacts
<1>. HIDE DEF spaced, longest
<1>. QED
  BY <1>4, Zenon DEF SampleAsDeclared, n, w

\* select_document_sample: whatever the corpus and its ties, the sample is the union of
\* exactly as many evenly spaced rows as were asked for, of exactly as many of the
\* longest texts (the earlier among equals), and of the named candidates.
THEOREM SampleAsDeclaredHolds == Spec => []SampleAsDeclared
<1>1. Init => SampleKnown
  BY DEF Init, SampleKnown
<1>2. SampleKnown /\ [Next]_vars => SampleKnown'
  <2>1. CASE UNCHANGED vars
    BY <2>1 DEF vars, parities, SampleKnown
  <2>. QED
    BY <2>1, SampleKeeps
<1>3. SampleKnown => SampleAsDeclared
  BY SampleFits
<1>. QED
  BY <1>1, <1>2, <1>3, PTL DEF Spec
=============================================================================
