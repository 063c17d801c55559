------------------------------ MODULE CacheProofs ------------------------------
(***************************************************************************)
(* Theorems about generate_cache, for any inputs, any number of rows, any   *)
(* batch size, window and prefix caches, and any number of faults.          *)
(***************************************************************************)
EXTENDS CacheGeneration, SequenceTheorems, TLAPS

Requests == [first : 1 .. Rows, last : 1 .. Rows, is : {"sent", "answered", "failed"}]

\* The vectors from one row to another, in order.
LEMMA RowsFromTo ==
  ASSUME NEW data \in Data, NEW a \in Nat \ {0}, NEW b \in Nat, a <= b + 1, b <= Rows
  PROVE  /\ SubSeq(Whole(data), a, b) \in Seq(Row)
         /\ Len(SubSeq(Whole(data), a, b)) = b - a + 1
         /\ \A n \in 1 .. b - a + 1 : SubSeq(Whole(data), a, b)[n] = <<data, a + n - 1>>
<1>1. \A i \in a .. b : Whole(data)[i] = <<data, i>> /\ Whole(data)[i] \in Row
  BY CacheAssumption DEF Whole, Row
<1>2. a \in Int /\ b \in Int
  OBVIOUS
<1>3. /\ SubSeq(Whole(data), a, b) \in Seq(Row)
      /\ Len(SubSeq(Whole(data), a, b)) = IF a <= b THEN b - a + 1 ELSE 0
      /\ \A n \in 1 .. b - a + 1 : SubSeq(Whole(data), a, b)[n] = Whole(data)[a + n - 1]
  BY <1>1, <1>2, SubSeqProperties
<1>4. \A n \in 1 .. b - a + 1 : a + n - 1 \in a .. b
  OBVIOUS
<1> QED
  BY <1>1, <1>3, <1>4

\* A file of whole rows.
LEMMA FileOfRows ==
  ASSUME NEW data \in Data, NEW rows \in Seq(Row)
  PROVE  [data |-> data, rows |-> rows] \in File
<1>1. rows \in Seq(Row \cup {Torn})
  BY SeqMonotonic
<1> QED
  BY <1>1 DEF File

\* The first rows of a corpus, and more of them.
LEMMA BeginningGrows ==
  ASSUME NEW data, NEW rows \in Seq(Row), NEW more \in Seq(Row),
         Beginning(data, rows), Len(rows) + Len(more) <= Rows,
         \A n \in 1 .. Len(more) : more[n] = <<data, Len(rows) + n>>
  PROVE  /\ rows \o more \in Seq(Row) /\ Len(rows \o more) = Len(rows) + Len(more)
         /\ Beginning(data, rows \o more)
<1>1. /\ rows \o more \in Seq(Row)
      /\ Len(rows \o more) = Len(rows) + Len(more)
      /\ \A i \in 1 .. Len(rows) + Len(more) :
           (rows \o more)[i] = IF i <= Len(rows) THEN rows[i] ELSE more[i - Len(rows)]
  BY ConcatProperties
<1>2. Len(rows) \in Nat /\ Len(more) \in Nat
  OBVIOUS
<1>3. ASSUME NEW n \in 1 .. Len(rows) + Len(more)
      PROVE  (rows \o more)[n] = <<data, n>>
  <2>1. CASE n <= Len(rows)
    BY <1>1, <1>2, <2>1 DEF Beginning
  <2>2. CASE n > Len(rows)
    <3>1. n - Len(rows) \in 1 .. Len(more) /\ Len(rows) + (n - Len(rows)) = n
      BY <1>2, <2>2
    <3> QED
      BY <1>1, <1>2, <2>2, <3>1
  <2> QED
    BY <1>2, <2>1, <2>2
<1> QED
  BY <1>1, <1>3 DEF Beginning

\* All of them are the whole corpus.
LEMMA BeginningIsWhole ==
  ASSUME NEW data, NEW rows \in Seq(Row), Beginning(data, rows), Len(rows) = Rows
  PROVE  rows = Whole(data)
<1>1. rows = [n \in 1 .. Rows |-> rows[n]]
  BY LenProperties
<1> QED
  BY <1>1 DEF Beginning, Whole

-----------------------------------------------------------------------------
LEMMA CacheStarts == Init => CacheInv
<1> SUFFICES ASSUME Init PROVE CacheInv
  OBVIOUS
<1>1. TypeOK
  <2>1. << >> \in Seq(Row) /\ << >> \in Seq(Requests)
    BY EmptySeq
  <2>2. known \in BOOLEAN
    BY Zenon DEF Init
  <2>3. next \in 1 .. Rows + 1 /\ faults \in 0 .. Faults
    BY CacheAssumption DEF Init
  <2> QED
    BY <2>1, <2>2, <2>3 DEF Init, TypeOK, Requests
<1>2. Memory /\ Follows /\ Requested /\ Checkpointed /\ Written /\ Described
  BY DEF Init, Memory, Follows, Requested, Checkpointed, Written, Described,
         Streaming, Writing, ReturnsItsOwn
<1> QED
  BY <1>1, <1>2 DEF CacheInv

\* A process that ends leaves a checkpoint that is still of the file next to it,
\* and what it returned is described.
LEMMA LeaveKeeps ==
  ASSUME CacheInv, NEW how, NEW i \in Inputs, Leave(how, i),
         UNCHANGED <<cache, sidecar>>, checkpoint' \in {checkpoint, None},
         partial' \in File \cup {None}, faults' \in 0 .. Faults,
         partial' # None => partial # None /\ partial'.data = partial.data,
         how = "returned" => /\ cache # None /\ sidecar # None
                             /\ cache.data = DataOf[i] /\ sidecar.of = cache
  PROVE  CacheInv'
<1>1. /\ pc' = "idle" /\ input' = None /\ digest' = << >> /\ known' = FALSE
      /\ pending' = << >> /\ next' = 1 /\ batch' = << >>
      /\ result' = [how |-> how, of |-> i]
  BY DEF Leave
<1>2. TypeOK'
  <2>1. << >> \in Seq(Row) /\ << >> \in Seq(Requests)
    BY EmptySeq
  <2>2. known' \in BOOLEAN
    BY <1>1, Zenon
  <2>3. next' \in 1 .. Rows + 1
    BY <1>1, CacheAssumption
  <2>4. cache' \in File \cup {None} /\ sidecar' \in Description \cup {None}
        /\ checkpoint' \in State \cup {None}
    BY DEF CacheInv, TypeOK
  <2> QED
    BY <1>1, <2>1, <2>2, <2>3, <2>4 DEF TypeOK, Requests
<1>3. Memory' /\ Follows' /\ Requested' /\ Written'
  BY <1>1 DEF Memory, Follows, Requested, Written, Streaming, Writing
<1>4. Checkpointed'
  BY DEF CacheInv, Checkpointed, Beginning
<1>5. Described'
  <2>1. result'.how = how /\ result'.of = i
    BY <1>1
  <2> QED
    BY <1>1, <2>1 DEF CacheInv, Described, ReturnsItsOwn
<1> QED
  BY <1>2, <1>3, <1>4, <1>5 DEF CacheInv

\* A run that is refused, reuses a cache, loses its endpoint or is done.
LEMMA EndsKeep ==
  ASSUME CacheInv,
         \/ \E i \in Inputs : Refuse(i) \/ Reuse(i)
         \/ RequestFailed \/ Clear
  PROVE  CacheInv'
<1>1. partial \in File \cup {None} /\ faults \in 0 .. Faults
  BY DEF CacheInv, TypeOK
<1>2. CASE \E i \in Inputs : Refuse(i)
  BY <1>1, <1>2, LeaveKeeps DEF Refuse, disk
<1>3. CASE \E i \in Inputs : Reuse(i)
  BY <1>1, <1>3, LeaveKeeps DEF Reuse, Reusable, disk
<1>4. CASE RequestFailed
  <2>1. input \in Inputs
    BY <1>4 DEF RequestFailed, Ready, CacheInv, Memory
  <2> QED
    BY <1>1, <1>4, <2>1, LeaveKeeps DEF RequestFailed, disk
<1>5. CASE Clear
  <2>1. /\ input \in Inputs /\ cache # None /\ sidecar # None
        /\ cache.data = DataOf[input] /\ sidecar.of = cache
    BY <1>5 DEF Clear, CacheInv, Memory, Described
  <2> QED
    BY <1>1, <1>5, <2>1, LeaveKeeps DEF Clear
<1> QED
  BY <1>2, <1>3, <1>4, <1>5

\* A kill leaves the file there, perhaps with a part of a batch at its end.
LEMMA KillKeeps == CacheInv /\ Kill => CacheInv'
<1> SUFFICES ASSUME CacheInv, Kill PROVE CacheInv'
  OBVIOUS
<1>1. input \in Inputs /\ Leave("killed", input) /\ UNCHANGED <<checkpoint, cache, sidecar>>
  BY DEF Kill, CacheInv, Memory
<1>2. faults' \in 0 .. Faults
  <2>1. faults \in 0 .. Faults /\ faults < Faults /\ faults' = faults + 1
    BY DEF Kill, CacheInv, TypeOK
  <2> QED
    BY <2>1, CacheAssumption
<1>3. /\ partial' \in File \cup {None}
      /\ partial' # None => partial # None /\ partial'.data = partial.data
  <2>1. CASE pc = "append"
    <3>1. PICK n \in 0 .. Len(batch) - 1, rest \in {<< >>, <<Torn>>} :
            partial' = [partial EXCEPT !.rows = @ \o SubSeq(batch, 1, n) \o rest]
      BY <2>1 DEF Kill
    <3>2. partial \in File
      BY <2>1 DEF CacheInv, TypeOK, Written, Writing, Streaming
    <3>3. partial.rows \in Seq(Row \cup {Torn})
      BY <3>2 DEF File
    <3>4. SubSeq(batch, 1, n) \in Seq(Row \cup {Torn})
      <4>1. \A k \in 1 .. n : batch[k] \in Row \cup {Torn}
        BY DEF CacheInv, TypeOK
      <4>2. 1 \in Int /\ n \in Int
        OBVIOUS
      <4> QED
        BY <4>1, <4>2, SubSeqProperties
    <3>5. rest \in Seq(Row \cup {Torn})
      <4>1. << >> \in Seq(Row \cup {Torn})
        BY EmptySeq
      <4>2. Torn \in Row \cup {Torn}
        OBVIOUS
      <4> HIDE DEF Row
      <4>3. <<Torn>> \in Seq(Row \cup {Torn})
        BY <4>2
      <4> QED
        BY <4>1, <4>3
    <3>6. partial.rows \o SubSeq(batch, 1, n) \o rest \in Seq(Row \cup {Torn})
      BY <3>3, <3>4, <3>5, ConcatProperties
    <3> DEFINE rows == partial.rows \o SubSeq(batch, 1, n) \o rest
    <3>7. partial' = [partial EXCEPT !.rows = rows]
      BY <3>1
    <3> HIDE DEF rows
    <3>8. rows \in Seq(Row \cup {Torn})
      BY <3>6 DEF rows
    <3> QED
      BY <3>2, <3>7, <3>8, CacheAssumption DEF File
  <2>2. CASE pc # "append"
    BY <2>2 DEF Kill, CacheInv, TypeOK
  <2> QED
    BY <2>1, <2>2
<1> QED
  BY <1>1, <1>2, <1>3, LeaveKeeps

-----------------------------------------------------------------------------
\* A run begins with what it found.
LEMMA RecoverKeeps ==
  ASSUME CacheInv, NEW i \in Inputs, Recover(i)
  PROVE  CacheInv'
<1>1. /\ pc = "idle" /\ pc' = "redescribe" /\ input' = i
      /\ UNCHANGED <<disk, digest, known, stream, result, faults>>
      /\ checkpoint # None /\ checkpoint.input = i /\ checkpoint.file = cache
      /\ checkpoint.status = "ready" /\ cache # None /\ sidecar = None
  BY DEF Recover, Recoverable, Goto
<1>2. UNCHANGED <<partial, checkpoint, cache, sidecar, digest, known, pending, next, batch,
                  result, faults>>
  BY <1>1 DEF disk, stream
<1>3. cache.data = DataOf[i]
  BY <1>1 DEF CacheInv, Checkpointed
<1>4. TypeOK'
  BY <1>1, <1>2 DEF CacheInv, TypeOK
<1>5. Memory'
  BY <1>1, <1>2, CacheAssumption DEF CacheInv, Memory, Beginning
<1>6. Follows' /\ Requested' /\ Written'
  BY <1>1 DEF Follows, Requested, Written, Streaming, Writing
<1>7. Checkpointed'
  BY <1>2 DEF CacheInv, Checkpointed, Beginning
<1>8. Described'
  BY <1>1, <1>2, <1>3 DEF CacheInv, Described, ReturnsItsOwn
<1> QED
  BY <1>4, <1>5, <1>6, <1>7, <1>8 DEF CacheInv

LEMMA ResumeKeeps ==
  ASSUME CacheInv, NEW i \in Inputs, Resume(i)
  PROVE  CacheInv'
<1>1. /\ pc = "idle" /\ pc' = "batches" /\ input' = i /\ known' = TRUE
      /\ UNCHANGED <<checkpoint, cache, sidecar, pending, batch, result, faults>>
      /\ cache = None /\ partial # None /\ checkpoint # None /\ checkpoint.input = i
      /\ partial' = [partial EXCEPT !.rows = checkpoint.rows]
      /\ digest' = checkpoint.rows /\ next' = Len(checkpoint.rows) + 1
      /\ pending = << >> /\ batch = << >>
  BY DEF Resume, Resumable, Goto, CacheInv, Memory
<1>2. checkpoint.rows \in Seq(Row)
  BY <1>1 DEF CacheInv, TypeOK, State
<1>3. /\ Beginning(DataOf[i], checkpoint.rows)
      /\ partial \in File /\ partial.data = DataOf[i]
  BY <1>1 DEF CacheInv, Checkpointed, TypeOK
<1>4. partial' = [data |-> DataOf[i], rows |-> checkpoint.rows]
  BY <1>1, <1>3 DEF File
<1>5. partial' \in File /\ partial' # None
  <2>1. DataOf[i] \in Data
    BY DEF Data
  <2>2. partial' \in File
    BY <1>2, <1>4, <2>1, FileOfRows
  <2> QED
    BY <2>2, CacheAssumption
<1>6. TypeOK'
  <2>1. next' \in 1 .. Rows + 1
    BY <1>1, <1>2, <1>3, CacheAssumption DEF Beginning
  <2>2. known' \in BOOLEAN
    BY <1>1, Zenon
  <2> QED
    BY <1>1, <1>2, <1>5, <2>1, <2>2 DEF CacheInv, TypeOK
<1>7. Memory'
  BY <1>1, <1>3 DEF Memory, Beginning
<1>8. Follows'
  BY <1>1 DEF Follows
<1>9. Requested'
  <2>1. Len(pending') = 0
    BY <1>1
  <2> QED
    BY <1>1, <2>1 DEF Requested, Yielded
<1>10. Checkpointed'
  BY <1>1, <1>4 DEF CacheInv, Checkpointed, Beginning
<1>11. Written'
  BY <1>1, <1>4, <1>5 DEF Written, Writing, Streaming
<1>12. Described'
  BY <1>1 DEF CacheInv, Described, ReturnsItsOwn
<1> QED
  BY <1>6, <1>7, <1>8, <1>9, <1>10, <1>11, <1>12 DEF CacheInv

LEMMA StartSizedKeeps ==
  ASSUME CacheInv, NEW i \in Inputs, StartSized(i)
  PROVE  CacheInv'
<1> DEFINE copied == SubSeq(Whole(DataOf[i]), 1, PrefixOf[i])
<1>1. /\ pc = "idle" /\ pc' = "begin" /\ input' = i /\ known' = TRUE
      /\ UNCHANGED <<checkpoint, cache, sidecar, pending, batch, result, faults>>
      /\ cache = None /\ checkpoint = None
      /\ partial' = [data |-> DataOf[i], rows |-> copied]
      /\ digest' = copied /\ next' = PrefixOf[i] + 1
      /\ pending = << >> /\ batch = << >>
  BY DEF StartSized, Fresh, Goto, CacheInv, Memory
<1>2. PrefixOf[i] \in Nat /\ PrefixOf[i] < Rows /\ Rows \in Nat
  BY CacheAssumption
<1>3. /\ copied \in Seq(Row) /\ Len(copied) = PrefixOf[i]
      /\ \A n \in 1 .. PrefixOf[i] : copied[n] = <<DataOf[i], n>>
  <2>1. DataOf[i] \in Data
    BY DEF Data
  <2>2. 1 \in Nat \ {0} /\ 1 <= PrefixOf[i] + 1 /\ PrefixOf[i] <= Rows
    BY <1>2
  <2>3. /\ copied \in Seq(Row) /\ Len(copied) = PrefixOf[i] - 1 + 1
        /\ \A n \in 1 .. PrefixOf[i] - 1 + 1 : copied[n] = <<DataOf[i], 1 + n - 1>>
    BY <1>2, <2>1, <2>2, RowsFromTo
  <2> HIDE DEF copied
  <2> QED
    BY <1>2, <2>3
<1> HIDE DEF copied
<1>4. Beginning(DataOf[i], copied)
  BY <1>2, <1>3 DEF Beginning
<1>5. partial' \in File /\ partial' # None
  <2>1. DataOf[i] \in Data
    BY DEF Data
  <2>2. partial' \in File
    BY <1>1, <1>3, <2>1, FileOfRows
  <2> QED
    BY <2>2, CacheAssumption
<1>6. TypeOK'
  <2>1. next' \in 1 .. Rows + 1
    BY <1>1, <1>2
  <2>2. known' \in BOOLEAN
    BY <1>1, Zenon
  <2> QED
    BY <1>1, <1>3, <1>5, <2>1, <2>2 DEF CacheInv, TypeOK
<1>7. Memory'
  BY <1>1, <1>4 DEF Memory, Beginning
<1>8. Len(batch') = 0 /\ Len(pending') = 0
  BY <1>1
<1>9. Follows'
  <2>1. Len(digest') + Len(batch') <= Rows
    BY <1>1, <1>2, <1>3, <1>8
  <2> QED
    BY <1>1, <1>8, <2>1 DEF Follows
<1>10. Requested'
  <2>1. Len(digest') + Len(batch') + 1 = next'
    BY <1>1, <1>2, <1>3, <1>8
  <2> QED
    BY <1>1, <1>8, <2>1 DEF Requested, Yielded
<1>11. Checkpointed'
  BY <1>1 DEF Checkpointed
<1>12. Written'
  BY <1>1, <1>5 DEF Written, Writing, Streaming
<1>13. Described'
  BY <1>1 DEF CacheInv, Described, ReturnsItsOwn
<1> QED
  BY <1>6, <1>7, <1>9, <1>10, <1>11, <1>12, <1>13 DEF CacheInv

LEMMA StartUnsizedKeeps ==
  ASSUME CacheInv, NEW i \in Inputs, StartUnsized(i)
  PROVE  CacheInv'
<1>1. /\ pc = "idle" /\ pc' = "batches" /\ input' = i
      /\ UNCHANGED <<disk, digest, known, stream, result, faults>>
      /\ cache = None /\ partial = None /\ checkpoint = None
      /\ digest = << >> /\ ~known /\ pending = << >> /\ next = 1 /\ batch = << >>
  BY DEF StartUnsized, Fresh, Goto, CacheInv, Memory
<1>2. UNCHANGED <<partial, checkpoint, cache, sidecar, digest, known, pending, next, batch,
                  result, faults>>
  BY <1>1 DEF disk, stream
<1>3. TypeOK'
  BY <1>1, <1>2 DEF CacheInv, TypeOK
<1>4. Memory'
  BY <1>1, <1>2, CacheAssumption DEF Memory, Beginning
<1>5. Follows' /\ Requested'
  BY <1>1, <1>2 DEF Follows, Requested, Yielded
<1>6. Checkpointed' /\ Written'
  BY <1>1, <1>2 DEF Checkpointed, Written, Writing, Streaming
<1>7. Described'
  BY <1>1, <1>2 DEF CacheInv, Described, ReturnsItsOwn
<1> QED
  BY <1>3, <1>4, <1>5, <1>6, <1>7 DEF CacheInv

-----------------------------------------------------------------------------
\* Requests ask for the rows in order, and are answered where they stand.
LEMMA RequestKeeps == CacheInv /\ Request => CacheInv'
<1> SUFFICES ASSUME CacheInv, Request PROVE CacheInv'
  OBVIOUS
<1> DEFINE last    == IF next + BatchSize > Rows THEN Rows ELSE next + BatchSize - 1
           request == [first |-> next, last |-> last, is |-> "sent"]
<1>1. /\ UNCHANGED <<disk, pc, process, batch, result, faults>>
      /\ pc = "batches" /\ next <= Rows
      /\ pending' = Append(pending, request) /\ next' = last + 1
  BY DEF Request
<1>2. UNCHANGED <<partial, checkpoint, cache, sidecar, pc, input, digest, known, batch, result,
                  faults>>
  BY <1>1 DEF disk, process
<1>3. /\ pending \in Seq(Requests) /\ next \in 1 .. Rows + 1 /\ digest \in Seq(Row)
      /\ Rows \in Nat
  BY CacheAssumption DEF CacheInv, TypeOK, Requests
<1>4. last \in 1 .. Rows /\ next <= last /\ next \in 1 .. Rows
  BY <1>1, <1>3, CacheAssumption
<1> HIDE DEF last
<1>5. request \in Requests
  BY <1>4 DEF Requests
<1>6. /\ pending' \in Seq(Requests) /\ pending' # << >> /\ Len(pending') = Len(pending) + 1
      /\ \A j \in 1 .. Len(pending) : pending'[j] = pending[j]
      /\ pending'[Len(pending) + 1] = request
  BY <1>1, <1>3, <1>5, AppendProperties
<1>7. TypeOK'
  <2>1. next' \in 1 .. Rows + 1
    BY <1>1, <1>3, <1>4
  <2> QED
    BY <1>2, <1>6, <2>1 DEF CacheInv, TypeOK, Requests
<1>8. Requested'
  <2>1. Requested
    BY DEF CacheInv
  <2>2. Yielded' = Yielded
    BY <1>2 DEF Yielded
  <2>3. Len(pending) \in Nat
    BY <1>3
  <2>4. pending'[1].first = Yielded + 1
    <3>1. CASE pending = << >>
      <4>1. next = Yielded + 1
        BY <1>1, <2>1, <3>1 DEF Requested, Streaming
      <4>2. pending'[1] = request
        BY <1>6, <3>1
      <4> QED
        BY <4>1, <4>2
    <3>2. CASE pending # << >>
      <4>1. pending[1].first = Yielded + 1
        BY <1>1, <2>1, <3>2 DEF Requested, Streaming
      <4>2. 1 \in 1 .. Len(pending)
        BY <1>3, <3>2, EmptySeq
      <4> QED
        BY <1>6, <4>1, <4>2
    <3> QED
      BY <3>1, <3>2
  <2>5. ASSUME NEW j \in 1 .. Len(pending) + 1
        PROVE  /\ pending'[j].first <= pending'[j].last
               /\ pending'[j].last + 1 =
                    IF j = Len(pending) + 1 THEN next' ELSE pending'[j + 1].first
    <3>1. CASE j = Len(pending) + 1
      BY <1>1, <1>4, <1>6, <3>1
    <3>2. CASE j \in 1 .. Len(pending)
      <4>1. /\ pending[j].first <= pending[j].last
            /\ pending[j].last + 1 = IF j = Len(pending) THEN next ELSE pending[j + 1].first
        BY <1>1, <2>1, <3>2 DEF Requested, Streaming
      <4>2. pending'[j] = pending[j]
        BY <1>6, <3>2
      <4>3. pending'[j + 1].first = IF j = Len(pending) THEN next ELSE pending[j + 1].first
        BY <1>6, <2>3, <3>2
      <4> QED
        BY <2>3, <3>2, <4>1, <4>2, <4>3
    <3> QED
      BY <2>3, <3>1, <3>2
  <2> QED
    BY <1>6, <2>2, <2>4, <2>5 DEF Requested
<1>9. Memory' /\ Follows'
  BY <1>1, <1>2 DEF CacheInv, Memory, Follows, Beginning
<1>10. Checkpointed' /\ Written' /\ Described'
  BY <1>2 DEF CacheInv, Checkpointed, Written, Described, Beginning, ReturnsItsOwn
<1> QED
  BY <1>7, <1>8, <1>9, <1>10 DEF CacheInv

LEMMA AnswerKeeps == CacheInv /\ Answer => CacheInv'
<1> SUFFICES ASSUME CacheInv, Answer PROVE CacheInv'
  OBVIOUS
<1>1. UNCHANGED <<partial, checkpoint, cache, sidecar, pc, input, digest, known, next, batch,
                  result>>
  BY DEF Answer, disk, process
<1>2. PICK j \in DOMAIN pending, is \in {"answered", "failed"} :
        pending' = [pending EXCEPT ![j].is = is]
  BY DEF Answer
<1>3. pending \in Seq(Requests)
  BY DEF CacheInv, TypeOK, Requests
<1>4. /\ j \in 1 .. Len(pending) /\ pending # << >> /\ pending[j] \in Requests
  BY <1>2, <1>3, LenProperties, ElementOfSeq
<1> DEFINE answered == [pending[j] EXCEPT !.is = is]
<1>5. /\ answered \in Requests
      /\ answered.first = pending[j].first /\ answered.last = pending[j].last
  BY <1>2, <1>4 DEF Requests
<1>6. pending' = [pending EXCEPT ![j] = answered]
  BY <1>2
<1> HIDE DEF answered
<1>7. /\ pending' \in Seq(Requests) /\ Len(pending') = Len(pending)
      /\ \A k \in 1 .. Len(pending) :
           pending'[k] = IF k = j THEN answered ELSE pending[k]
  BY <1>3, <1>4, <1>5, <1>6, ExceptSeq
<1>8. \A k \in 1 .. Len(pending) :
        pending'[k].first = pending[k].first /\ pending'[k].last = pending[k].last
  BY <1>5, <1>7
<1>9. TypeOK'
  <2>1. faults' \in 0 .. Faults
    <3>1. /\ faults \in 0 .. Faults
          /\ faults' = faults \/ (faults < Faults /\ faults' = faults + 1)
      <4>1. faults \in 0 .. Faults
        BY DEF CacheInv, TypeOK
      <4>2. PICK k \in DOMAIN pending :
              \/ pending' = [pending EXCEPT ![k].is = "answered"] /\ UNCHANGED faults
              \/ /\ faults < Faults
                 /\ pending' = [pending EXCEPT ![k].is = "failed"]
                 /\ faults' = faults + 1
        BY DEF Answer
      <4>3. faults' = faults \/ (faults < Faults /\ faults' = faults + 1)
        BY <4>2
      <4> QED
        BY <4>1, <4>3
    <3> QED
      BY <3>1, CacheAssumption
  <2> QED
    BY <1>1, <1>7, <2>1 DEF CacheInv, TypeOK, Requests
<1>10. Requested'
  <2>1. pending' # << >> /\ Yielded' = Yielded /\ Len(pending) \in Nat \ {0}
    BY <1>1, <1>3, <1>4, <1>7, EmptySeq DEF Yielded
  <2>2. ASSUME pc \in Streaming, NEW k \in 1 .. Len(pending)
        PROVE  /\ pending'[k].first <= pending'[k].last
               /\ pending'[k].last + 1 =
                    IF k = Len(pending) THEN next ELSE pending'[k + 1].first
    <3>1. /\ pending[k].first <= pending[k].last
          /\ pending[k].last + 1 = IF k = Len(pending) THEN next ELSE pending[k + 1].first
      BY <2>2 DEF CacheInv, Requested
    <3>2. k # Len(pending) => k + 1 \in 1 .. Len(pending)
      BY <2>1
    <3> QED
      BY <1>8, <3>1, <3>2
  <2>3. pc \in Streaming => pending'[1].first = Yielded + 1
    <3>1. pc \in Streaming => pending[1].first = Yielded + 1
      BY <1>4 DEF CacheInv, Requested
    <3> QED
      BY <1>8, <2>1, <3>1
  <2> QED
    BY <1>1, <1>7, <2>1, <2>2, <2>3 DEF Requested
<1>11. Memory'
  <2>1. pending # << >> => pc \notin {"idle", "redescribe"}
    BY DEF CacheInv, Memory
  <2> QED
    BY <1>1, <1>4, <2>1 DEF CacheInv, Memory, Beginning
<1>12. Follows' /\ Checkpointed' /\ Written' /\ Described'
  BY <1>1 DEF CacheInv, Follows, Checkpointed, Written, Described, Beginning, ReturnsItsOwn
<1> QED
  BY <1>9, <1>10, <1>11, <1>12 DEF CacheInv

\* The oldest answer is the batch that follows what was hashed.
LEMMA YieldKeeps == CacheInv /\ Yield => CacheInv'
<1> SUFFICES ASSUME CacheInv, Yield PROVE CacheInv'
  OBVIOUS
<1> DEFINE first == pending[1].first
           last  == pending[1].last
           done  == Len(digest)
<1>1. /\ UNCHANGED <<partial, checkpoint, cache, sidecar, input, digest, known, next, result,
                     faults>>
      /\ pc = "batches" /\ pending # << >>
      /\ batch' = SubSeq(Whole(DataOf[input]), first, last)
      /\ pending' = Tail(pending)
      /\ pc' = IF known THEN "append" ELSE "create"
  BY DEF Yield, Ready, Goto, disk, process
<1>2. /\ pending \in Seq(Requests) /\ next \in 1 .. Rows + 1 /\ digest \in Seq(Row)
      /\ input \in Inputs /\ Rows \in Nat
  BY <1>1, CacheAssumption DEF CacheInv, TypeOK, Requests, Memory
<1>3. /\ Len(pending) \in Nat \ {0} /\ 1 \in 1 .. Len(pending) /\ pending[1] \in Requests
  BY <1>1, <1>2, EmptySeq, ElementOfSeq
<1>4. first \in 1 .. Rows /\ last \in 1 .. Rows /\ done \in Nat
  BY <1>2, <1>3 DEF Requests
<1>5. first = done + 1 /\ first <= last
  BY <1>1, <1>3, <1>4 DEF CacheInv, Requested, Streaming, Yielded
<1>6. /\ batch' \in Seq(Row) /\ Len(batch') = last - done
      /\ \A n \in 1 .. Len(batch') : batch'[n] = <<DataOf[input], done + n>>
  <2>1. DataOf[input] \in Data
    BY <1>2 DEF Data
  <2> HIDE DEF first, last, done
  <2>2. first \in Nat \ {0} /\ last \in Nat /\ first <= last + 1 /\ last <= Rows
    BY <1>2, <1>4, <1>5
  <2>3. /\ batch' \in Seq(Row) /\ Len(batch') = last - first + 1
        /\ \A n \in 1 .. last - first + 1 : batch'[n] = <<DataOf[input], first + n - 1>>
    BY <1>1, <2>1, <2>2, RowsFromTo
  <2>4. last - first + 1 = last - done /\ \A n \in 1 .. last - done : first + n - 1 = done + n
    BY <1>4, <1>5
  <2> QED
    BY <2>3, <2>4
<1>7. /\ pending' \in Seq(Requests) /\ Len(pending') = Len(pending) - 1
      /\ \A j \in 1 .. Len(pending') : pending'[j] = pending[j + 1]
  BY <1>1, <1>2, HeadTailProperties
<1>8. TypeOK'
  BY <1>1, <1>6, <1>7 DEF CacheInv, TypeOK, Requests
<1>9. Memory'
  BY <1>1 DEF CacheInv, Memory, Beginning
<1>10. Follows'
  <2>1. batch' # << >> /\ done + Len(batch') <= Rows
    BY <1>4, <1>5, <1>6
  <2> QED
    BY <1>1, <1>6, <2>1 DEF Follows
<1>11. Requested'
  <2>1. Yielded' = last
    <3>1. pc' \in {"create", "begin", "append"} /\ Len(digest') = done
      BY <1>1
    <3>2. Yielded' = done + Len(batch')
      BY <3>1 DEF Yielded
    <3>3. \A a, b \in Int : a + (b - a) = b
      OBVIOUS
    <3>4. done \in Int /\ last \in Int
      BY <1>4
    <3> HIDE DEF done, last
    <3> QED
      BY <1>6, <3>2, <3>3, <3>4, Zenon
  <2>2. \A j \in 1 .. Len(pending) :
          /\ pending[j].first <= pending[j].last
          /\ pending[j].last + 1 = IF j = Len(pending) THEN next ELSE pending[j + 1].first
    BY <1>1 DEF CacheInv, Requested, Streaming
  <2>3. IF pending' = << >> THEN next = last + 1 ELSE pending'[1].first = last + 1
    <3>1. last + 1 = IF 1 = Len(pending) THEN next ELSE pending[2].first
      <4>1. last + 1 = IF 1 = Len(pending) THEN next ELSE pending[1 + 1].first
        BY <1>3, <2>2, Zenon
      <4> HIDE DEF last
      <4> QED
        BY <4>1
    <3>2. pending' = << >> => Len(pending) = 1
      BY <1>3, <1>7
    <3>3. pending' # << >> => Len(pending) # 1 /\ pending'[1] = pending[2]
      BY <1>3, <1>7, EmptySeq
    <3> QED
      BY <3>1, <3>2, <3>3
  <2>4. ASSUME NEW j \in 1 .. Len(pending')
        PROVE  /\ pending'[j].first <= pending'[j].last
               /\ pending'[j].last + 1 =
                    IF j = Len(pending') THEN next ELSE pending'[j + 1].first
    <3>1. j + 1 \in 1 .. Len(pending) /\ (j = Len(pending') <=> j + 1 = Len(pending))
      BY <1>3, <1>7
    <3>2. pending'[j] = pending[j + 1]
      BY <1>7
    <3>3. j # Len(pending') => pending'[j + 1] = pending[j + 1 + 1]
      BY <1>3, <1>7
    <3> QED
      BY <2>2, <3>1, <3>2, <3>3
  <2> QED
    BY <1>1, <2>1, <2>3, <2>4 DEF Requested
<1>12. Checkpointed' /\ Described'
  BY <1>1 DEF CacheInv, Checkpointed, Described, Beginning, ReturnsItsOwn
<1>13. Written'
  BY <1>1 DEF CacheInv, Written, Writing, Streaming
<1> QED
  BY <1>8, <1>9, <1>10, <1>11, <1>12, <1>13 DEF CacheInv

-----------------------------------------------------------------------------
\* The writer appends what was yielded and then says so.
LEMMA CreateKeeps == CacheInv /\ Create => CacheInv'
<1> SUFFICES ASSUME CacheInv, Create PROVE CacheInv'
  OBVIOUS
<1>1. /\ UNCHANGED <<checkpoint, cache, sidecar, input, digest, pending, next, batch,
                     result, faults>>
      /\ pc = "create" /\ pc' = "begin" /\ partial = None /\ known' = TRUE
      /\ partial' = [data |-> DataOf[input], rows |-> << >>]
  BY DEF Create, Goto, stream
<1>2. input \in Inputs /\ cache = None /\ checkpoint = None /\ digest = << >>
  BY <1>1 DEF CacheInv, Memory, Written, Writing, Streaming
<1>3. partial' \in File /\ partial' # None
  <2>1. DataOf[input] \in Data
    BY <1>2 DEF Data
  <2>2. << >> \in Seq(Row)
    BY EmptySeq
  <2>3. partial' \in File
    BY <1>1, <2>1, <2>2, FileOfRows
  <2> QED
    BY <2>3, CacheAssumption
<1>4. TypeOK'
  <2>1. known' \in BOOLEAN
    BY <1>1, Zenon
  <2> QED
    BY <1>1, <1>3, <2>1 DEF CacheInv, TypeOK
<1>5. Memory' /\ Follows' /\ Requested'
  BY <1>1 DEF CacheInv, Memory, Follows, Requested, Yielded, Beginning, Streaming
<1>6. Checkpointed' /\ Described'
  BY <1>1, <1>2 DEF CacheInv, Checkpointed, Described, ReturnsItsOwn
<1>7. Written'
  BY <1>1, <1>2, <1>3 DEF Written, Writing, Streaming
<1> QED
  BY <1>4, <1>5, <1>6, <1>7 DEF CacheInv

\* A checkpoint of what a process has hashed.
LEMMA RunningIsState ==
  ASSUME TypeOK, input \in Inputs
  PROVE  /\ Running \in State /\ Running # None
         /\ Running.input = input /\ Running.rows = digest /\ Running.status = "running"
<1>1. Running \in State
  BY DEF Running, State, TypeOK
<1> QED
  BY <1>1, CacheAssumption DEF Running

LEMMA FirstCheckpointKeeps == CacheInv /\ FirstCheckpoint => CacheInv'
<1> SUFFICES ASSUME CacheInv, FirstCheckpoint PROVE CacheInv'
  OBVIOUS
<1>1. /\ UNCHANGED <<partial, cache, sidecar, input, digest, known, pending, next, batch,
                     result, faults>>
      /\ pc = "begin" /\ checkpoint' = Running
      /\ pc' = IF batch = << >> THEN "batches" ELSE "append"
  BY DEF FirstCheckpoint, Goto, process, stream
<1>2. /\ input \in Inputs /\ cache = None /\ known
      /\ partial # None /\ partial.data = DataOf[input] /\ partial.rows = digest
      /\ Beginning(DataOf[input], digest)
  BY <1>1 DEF CacheInv, Memory, Written, Writing, Streaming
<1>3. /\ checkpoint' \in State /\ checkpoint' # None
      /\ checkpoint'.input = input /\ checkpoint'.rows = digest
      /\ checkpoint'.status = "running"
  BY <1>1, <1>2, RunningIsState DEF CacheInv
<1>4. TypeOK'
  BY <1>1, <1>3 DEF CacheInv, TypeOK
<1>5. Memory' /\ Follows'
  BY <1>1 DEF CacheInv, Memory, Follows, Beginning
<1>6. Requested'
  <2>1. Yielded' = Yielded
    <3>1. Len(digest) \in Nat /\ (batch = << >> => Len(batch) = 0)
      BY DEF CacheInv, TypeOK
    <3> QED
      BY <1>1, <3>1 DEF Yielded
  <2> QED
    BY <1>1, <2>1 DEF CacheInv, Requested, Streaming
<1>7. Checkpointed'
  BY <1>1, <1>2, <1>3 DEF Checkpointed, Beginning
<1>8. Written'
  BY <1>1, <1>2, <1>3 DEF Written, Writing, Streaming
<1>9. Described'
  BY <1>1 DEF CacheInv, Described, ReturnsItsOwn
<1> QED
  BY <1>4, <1>5, <1>6, <1>7, <1>8, <1>9 DEF CacheInv

LEMMA AppendBatchKeeps == CacheInv /\ AppendBatch => CacheInv'
<1> SUFFICES ASSUME CacheInv, AppendBatch PROVE CacheInv'
  OBVIOUS
<1>1. /\ UNCHANGED <<checkpoint, cache, sidecar, input, known, pending, next, batch,
                     result, faults>>
      /\ pc = "append" /\ pc' = "record" /\ digest' = digest \o batch
      /\ partial' = [partial EXCEPT !.rows = @ \o batch]
  BY DEF AppendBatch, Goto, stream
<1>2. /\ input \in Inputs /\ cache = None /\ known
      /\ partial # None /\ partial.data = DataOf[input] /\ partial.rows = digest
      /\ checkpoint # None /\ checkpoint.input = input /\ checkpoint.rows = digest
      /\ Beginning(DataOf[input], digest) /\ batch # << >>
      /\ Len(digest) + Len(batch) <= Rows
      /\ \A n \in 1 .. Len(batch) : batch[n] = <<DataOf[input], Len(digest) + n>>
  BY <1>1 DEF CacheInv, Memory, Follows, Written, Writing, Streaming
<1>3. digest \in Seq(Row) /\ batch \in Seq(Row) /\ partial \in File
  BY <1>2 DEF CacheInv, TypeOK
<1>4. /\ digest' \in Seq(Row) /\ Len(digest') = Len(digest) + Len(batch)
      /\ Beginning(DataOf[input], digest')
  BY <1>1, <1>2, <1>3, BeginningGrows
<1>5. partial' = [data |-> DataOf[input], rows |-> digest']
  BY <1>1, <1>2, <1>3 DEF File
<1>6. partial' \in File /\ partial' # None
  <2>1. DataOf[input] \in Data
    BY <1>2 DEF Data
  <2>2. partial' \in File
    BY <1>4, <1>5, <2>1, FileOfRows
  <2> QED
    BY <2>2, CacheAssumption
<1>7. Len(batch) \in Nat \ {0} /\ Len(digest) \in Nat
  BY <1>2, <1>3, EmptySeq
<1>8. TypeOK'
  BY <1>1, <1>4, <1>6 DEF CacheInv, TypeOK
<1>9. Memory'
  BY <1>1, <1>2, <1>4 DEF Memory, Beginning
<1>10. Follows'
  BY <1>1, <1>2 DEF Follows
<1>11. Requested'
  <2>1. Yielded' = Yielded
    BY <1>1, <1>4 DEF Yielded
  <2> QED
    BY <1>1, <2>1 DEF CacheInv, Requested, Streaming
<1>12. Checkpointed'
  BY <1>1, <1>2, <1>5 DEF CacheInv, Checkpointed, Beginning
<1>13. Written'
  <2>1. Len(checkpoint'.rows) < Len(digest')
    BY <1>1, <1>2, <1>4, <1>7
  <2>2. partial'.data = DataOf[input] /\ partial'.rows = digest'
    BY <1>5
  <2> QED
    BY <1>1, <1>2, <1>6, <2>1, <2>2 DEF Written, Writing, Streaming
<1>14. Described'
  BY <1>1 DEF CacheInv, Described, ReturnsItsOwn
<1> QED
  BY <1>8, <1>9, <1>10, <1>11, <1>12, <1>13, <1>14 DEF CacheInv

LEMMA CheckpointKeeps == CacheInv /\ Checkpoint => CacheInv'
<1> SUFFICES ASSUME CacheInv, Checkpoint PROVE CacheInv'
  OBVIOUS
<1>1. /\ UNCHANGED <<partial, cache, sidecar, input, digest, known, pending, next,
                     result, faults>>
      /\ pc = "record" /\ pc' = "batches" /\ checkpoint' = Running /\ batch' = << >>
  BY DEF Checkpoint, Goto, process
<1>2. /\ input \in Inputs /\ cache = None /\ known
      /\ partial # None /\ partial.data = DataOf[input] /\ partial.rows = digest
      /\ Beginning(DataOf[input], digest)
  BY <1>1 DEF CacheInv, Memory, Written, Writing, Streaming
<1>3. /\ checkpoint' \in State /\ checkpoint' # None
      /\ checkpoint'.input = input /\ checkpoint'.rows = digest
      /\ checkpoint'.status = "running"
  BY <1>1, <1>2, RunningIsState DEF CacheInv
<1>4. TypeOK'
  <2>1. << >> \in Seq(Row)
    BY EmptySeq
  <2> QED
    BY <1>1, <1>3, <2>1 DEF CacheInv, TypeOK
<1>5. Memory' /\ Follows'
  BY <1>1 DEF CacheInv, Memory, Follows, Beginning
<1>6. Requested'
  <2>1. Yielded' = Yielded
    BY <1>1 DEF Yielded
  <2> QED
    BY <1>1, <2>1 DEF CacheInv, Requested, Streaming
<1>7. Checkpointed'
  BY <1>1, <1>2, <1>3 DEF Checkpointed, Beginning
<1>8. Written'
  BY <1>1, <1>2, <1>3 DEF Written, Writing, Streaming
<1>9. Described'
  BY <1>1 DEF CacheInv, Described, ReturnsItsOwn
<1> QED
  BY <1>4, <1>5, <1>6, <1>7, <1>8, <1>9 DEF CacheInv

LEMMA MarkReadyKeeps == CacheInv /\ MarkReady => CacheInv'
<1> SUFFICES ASSUME CacheInv, MarkReady PROVE CacheInv'
  OBVIOUS
<1>1. /\ UNCHANGED <<partial, cache, sidecar, input, digest, known, pending, next, batch,
                     result, faults>>
      /\ pc = "batches" /\ pc' = "publish" /\ Len(digest) = Rows
      /\ checkpoint' = [Running EXCEPT !.status = "ready", !.file = partial]
  BY DEF MarkReady, Goto, process, stream
<1>2. digest # << >>
  BY <1>1, CacheAssumption
<1>3. /\ input \in Inputs /\ cache = None /\ known
      /\ partial # None /\ partial.data = DataOf[input] /\ partial.rows = digest
      /\ Beginning(DataOf[input], digest)
  BY <1>1, <1>2 DEF CacheInv, Memory, Written, Writing, Streaming
<1>4. /\ checkpoint' = [input |-> input, status |-> "ready", rows |-> digest, file |-> partial]
      /\ checkpoint'.input = input /\ checkpoint'.rows = digest /\ checkpoint'.file = partial
  <2>1. checkpoint' = [input |-> input, status |-> "ready", rows |-> digest, file |-> partial]
    BY <1>1 DEF Running
  <2> QED
    BY <2>1
<1>5. checkpoint' \in State /\ checkpoint' # None
  <2>1. checkpoint' \in State
    BY <1>3, <1>4 DEF State, CacheInv, TypeOK
  <2> QED
    BY <2>1, CacheAssumption
<1>6. TypeOK'
  BY <1>1, <1>5 DEF CacheInv, TypeOK
<1>7. Memory' /\ Follows' /\ Requested'
  BY <1>1 DEF CacheInv, Memory, Follows, Requested, Streaming, Beginning
<1>8. Checkpointed'
  <2>1. Beginning(DataOf[checkpoint'.input], checkpoint'.rows)
    BY <1>3, <1>4
  <2>2. partial' = partial /\ checkpoint'.file # None
        /\ checkpoint'.file.data = DataOf[checkpoint'.input]
        /\ partial.data = DataOf[checkpoint'.input]
    BY <1>1, <1>3, <1>4
  <2> HIDE DEF Beginning
  <2> QED
    BY <2>1, <2>2 DEF Checkpointed, Beginning
<1>9. Written'
  <2>1. checkpoint' # None /\ checkpoint'.input = input' /\ checkpoint'.rows = digest'
    BY <1>1, <1>4, <1>5
  <2> QED
    BY <1>1, <1>3, <2>1 DEF Written, Writing, Streaming
<1>10. Described'
  BY <1>1 DEF CacheInv, Described, ReturnsItsOwn
<1> QED
  BY <1>6, <1>7, <1>8, <1>9, <1>10 DEF CacheInv

\* What is published is whole, and then described.
LEMMA PublishKeeps == CacheInv /\ Publish => CacheInv'
<1> SUFFICES ASSUME CacheInv, Publish PROVE CacheInv'
  OBVIOUS
<1>1. /\ UNCHANGED <<checkpoint, sidecar, input, digest, known, pending, next, batch,
                     result, faults>>
      /\ pc = "publish" /\ pc' = "describe" /\ cache' = partial /\ partial' = None
  BY DEF Publish, Goto, process, stream
<1>2. Len(digest) = Rows /\ cache = None
  BY <1>1 DEF CacheInv, Written, Writing
<1>3. digest # << >> /\ digest \in Seq(Row)
  BY <1>2, CacheAssumption DEF CacheInv, TypeOK
<1>4. /\ partial # None /\ partial.data = DataOf[input] /\ partial.rows = digest
      /\ Beginning(DataOf[input], digest)
  BY <1>1, <1>3 DEF CacheInv, Memory, Written, Writing
<1>5. digest = Whole(DataOf[input])
  BY <1>2, <1>3, <1>4, BeginningIsWhole
<1>6. TypeOK' /\ Memory' /\ Follows'
  BY <1>1 DEF CacheInv, TypeOK, Memory, Follows, Beginning
<1>7. Requested' /\ Written'
  BY <1>1 DEF Requested, Written, Streaming, Writing
<1>8. Checkpointed'
  BY <1>1 DEF CacheInv, Checkpointed, Beginning
<1>9. Described'
  BY <1>1, <1>2, <1>4, <1>5 DEF CacheInv, Described, ReturnsItsOwn
<1> QED
  BY <1>6, <1>7, <1>8, <1>9 DEF CacheInv

LEMMA DescribeKeeps == CacheInv /\ Describe => CacheInv'
<1> SUFFICES ASSUME CacheInv, Describe PROVE CacheInv'
  OBVIOUS
<1>1. /\ UNCHANGED <<partial, checkpoint, cache, input, digest, known, pending, next, batch,
                     result, faults>>
      /\ pc \in {"describe", "redescribe"} /\ pc' = "clear"
      /\ sidecar' = [data |-> DataOf[input], of |-> cache, generation |-> pc = "describe"]
  BY DEF Describe, Goto, process, stream
<1>2. input \in Inputs /\ cache # None /\ cache.data = DataOf[input]
  BY <1>1 DEF CacheInv, Memory, Described
<1>3. sidecar' \in Description /\ sidecar' # None /\ sidecar'.of = cache
  <2>1. cache \in File /\ DataOf[input] \in Data
    BY <1>2 DEF CacheInv, TypeOK, Data
  <2>2. (pc = "describe") \in BOOLEAN
    OBVIOUS
  <2>3. sidecar' \in Description
    BY <1>1, <2>1, <2>2 DEF Description
  <2> QED
    BY <1>1, <2>3, CacheAssumption
<1>4. TypeOK' /\ Memory' /\ Follows'
  BY <1>1, <1>3 DEF CacheInv, TypeOK, Memory, Follows, Beginning
<1>5. Requested' /\ Written'
  BY <1>1 DEF Requested, Written, Streaming, Writing
<1>6. Checkpointed'
  BY <1>1 DEF CacheInv, Checkpointed, Beginning
<1>7. Described'
  BY <1>1, <1>2, <1>3 DEF CacheInv, Described, ReturnsItsOwn
<1> QED
  BY <1>4, <1>5, <1>6, <1>7 DEF CacheInv

-----------------------------------------------------------------------------
\* Every step keeps the inductive invariant.
LEMMA CacheStays == CacheInv /\ [Next]_vars => CacheInv'
<1> SUFFICES ASSUME CacheInv, [Next]_vars PROVE CacheInv'
  OBVIOUS
<1>1. CASE \E i \in Inputs : Begin(i)
  BY <1>1, EndsKeep, RecoverKeeps, ResumeKeeps, StartSizedKeeps, StartUnsizedKeeps DEF Begin
<1>2. CASE Step
  BY <1>2, EndsKeep, RequestKeeps, AnswerKeeps, YieldKeeps, CreateKeeps,
     FirstCheckpointKeeps, AppendBatchKeeps, CheckpointKeeps, MarkReadyKeeps,
     PublishKeeps, DescribeKeeps DEF Step
<1>3. CASE Kill
  BY <1>3, KillKeeps
<1>4. CASE UNCHANGED vars
  <2>1. UNCHANGED <<partial, checkpoint, cache, sidecar, pc, input, digest, known, pending,
                    next, batch, result, faults>>
    BY <1>4 DEF vars, disk, process, stream
  <2>2. TypeOK' /\ Memory' /\ Follows'
    BY <2>1 DEF CacheInv, TypeOK, Memory, Follows, Beginning
  <2>3. Requested' /\ Checkpointed'
    BY <2>1 DEF CacheInv, Requested, Yielded, Checkpointed, Beginning
  <2>4. Written' /\ Described'
    BY <2>1 DEF CacheInv, Written, Described, ReturnsItsOwn
  <2> QED
    BY <2>2, <2>3, <2>4 DEF CacheInv
<1> QED
  BY <1>1, <1>2, <1>3, <1>4 DEF Next

LEMMA CacheInvHolds == Spec => []CacheInv
BY CacheStarts, CacheStays, PTL DEF Spec

\* For any inputs, sizes and faults, a published cache holds every row of its
\* source once, in source order (_iter_embedded_batches, generate_cache).
THEOREM CacheWholeHolds == Spec => []CacheWhole
<1>1. CacheInv => CacheWhole
  BY DEF CacheInv, Described, CacheWhole
<1> QED
  BY <1>1, CacheInvHolds, PTL

\* For any inputs, sizes and faults, a run that returned left a described cache
\* of its own inputs (_validate_existing_cache, generate_cache).
THEOREM ReturnsItsOwnHolds == Spec => []ReturnsItsOwn
<1>1. CacheInv => ReturnsItsOwn
  BY DEF CacheInv, Described
<1> QED
  BY <1>1, CacheInvHolds, PTL

-----------------------------------------------------------------------------
(***************************************************************************)
(* The refinement of ResumableJob.  What a run claims and commits changes   *)
(* with the checkpoint and with publication only.                          *)
(***************************************************************************)
LEMMA JobStarts == Init => Job!Init
BY DEF Init, Job!Init, Claimed, Committed

LEMMA JobUntouched ==
  ASSUME UNCHANGED <<cache, checkpoint>>
  PROVE  UNCHANGED Job!vars
BY DEF Job!vars, Claimed, Committed

\* What is claimed is never nothing, once there is something.
LEMMA ClaimIsOfData ==
  ASSUME CacheInv, cache # None \/ checkpoint # None
  PROVE  Claimed \in Data /\ Claimed # None
<1>1. CASE cache # None
  BY <1>1, CacheAssumption DEF CacheInv, TypeOK, File, Claimed
<1>2. CASE cache = None
  <2>1. checkpoint.input \in Inputs
    BY <1>2 DEF CacheInv, TypeOK, State
  <2> QED
    BY <1>2, <2>1, CacheAssumption DEF Claimed, Data
<1> QED
  BY <1>1, <1>2

LEMMA JobStep == CacheInv /\ CacheInv' /\ [Next]_vars => [Job!Next]_Job!vars
<1> SUFFICES ASSUME CacheInv, CacheInv', [Next]_vars PROVE Job!Next \/ UNCHANGED Job!vars
  OBVIOUS
<1>1. CASE FirstCheckpoint
  <2>1. /\ pc = "begin" /\ checkpoint' = Running /\ UNCHANGED <<cache, input, digest>>
    BY <1>1 DEF FirstCheckpoint, process
  <2>2. input \in Inputs /\ cache = None /\ checkpoint = None /\ Len(digest) <= Rows
    BY <2>1 DEF CacheInv, Memory, Written, Writing, Streaming, Beginning
  <2>3. /\ checkpoint' # None /\ checkpoint'.input = input /\ checkpoint'.rows = digest
    BY <2>1, <2>2, RunningIsState DEF CacheInv
  <2>4. Len(digest) \in 0 .. Rows
    BY <2>2, CacheAssumption DEF CacheInv, TypeOK
  <2>5. Job!Claim(DataOf[input])
    BY <2>1, <2>2, <2>3, <2>4 DEF Job!Claim, Claimed, Committed
  <2> QED
    BY <2>2, <2>5 DEF Job!Next, Data
<1>2. CASE Checkpoint
  <2>1. /\ pc = "record" /\ checkpoint' = Running /\ UNCHANGED <<cache, input, digest>>
    BY <1>2 DEF Checkpoint, process
  <2>2. /\ input \in Inputs /\ cache = None /\ checkpoint # None /\ checkpoint.input = input
        /\ Len(checkpoint.rows) < Len(digest) /\ Len(digest) <= Rows
    BY <2>1 DEF CacheInv, Memory, Written, Writing, Streaming, Beginning
  <2>3. /\ checkpoint' # None /\ checkpoint'.input = input /\ checkpoint'.rows = digest
    BY <2>1, <2>2, RunningIsState DEF CacheInv
  <2>4. Len(digest) \in Len(checkpoint.rows) + 1 .. Rows
    BY <2>2, CacheAssumption DEF CacheInv, TypeOK, State
  <2>5. Claimed # None
    BY <2>2, ClaimIsOfData
  <2>6. Job!Commit
    BY <2>1, <2>2, <2>3, <2>4, <2>5 DEF Job!Commit, Claimed, Committed
  <2> QED
    BY <2>6 DEF Job!Next
<1>3. CASE MarkReady
  <2>1. /\ pc = "batches" /\ UNCHANGED cache /\ Len(digest) = Rows
        /\ checkpoint' = [Running EXCEPT !.status = "ready", !.file = partial]
    BY <1>3 DEF MarkReady
  <2>2. digest # << >>
    BY <2>1, CacheAssumption
  <2>3. /\ cache = None /\ checkpoint # None /\ checkpoint.input = input
        /\ checkpoint.rows = digest
    BY <2>1, <2>2 DEF CacheInv, Written, Writing, Streaming
  <2>4. checkpoint'.input = input /\ checkpoint'.rows = digest
    BY <2>1 DEF Running
  <2>5. checkpoint' # None
    <3>1. pc' = "publish" /\ UNCHANGED known /\ known
      BY <1>3, <2>1, <2>3 DEF MarkReady, Goto, process, CacheInv, Written, Writing, Streaming
    <3> QED
      BY <3>1 DEF CacheInv, Written, Writing
  <2> QED
    BY <2>1, <2>3, <2>4, <2>5 DEF Job!vars, Claimed, Committed
<1>4. CASE Publish
  <2>1. pc = "publish" /\ cache' = partial /\ UNCHANGED checkpoint
    BY <1>4 DEF Publish
  <2>2. cache = None /\ Len(digest) = Rows
    BY <2>1 DEF CacheInv, Written, Writing
  <2>3. digest # << >>
    BY <2>2, CacheAssumption
  <2>4. /\ partial # None /\ partial.data = DataOf[input]
        /\ checkpoint # None /\ checkpoint.input = input /\ checkpoint.rows = digest
    BY <2>1, <2>3 DEF CacheInv, Written, Writing
  <2>5. Claimed # None
    BY <2>4, ClaimIsOfData
  <2>6. Job!Publish
    BY <2>1, <2>2, <2>4, <2>5 DEF Job!Publish, Claimed, Committed
  <2> QED
    BY <2>6 DEF Job!Next
<1>5. CASE Clear
  <2>1. pc = "clear" /\ UNCHANGED cache
    BY <1>5 DEF Clear
  <2>2. cache # None
    BY <2>1 DEF CacheInv, Described
  <2> QED
    BY <2>1, <2>2 DEF Job!vars, Claimed, Committed
<1>6. CASE UNCHANGED <<cache, checkpoint>>
  BY <1>6, JobUntouched
<1> QED
  <2>1. CASE \E i \in Inputs : Begin(i)
    BY <1>6, <2>1 DEF Begin, Refuse, Reuse, Recover, Resume, StartSized, StartUnsized, disk
  <2>2. CASE Step
    BY <1>1, <1>2, <1>3, <1>4, <1>5, <1>6, <2>2 DEF Step, Request, Answer, Yield,
       RequestFailed, Create, AppendBatch, Describe, disk
  <2>3. CASE Kill
    BY <1>6, <2>3 DEF Kill
  <2>4. CASE UNCHANGED vars
    BY <1>6, <2>4 DEF vars, disk
  <2> QED
    BY <2>1, <2>2, <2>3, <2>4 DEF Next

\* For any inputs, sizes and faults, every run and every kill is a step of the
\* abstract job or leaves it alone: committed rows are never done again, never
\* change owner and are published only when all are there (the checkpoints of
\* generate_cache).
THEOREM JobImplemented == Spec => ImplementsJob
<1>1. Spec => Job!Init
  BY JobStarts DEF Spec
<1> QED
  BY <1>1, CacheStarts, CacheStays, JobStep, PTL DEF Spec, ImplementsJob, Job!Spec
===============================================================================
