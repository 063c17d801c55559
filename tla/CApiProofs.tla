------------------------------ MODULE CApiProofs ------------------------------
(***************************************************************************)
(* Theorems about threads that share a searcher through the C API, for any  *)
(* number of threads, any chunks, any damaged ones and any batch size.      *)
(***************************************************************************)
EXTENDS CApi, SequenceTheorems, TLAPS

\* A step of one thread.
Step(t) ==
  \/ Open(t) \/ Destroy(t) \/ Inspect(t) \/ DestroyResults(t) \/ Search(t)
  \/ AllocationFails(t) \/ StreamFails(t) \/ CallsBack(t)
  \/ EnterCallback(t) \/ CallbackFails(t) \/ CallbackReturns(t)
  \/ LockStream(t) \/ Seek(t) \/ ReadBytes(t) \/ Check(t) \/ BatchRead(t) \/ Publish(t)

\* The handle of a thread has all texts of undamaged chunks, or there is none.
WholeHandle(t) ==
  output[t] # None =>
    /\ output[t].texts = [i \in DOMAIN output[t].ids |-> <<output[t].ids[i], output[t].ids[i]>>]
    /\ \A i \in DOMAIN output[t].ids : output[t].ids[i] \notin Damaged

\* What the inductive invariant says of one thread.
Fine(t) ==
  /\ At(t, "callback") => mutex.callback = t
  /\ Reading(t) => mutex.stream = t /\ stack[t].todo # <<>>
  /\ IF At(t, "idle") THEN stack[t] = Unwound ELSE searcher /\ fault[t] = "ok"
  /\ pc[t] \in {"embed", "callback"} => stack[t].results = <<>>
  /\ At(t, "read") => position = Head(stack[t].todo)
  /\ At(t, "check") => stack[t].got = Head(stack[t].todo)
  /\ stack[t].results # <<>> => Copied(stack[t])
  /\ At(t, "idle") => /\ status[t] = fault[t]
                      /\ status[t] # "ok" => error[t] = status[t]
  /\ WholeHandle(t)

\* The inductive invariant is the types and what it says of each thread.
LEMMA ThreadByThread == CApiInv <=> CApiTypeOK /\ \A t \in Threads : Fine(t)
BY DEF CApiInv, LocksHeld, InCall, StreamPlaced, CopiedSoFar, FailureIsItsOwn,
       WholeOrNothing, Fine, WholeHandle, Reading

LEMMA ThreadByThreadNext == CApiInv' <=> CApiTypeOK' /\ \A t \in Threads : Fine(t)'
BY DEF CApiInv, LocksHeld, InCall, StreamPlaced, CopiedSoFar, FailureIsItsOwn,
       WholeOrNothing, Fine, WholeHandle, Reading

\* Every step is a step of one thread.
LEMMA StepOfOne == Next => \E t \in Threads : Step(t)
BY DEF Next, Work, Step

\* What a search finds is a sequence of chunks that is not empty.
LEMMA SubsequenceIsSeq ==
  ASSUME NEW S, NEW n \in Nat, NEW s \in Subsequences(S, n)
  PROVE  s \in Seq(S) /\ s # <<>> /\ Len(s) \in 1..n
<1>1. PICK k \in 1..n : s \in [1..k -> S]
  BY DEF Subsequences
<1>2. s \in Seq(S) /\ Len(s) = k
  BY <1>1
<1> QED
  BY <1>1, <1>2

\* The next batch is a sequence of chunks.
LEMMA BatchIsSeq ==
  ASSUME NEW S, NEW found \in Seq(S), NEW from \in Nat, from <= Len(found)
  PROVE  NextBatch(found, from) \in Seq(S)
<1> DEFINE to == IF from + Batch < Len(found) THEN from + Batch ELSE Len(found)
<1>1. to \in Int /\ to <= Len(found) /\ from + 1 \in Int
  BY CApiAssumption
<1>2. \A i \in from + 1 .. to : found[i] \in S
  BY <1>1
<1> HIDE DEF to
<1>3. SubSeq(found, from + 1, to) \in Seq(S)
  BY <1>1, <1>2, SubSeqProperties
<1> QED
  BY <1>3 DEF NextBatch, to

\* Of a sequence that is not empty, its head and tail.
LEMMA HeadAndTail ==
  ASSUME NEW S, NEW s \in Seq(S), s # <<>>
  PROVE  Head(s) \in S /\ Tail(s) \in Seq(S)
BY HeadTailProperties

-----------------------------------------------------------------------------
\* Between calls nothing is held of a call: everything in it is empty.
LEMMA UnwoundIsACall == Unwound \in Calls /\ Unwound.recomputed <= Len(Unwound.found)
BY DEF Unwound, Calls

\* The type invariant in three parts: what the calls returned, the locks and
\* their owners, and what the calls hold.
Slots ==
  /\ searcher \in BOOLEAN /\ bad \in BOOLEAN /\ position \in 0..Count
  /\ pc \in [Threads -> Places] /\ searches \in 0..MaxSearches
  /\ error \in [Threads -> Failures \cup {"nested", None}]
  /\ status \in [Threads -> Failures \cup {"ok"}]
  /\ fault \in [Threads -> Failures \cup {"ok"}]
  /\ output \in [Threads -> {None} \cup [ids : Seq(Docs), texts : Seq(Docs \X Docs)]]

Owners ==
  /\ mutex \in [{"callback", "stream"} -> Threads \cup {None}]
  /\ \A t \in Threads :
       /\ mutex.callback = t => At(t, "callback")
       /\ mutex.stream = t => Reading(t)

Stacks ==
  /\ stack \in [Threads -> Calls]
  /\ \A t \in Threads : stack[t].recomputed <= Len(stack[t].found)

LEMMA TypesInParts == CApiTypeOK <=> Slots /\ Owners /\ Stacks
BY DEF CApiTypeOK, Slots, Owners, Stacks, Reading

LEMMA TypesInPartsNext == CApiTypeOK' <=> Slots' /\ Owners' /\ Stacks'
BY DEF CApiTypeOK, Slots, Owners, Stacks, Reading

\* The initial state is well typed.
LEMMA TypesInit == Init => CApiTypeOK
<1> SUFFICES ASSUME Init PROVE Slots /\ Owners /\ Stacks
  BY TypesInParts
<1>1. Slots
  <2>1. /\ searcher \in BOOLEAN /\ bad \in BOOLEAN /\ position \in 0..Count
        /\ searches \in 0..MaxSearches
    <3>1. searcher \in BOOLEAN /\ bad \in BOOLEAN
      BY Zenon DEF Init
    <3>2. position \in 0..Count /\ searches \in 0..MaxSearches
      BY CApiAssumption DEF Init
    <3> QED
      BY <3>1, <3>2
  <2>2. /\ pc \in [Threads -> Places]
        /\ status \in [Threads -> Failures \cup {"ok"}]
        /\ fault \in [Threads -> Failures \cup {"ok"}]
    BY DEF Init, Places
  <2>3. error \in [Threads -> Failures \cup {"nested", None}]
    BY DEF Init
  <2>4. output \in [Threads -> {None} \cup [ids : Seq(Docs), texts : Seq(Docs \X Docs)]]
    BY DEF Init
  <2> QED
    BY <2>1, <2>2, <2>3, <2>4 DEF Slots
<1>2. Owners
  BY CApiAssumption DEF Init, Owners
<1>3. Stacks
  BY UnwoundIsACall DEF Init, Stacks
<1> QED
  BY <1>1, <1>2, <1>3

\* The stack of one call is replaced by one that is well typed.
LEMMA StackReplaced ==
  ASSUME Stacks, NEW t \in Threads, NEW call \in Calls,
         call.recomputed <= Len(call.found), stack' = [stack EXCEPT ![t] = call]
  PROVE  Stacks'
BY DEF Stacks

\* A call that throws is unwound, and its message is that of the failure.
LEMMA ThrowIsTyped ==
  ASSUME Stacks, NEW t \in Threads, NEW failure \in Failures, Throw(t, failure),
         pc \in [Threads -> Places], status \in [Threads -> Failures \cup {"ok"}],
         error \in [Threads -> Failures \cup {"nested", None}]
  PROVE  /\ Stacks'
         /\ pc' \in [Threads -> Places] /\ status' \in [Threads -> Failures \cup {"ok"}]
         /\ error' \in [Threads -> Failures \cup {"nested", None}]
<1>1. Stacks'
  BY StackReplaced, UnwoundIsACall DEF Throw
<1> QED
  BY <1>1 DEF Throw, Go, SetError, Places

\* What the calls returned stays well typed.
LEMMA SlotsStep ==
  ASSUME Slots, Stacks, NEW t \in Threads, Step(t),
         Reading(t) => stack[t].todo # <<>>,
         At(t, "read") => position \in Docs
  PROVE  Slots'
<1> USE CApiAssumption
<1>1. CASE Open(t) \/ Destroy(t) \/ Inspect(t) \/ DestroyResults(t)
  <2>1. PICK result \in {"ok", "invalid", "memory", "io", "artifact"} : Returns(t, result)
    BY <1>1 DEF Open, Destroy, Inspect, DestroyResults
  <2>2. result \in Failures \cup {"ok"} /\ (result # "ok" => result \in Failures)
    BY DEF Failures
  <2>3. /\ pc' = pc /\ searches' = searches
        /\ error' \in [Threads -> Failures \cup {"nested", None}]
        /\ status' \in [Threads -> Failures \cup {"ok"}]
        /\ fault' \in [Threads -> Failures \cup {"ok"}]
    BY <2>1, <2>2 DEF Slots, Returns, SetError, Blame
  <2>4. searcher' \in BOOLEAN /\ bad' \in BOOLEAN /\ position' \in 0..Count
    <3>1. CASE Open(t)
      <4>1. searcher' \in BOOLEAN
        <5>1. PICK opened : searcher' = (opened = "ok")
          BY <3>1, Zenon DEF Open
        <5>2. (opened = "ok") \in BOOLEAN
          OBVIOUS
        <5> QED
          BY <5>1, <5>2, Zenon
      <4>2. bad' \in BOOLEAN
        BY <3>1, Zenon DEF Open
      <4>3. position' \in 0..Count
        BY <3>1 DEF Open
      <4> QED
        BY <4>1, <4>2, <4>3
    <3>2. CASE Destroy(t)
      BY <3>2 DEF Slots, Destroy
    <3>3. CASE Inspect(t) \/ DestroyResults(t)
      BY <3>3 DEF Slots, Inspect, DestroyResults
    <3> QED
      BY <1>1, <3>1, <3>2, <3>3
  <2>5. output' \in [Threads -> {None} \cup [ids : Seq(Docs), texts : Seq(Docs \X Docs)]]
    BY <1>1 DEF Slots, Open, Destroy, Inspect, DestroyResults
  <2> QED
    BY <2>3, <2>4, <2>5 DEF Slots
<1>2. CASE Search(t)
  <2>1. /\ UNCHANGED <<searcher, position, bad, output>>
        /\ searches' \in 0..MaxSearches
    BY <1>2 DEF Slots, Search, shared
  <2>2. /\ pc' \in [Threads -> Places] /\ status' \in [Threads -> Failures \cup {"ok"}]
        /\ error' \in [Threads -> Failures \cup {"nested", None}]
        /\ fault' \in [Threads -> Failures \cup {"ok"}]
    <3>1. CASE Go(t, "embed") /\ SetError(t, None) /\ Blame(t, "ok") /\ UNCHANGED status
      BY <3>1 DEF Slots, Go, SetError, Blame, Places
    <3>2. CASE Throw(t, "invalid") /\ Blame(t, "invalid")
      BY <3>2, ThrowIsTyped DEF Slots, Blame, Failures
    <3> QED
      BY <1>2, <3>1, <3>2 DEF Search
  <2> QED
    BY <2>1, <2>2 DEF Slots
<1>3. CASE AllocationFails(t) \/ StreamFails(t) \/ CallbackFails(t)
  <2>1. PICK failure \in Failures : Throw(t, failure) /\ Blame(t, failure)
    BY <1>3 DEF AllocationFails, StreamFails, CallbackFails, Failures
  <2>2. /\ pc' \in [Threads -> Places] /\ status' \in [Threads -> Failures \cup {"ok"}]
        /\ error' \in [Threads -> Failures \cup {"nested", None}]
    BY <2>1, ThrowIsTyped DEF Slots
  <2>3. fault' \in [Threads -> Failures \cup {"ok"}]
    BY <2>1 DEF Slots, Blame
  <2>4. /\ UNCHANGED <<searcher, position, searches, output>>
        /\ bad' \in BOOLEAN
    BY <1>3 DEF Slots, AllocationFails, StreamFails, CallbackFails, shared
  <2> QED
    BY <2>2, <2>3, <2>4 DEF Slots
<1>4. CASE CallsBack(t) \/ BatchRead(t) \/ EnterCallback(t) \/ LockStream(t)
  BY <1>4 DEF Slots, CallsBack, BatchRead, EnterCallback, LockStream, Take, SetError, Go,
              Places, shared
<1>5. CASE CallbackReturns(t)
  BY <1>5 DEF Slots, CallbackReturns, Go, Places
<1>6. CASE Seek(t)
  <2>1. Head(stack[t].todo) \in 0..Count
    BY <1>6, HeadAndTail DEF Seek, Stacks, Calls, Docs, Reading, At
  <2> QED
    BY <1>6, <2>1 DEF Slots, Seek, Go, Places
<1>7. CASE ReadBytes(t)
  <2>1. position' \in 0..Count
    BY <1>7 DEF ReadBytes, Docs
  <2> QED
    BY <1>7, <2>1 DEF Slots, ReadBytes, Go, Places
<1>8. CASE Check(t)
  BY <1>8 DEF Slots, Check, Throw, SetError, Blame, Go, Failures, Places
<1>9. CASE Publish(t)
  <2>1. [ids |-> stack[t].results, texts |-> stack[t].texts]
          \in [ids : Seq(Docs), texts : Seq(Docs \X Docs)]
    BY DEF Stacks, Calls
  <2> QED
    BY <1>9, <2>1 DEF Slots, Publish, Go, Places, shared
<1> QED
  BY <1>1, <1>2, <1>3, <1>4, <1>5, <1>6, <1>7, <1>8, <1>9 DEF Step

\* A lock belongs to the thread that is inside.
LEMMA OwnersStep ==
  ASSUME Slots, Owners, NEW t \in Threads, Step(t)
  PROVE  Owners'
<1> USE CApiAssumption DEF Owners, Reading, At
<1>1. CASE Open(t) \/ Destroy(t) \/ Inspect(t) \/ DestroyResults(t)
  BY <1>1 DEF Open, Destroy, Inspect, DestroyResults, Returns
<1>2. CASE Search(t) \/ AllocationFails(t) \/ CallsBack(t) \/ BatchRead(t) \/ Publish(t)
  BY <1>2 DEF Slots, Search, AllocationFails, CallsBack, BatchRead, Publish, Throw, Go, shared
<1>3. CASE StreamFails(t) \/ CallbackFails(t)
  BY <1>3 DEF Slots, StreamFails, CallbackFails, Throw, Go, Release
<1>4. CASE EnterCallback(t) \/ LockStream(t)
  BY <1>4 DEF Slots, EnterCallback, LockStream, Take, Go
<1>5. CASE CallbackReturns(t)
  BY <1>5 DEF Slots, CallbackReturns, QueryEmbedded, BatchEmbedded, Release, Go
<1>6. CASE Seek(t) \/ ReadBytes(t)
  BY <1>6 DEF Slots, Seek, ReadBytes, Go
<1>7. CASE Check(t)
  BY <1>7 DEF Slots, Check, Release, Throw, Go
<1> QED
  BY <1>1, <1>2, <1>3, <1>4, <1>5, <1>6, <1>7 DEF Step

\* A batch is embedded, and the next one is to be read, or the texts of the best.
LEMMA NextCall ==
  ASSUME NEW call \in Calls, NEW done \in Nat, NEW todo \in Seq(Docs)
  PROVE  [call EXCEPT !.recomputed = done, !.texts = <<>>, !.todo = todo] \in Calls
<1> DEFINE Texts == Seq(Docs \X Docs)
<1>1. <<>> \in Texts
  BY EmptySeq
<1> HIDE DEF Texts
<1>2. Calls = [found : Seq(Docs), recomputed : Nat, results : Seq(Docs), todo : Seq(Docs),
               got : Docs \cup {None}, texts : Texts]
  BY DEF Calls, Texts
<1> QED
  BY <1>1, <1>2

LEMMA RankedCall ==
  ASSUME NEW call \in Calls, NEW done \in Nat, NEW ids \in Seq(Docs)
  PROVE  [call EXCEPT !.recomputed = done, !.texts = <<>>, !.results = ids, !.todo = ids]
           \in Calls
<1> DEFINE Texts == Seq(Docs \X Docs)
<1>1. <<>> \in Texts
  BY EmptySeq
<1> HIDE DEF Texts
<1>2. Calls = [found : Seq(Docs), recomputed : Nat, results : Seq(Docs), todo : Seq(Docs),
               got : Docs \cup {None}, texts : Texts]
  BY DEF Calls, Texts
<1> QED
  BY <1>1, <1>2

\* What the calls hold stays well typed.
LEMMA StacksStep ==
  ASSUME Slots, Stacks, NEW t \in Threads, Step(t),
         Reading(t) => stack[t].todo # <<>>,
         At(t, "read") => position \in Docs,
         At(t, "check") => stack[t].got \in Docs
  PROVE  Stacks'
<1> DEFINE call == stack[t]
<1>0. call \in Calls /\ call.recomputed <= Len(call.found)
  BY DEF Stacks
<1>1. CASE UNCHANGED stack
  BY <1>1 DEF Stacks
<1>2. CASE \E failure \in Failures : Throw(t, failure)
  BY <1>2, StackReplaced, UnwoundIsACall DEF Throw
<1>3. CASE QueryEmbedded(t)
  <2>1. PICK found \in Subsequences(Docs, MaxFound) :
          stack' = [stack EXCEPT ![t].found = found, ![t].todo = NextBatch(found, 0)]
    BY <1>3 DEF QueryEmbedded
  <2>2. found \in Seq(Docs) /\ NextBatch(found, 0) \in Seq(Docs)
    BY SubsequenceIsSeq, BatchIsSeq, CApiAssumption
  <2> DEFINE next == [call EXCEPT !.found = found, !.todo = NextBatch(found, 0)]
  <2>3. stack' = [stack EXCEPT ![t] = next]
    BY <2>1 DEF Stacks
  <2>4. next \in Calls
    BY <1>0, <2>2 DEF Calls
  <2>5. next.recomputed = call.recomputed /\ next.found = found
    BY <1>0 DEF Calls
  <2>6. call.recomputed \in Nat /\ call.recomputed <= 0 /\ Len(found) \in Nat
    BY <1>0, <1>3, <2>2 DEF QueryEmbedded, Calls
  <2>7. next.recomputed <= Len(next.found)
    BY <2>5, <2>6
  <2> HIDE DEF next
  <2> QED
    BY <2>3, <2>4, <2>7, StackReplaced
<1>4. CASE BatchEmbedded(t)
  <2> DEFINE found    == call.found
             done     == call.recomputed + Len(call.texts)
             embedded == [stack EXCEPT ![t].recomputed = done, ![t].texts = <<>>]
  <2>1. done \in Nat /\ found \in Seq(Docs) /\ done <= Len(found)
    <3>1. call.recomputed \in Nat /\ call.texts \in Seq(Docs \X Docs) /\ found \in Seq(Docs)
      BY <1>0 DEF Calls
    <3>2. Len(call.texts) \in Nat /\ Len(found) \in Nat
      BY <3>1
    <3>3. done < Len(found) \/ done = Len(found)
      BY <1>4 DEF BatchEmbedded
    <3> QED
      BY <3>1, <3>2, <3>3
  <2>2. CASE done < Len(found) /\ stack' = [embedded EXCEPT ![t].todo = NextBatch(found, done)]
    <3> DEFINE next == [call EXCEPT !.recomputed = done, !.texts = <<>>,
                                    !.todo = NextBatch(found, done)]
    <3>1. stack' = [stack EXCEPT ![t] = next]
      BY <2>2 DEF Stacks
    <3>2. NextBatch(found, done) \in Seq(Docs)
      BY <2>1, BatchIsSeq
    <3>3. next \in Calls
      BY <1>0, <2>1, <3>2, NextCall
    <3>4. next.recomputed = done /\ next.found = found
      BY <1>0 DEF Calls
    <3> HIDE DEF next
    <3> QED
      BY <2>1, <3>1, <3>3, <3>4, StackReplaced
  <2>3. CASE /\ done = Len(found)
             /\ \E ids \in Subsequences({found[i] : i \in 1..done}, done) :
                  stack' = [embedded EXCEPT ![t].results = ids, ![t].todo = ids]
    <3>1. PICK ids \in Subsequences({found[i] : i \in 1..done}, done) :
            stack' = [embedded EXCEPT ![t].results = ids, ![t].todo = ids]
      BY <2>3
    <3> DEFINE next == [call EXCEPT !.recomputed = done, !.texts = <<>>,
                                    !.results = ids, !.todo = ids]
    <3>2. stack' = [stack EXCEPT ![t] = next]
      BY <3>1 DEF Stacks
    <3>3. {found[i] : i \in 1..done} \subseteq Docs
      BY <2>1, <2>3
    <3>4. ids \in Seq(Docs)
      BY <2>1, <3>3, SubsequenceIsSeq
    <3>5. next \in Calls
      BY <1>0, <2>1, <3>4, RankedCall
    <3>6. next.recomputed = done /\ next.found = found
      BY <1>0 DEF Calls
    <3> HIDE DEF next
    <3> QED
      BY <2>1, <3>2, <3>5, <3>6, StackReplaced
  <2> QED
    BY <1>4, <2>2, <2>3 DEF BatchEmbedded
<1>5. CASE ReadBytes(t)
  <2> DEFINE next == [call EXCEPT !.got = position]
  <2>1. stack' = [stack EXCEPT ![t] = next]
    BY <1>5 DEF ReadBytes, Stacks
  <2>2. next \in Calls /\ next.recomputed <= Len(next.found)
    BY <1>0, <1>5 DEF Calls, ReadBytes
  <2> QED
    BY <2>1, <2>2, StackReplaced
<1>6. CASE /\ At(t, "check")
           /\ stack' = [stack EXCEPT
                ![t].texts = Append(@, <<Head(call.todo), call.got>>),
                ![t].todo = Tail(@), ![t].got = None]
  <2> DEFINE next == [call EXCEPT !.texts = Append(@, <<Head(call.todo), call.got>>),
                                  !.todo = Tail(@), !.got = None]
  <2>1. stack' = [stack EXCEPT ![t] = next]
    BY <1>6 DEF Stacks
  <2>2. Head(call.todo) \in Docs /\ Tail(call.todo) \in Seq(Docs)
    BY <1>0, <1>6, HeadAndTail DEF Calls, Reading, At
  <2>3. Append(call.texts, <<Head(call.todo), call.got>>) \in Seq(Docs \X Docs)
    BY <1>0, <1>6, <2>2 DEF Calls
  <2>4. next \in Calls /\ next.recomputed <= Len(next.found)
    BY <1>0, <2>2, <2>3 DEF Calls
  <2> QED
    BY <2>1, <2>4, StackReplaced
<1>7. CASE Publish(t)
  BY <1>7, StackReplaced, UnwoundIsACall DEF Publish
<1> QED
  <2>1. CASE Open(t) \/ Destroy(t) \/ Inspect(t) \/ DestroyResults(t)
    BY <1>1, <2>1 DEF Open, Destroy, Inspect, DestroyResults, Returns
  <2>2. CASE Search(t)
    BY <1>1, <1>2, <2>2 DEF Search, Failures
  <2>3. CASE AllocationFails(t) \/ StreamFails(t) \/ CallbackFails(t)
    BY <1>2, <2>3 DEF AllocationFails, StreamFails, CallbackFails, Failures
  <2>4. CASE CallsBack(t) \/ BatchRead(t) \/ EnterCallback(t) \/ LockStream(t) \/ Seek(t)
    BY <1>1, <2>4 DEF CallsBack, BatchRead, EnterCallback, LockStream, Seek
  <2>5. CASE CallbackReturns(t)
    BY <1>3, <1>4, <2>5 DEF CallbackReturns
  <2>6. CASE Check(t)
    BY <1>2, <1>6, <2>6 DEF Check, Failures
  <2> QED
    BY <1>5, <1>7, <2>1, <2>2, <2>3, <2>4, <2>5, <2>6 DEF Step

-----------------------------------------------------------------------------
\* What a step of one thread may do to another: nothing to its variables.
LEMMA OthersUntouched ==
  ASSUME Slots, Stacks, NEW t \in Threads, Step(t), NEW u \in Threads, u # t
  PROVE  /\ pc'[u] = pc[u] /\ stack'[u] = stack[u] /\ output'[u] = output[u]
         /\ status'[u] = status[u] /\ error'[u] = error[u] /\ fault'[u] = fault[u]
<1> USE DEF Slots, Stacks
<1>1. CASE Open(t) \/ Destroy(t) \/ Inspect(t) \/ DestroyResults(t)
  BY <1>1 DEF Open, Destroy, Inspect, DestroyResults, Returns, SetError, Blame
<1>2. CASE Search(t)
  BY <1>2 DEF Search, Throw, Go, SetError, Blame
<1>3. CASE AllocationFails(t) \/ StreamFails(t) \/ CallbackFails(t)
  BY <1>3 DEF AllocationFails, StreamFails, CallbackFails, Throw, Go, SetError, Blame
<1>4. CASE CallsBack(t) \/ BatchRead(t) \/ EnterCallback(t) \/ LockStream(t) \/ Seek(t)
  BY <1>4 DEF CallsBack, BatchRead, EnterCallback, LockStream, Seek, Take, Go, SetError
<1>5. CASE CallbackReturns(t)
  BY <1>5 DEF CallbackReturns, QueryEmbedded, BatchEmbedded, Go
<1>6. CASE ReadBytes(t) \/ Publish(t)
  BY <1>6 DEF ReadBytes, Publish, Go
<1>7. CASE Check(t)
  BY <1>7 DEF Check, Throw, Go, SetError, Blame
<1> QED
  BY <1>1, <1>2, <1>3, <1>4, <1>5, <1>6, <1>7 DEF Step

\* Nor does it take a lock from another, move the stream under it, or take its
\* searcher away.
LEMMA OthersUndisturbed ==
  ASSUME Slots, Owners, NEW t \in Threads, Step(t), Fine(t),
         NEW u \in Threads, u # t, Fine(u)
  PROVE  /\ At(u, "callback") => mutex'.callback = u
         /\ Reading(u) => mutex'.stream = u
         /\ At(u, "read") => position' = position
         /\ ~At(u, "idle") => searcher'
<1> USE CApiAssumption DEF Fine, Owners, Reading, At
<1>1. CASE Open(t)
  BY <1>1 DEF Open, Returns
<1>2. CASE Destroy(t)
  BY <1>2 DEF Destroy, Returns
<1>3. CASE Inspect(t) \/ DestroyResults(t)
  BY <1>3 DEF Inspect, DestroyResults, Returns
<1>4. CASE Search(t) \/ AllocationFails(t) \/ CallsBack(t) \/ BatchRead(t) \/ Publish(t)
  BY <1>4 DEF Search, AllocationFails, CallsBack, BatchRead, Publish, shared
<1>5. CASE StreamFails(t)
  BY <1>5 DEF StreamFails, Release
<1>6. CASE CallbackFails(t)
  BY <1>6 DEF CallbackFails, Release
<1>7. CASE EnterCallback(t)
  BY <1>7 DEF EnterCallback, Take
<1>8. CASE LockStream(t)
  BY <1>8 DEF LockStream, Take
<1>9. CASE CallbackReturns(t)
  BY <1>9 DEF CallbackReturns, QueryEmbedded, BatchEmbedded, Release
<1>10. CASE Seek(t) \/ ReadBytes(t)
  BY <1>10 DEF Seek, ReadBytes
<1>11. CASE Check(t)
  BY <1>11 DEF Check, Release
<1> QED
  BY <1>1, <1>2, <1>3, <1>4, <1>5, <1>6, <1>7, <1>8, <1>9, <1>10, <1>11 DEF Step

\* So what holds of the other threads goes on to hold.
LEMMA OthersStayFine ==
  ASSUME Slots, Owners, Stacks, NEW t \in Threads, Step(t), Fine(t),
         NEW u \in Threads, u # t, Fine(u)
  PROVE  Fine(u)'
<1>1. /\ pc'[u] = pc[u] /\ stack'[u] = stack[u] /\ output'[u] = output[u]
      /\ status'[u] = status[u] /\ error'[u] = error[u] /\ fault'[u] = fault[u]
  BY OthersUntouched
<1>2. /\ At(u, "callback") => mutex'.callback = u
      /\ Reading(u) => mutex'.stream = u
      /\ At(u, "read") => position' = position
      /\ ~At(u, "idle") => searcher'
  BY OthersUndisturbed
<1>3. WholeHandle(u)'
  BY <1>1 DEF Fine, WholeHandle
<1>4. Copied(stack[u])' <=> Copied(stack[u])
  BY <1>1 DEF Copied
<1> QED
  BY <1>1, <1>2, <1>3, <1>4 DEF Fine, Reading, At

-----------------------------------------------------------------------------
\* What holds of a thread between its calls.
LEMMA IdleIsFine ==
  ASSUME NEW t \in Threads, Fine(t), pc'[t] = "idle", stack'[t] = Unwound,
         status'[t] = fault'[t], status'[t] # "ok" => error'[t] = status'[t],
         output'[t] \in {output[t], None}
  PROVE  Fine(t)'
<1>1. WholeHandle(t)'
  BY DEF Fine, WholeHandle
<1>2. stack'[t].results = <<>>
  BY DEF Unwound
<1> QED
  BY <1>1, <1>2 DEF Fine, Reading, At

\* A call that throws leaves its thread between calls, with its own failure.
LEMMA ThrowIsFine ==
  ASSUME Slots, Stacks, NEW t \in Threads, Fine(t), NEW failure \in Failures,
         Throw(t, failure), Blame(t, failure), UNCHANGED output
  PROVE  Fine(t)'
<1>1. pc'[t] = "idle" /\ stack'[t] = Unwound /\ status'[t] = failure
      /\ fault'[t] = failure /\ error'[t] = failure
  BY DEF Throw, Blame, Go, SetError, Slots, Stacks
<1> QED
  BY <1>1, IdleIsFine

\* An entry point that does not search leaves its thread between calls.
LEMMA ReturnIsFine ==
  ASSUME Slots, Stacks, NEW t \in Threads, Fine(t), At(t, "idle"),
         NEW result, Returns(t, result), output'[t] \in {output[t], None}
  PROVE  Fine(t)'
<1>1. status'[t] = result /\ fault'[t] = result /\ (result # "ok" => error'[t] = result)
  BY DEF Returns, SetError, Blame, Slots
<1>2. pc'[t] = "idle" /\ stack'[t] = Unwound
  BY DEF Returns, At, Fine
<1> QED
  BY <1>1, <1>2, IdleIsFine

\* What a thread needs while it is in a call.
LEMMA CallIsFine ==
  ASSUME NEW t \in Threads, Fine(t), pc'[t] \in Places \ {"idle"},
         searcher', fault'[t] = "ok", output'[t] = output[t],
         pc'[t] = "callback" => mutex'.callback = t,
         pc'[t] \in {"seek", "read", "check"} => mutex'.stream = t /\ stack'[t].todo # <<>>,
         pc'[t] \in {"embed", "callback"} => stack'[t].results = <<>>,
         pc'[t] = "read" => position' = Head(stack'[t].todo),
         pc'[t] = "check" => stack'[t].got = Head(stack'[t].todo),
         stack'[t].results # <<>> => Copied(stack'[t])
  PROVE  Fine(t)'
<1>1. WholeHandle(t)'
  BY DEF Fine, WholeHandle
<1>2. Copied(stack[t])' <=> Copied(stack'[t])
  BY DEF Copied
<1> QED
  BY <1>1, <1>2 DEF Fine, Reading, At

\* The callback and the locks.
LEMMA CallbackStaysFine ==
  ASSUME Slots, Owners, Stacks, NEW t \in Threads, Fine(t),
         \/ CallsBack(t) \/ EnterCallback(t) \/ LockStream(t) \/ BatchRead(t)
  PROVE  Fine(t)'
<1>1. CASE CallsBack(t)
  <2>1. /\ pc' = pc /\ stack' = stack /\ searcher' = searcher /\ mutex' = mutex
        /\ fault' = fault /\ output' = output /\ position' = position
    BY <1>1 DEF CallsBack, shared
  <2>2. pc[t] = "callback"
    BY <1>1 DEF CallsBack, At
  <2> QED
    BY <2>1, <2>2, CallIsFine DEF Fine, At, Places
<1>2. CASE EnterCallback(t)
  <2>1. /\ stack' = stack /\ searcher' = searcher /\ fault' = fault /\ output' = output
        /\ pc[t] = "embed" /\ pc'[t] = "callback" /\ mutex'.callback = t
    BY <1>2 DEF EnterCallback, Take, Go, At, Slots, Owners
  <2> QED
    BY <2>1, CallIsFine DEF Fine, At, Places
<1>3. CASE LockStream(t)
  <2>1. /\ stack' = stack /\ searcher' = searcher /\ fault' = fault /\ output' = output
        /\ pc[t] = "fetch" /\ pc'[t] = "seek" /\ mutex'.stream = t /\ stack[t].todo # <<>>
    BY <1>3 DEF LockStream, Take, Go, At, Slots, Owners
  <2> QED
    BY <2>1, CallIsFine DEF Fine, At, Places
<1>4. CASE BatchRead(t)
  <2>1. /\ stack' = stack /\ searcher' = searcher /\ fault' = fault /\ output' = output
        /\ pc[t] = "fetch" /\ pc'[t] = "embed" /\ stack[t].results = <<>>
    BY <1>4 DEF BatchRead, Go, At, Slots, shared
  <2> QED
    BY <2>1, CallIsFine DEF Fine, At, Places
<1> QED
  BY <1>1, <1>2, <1>3, <1>4

\* With the vectors there, the next chunks to read are set out, and with the last
\* batch the results with no text yet.
LEMMA CallbackReturnsFine ==
  ASSUME Slots, Owners, Stacks, NEW t \in Threads, Fine(t), CallbackReturns(t)
  PROVE  Fine(t)'
<1>1. /\ searcher' = searcher /\ fault' = fault /\ output' = output
      /\ pc[t] = "callback" /\ pc'[t] = "fetch"
  BY DEF CallbackReturns, QueryEmbedded, BatchEmbedded, Go, At, Slots
<1>2. stack[t].results = <<>>
  BY <1>1 DEF Fine
<1>3. stack'[t].results # <<>> => Copied(stack'[t])
  <2>1. CASE QueryEmbedded(t)
    BY <1>2, <2>1 DEF QueryEmbedded, Stacks, Calls
  <2>2. CASE BatchEmbedded(t)
    <3> DEFINE found    == stack[t].found
               done     == stack[t].recomputed + Len(stack[t].texts)
               embedded == [stack EXCEPT ![t].recomputed = done, ![t].texts = <<>>]
    <3>1. CASE stack' = [embedded EXCEPT ![t].todo = NextBatch(found, done)]
      BY <1>2, <3>1 DEF Stacks, Calls
    <3>2. CASE \E ids \in Subsequences({found[i] : i \in 1..done}, done) :
                 stack' = [embedded EXCEPT ![t].results = ids, ![t].todo = ids]
      <4>1. PICK ids : stack' = [embedded EXCEPT ![t].results = ids, ![t].todo = ids]
        BY <3>2
      <4>2. stack'[t].results = ids /\ stack'[t].todo = ids /\ stack'[t].texts = <<>>
        BY <4>1 DEF Stacks, Calls
      <4>3. stack' \in [Threads -> Calls]
        BY StacksStep, <1>1 DEF Step, Stacks, Reading, At
      <4>4. ids \in Seq(Docs)
        BY <4>2, <4>3 DEF Calls
      <4> QED
        BY <4>2, <4>4 DEF Copied
    <3> QED
      BY <2>2, <3>1, <3>2 DEF BatchEmbedded
  <2> QED
    BY <2>1, <2>2 DEF CallbackReturns
<1> QED
  BY <1>1, <1>3, CallIsFine DEF Fine, At, Places

\* The stream is moved to the chunk that is next, and read from there.
LEMMA ReaderStaysFine ==
  ASSUME Slots, Owners, Stacks, NEW t \in Threads, Fine(t), Seek(t) \/ ReadBytes(t)
  PROVE  Fine(t)'
<1>1. CASE Seek(t)
  <2>1. /\ stack' = stack /\ searcher' = searcher /\ fault' = fault /\ output' = output
        /\ mutex' = mutex /\ pc[t] = "seek" /\ pc'[t] = "read"
        /\ position' = Head(stack[t].todo)
    BY <1>1 DEF Seek, Go, At, Slots
  <2> QED
    BY <2>1, CallIsFine DEF Fine, Reading, At, Places
<1>2. CASE ReadBytes(t)
  <2>1. /\ searcher' = searcher /\ fault' = fault /\ output' = output
        /\ mutex' = mutex /\ pc[t] = "read" /\ pc'[t] = "check"
    BY <1>2 DEF ReadBytes, Go, At, Slots
  <2>2. /\ stack'[t].got = position /\ stack'[t].todo = stack[t].todo
        /\ stack'[t].results = stack[t].results /\ stack'[t].texts = stack[t].texts
    BY <1>2 DEF ReadBytes, Stacks, Calls
  <2>3. Copied(stack[t]) => Copied(stack'[t])
    BY <2>2 DEF Copied
  <2> QED
    BY <2>1, <2>2, <2>3, CallIsFine DEF Fine, Reading, At, Places
<1> QED
  BY <1>1, <1>2

\* One more text of an undamaged chunk is read.
LEMMA OneMoreCopied ==
  ASSUME NEW call \in Calls, Copied(call), call.todo # <<>>,
         Head(call.todo) \notin Damaged,
         NEW next, next.results = call.results, next.todo = Tail(call.todo),
         next.texts = Append(call.texts, <<Head(call.todo), Head(call.todo)>>)
  PROVE  Copied(next)
<1> DEFINE n == Len(call.texts)
           id == Head(call.todo)
<1>1. /\ call.todo \in Seq(Docs) /\ call.texts \in Seq(Docs \X Docs)
      /\ call.results \in Seq(Docs)
  BY DEF Calls
<1>2. /\ id \in Docs /\ Tail(call.todo) \in Seq(Docs)
      /\ Len(Tail(call.todo)) = Len(call.todo) - 1 /\ id = call.todo[1]
      /\ \A i \in 1..Len(Tail(call.todo)) : Tail(call.todo)[i] = call.todo[i + 1]
  BY <1>1, HeadTailProperties
<1>3. <<id, id>> \in Docs \X Docs
  BY <1>2
<1>4. /\ Len(next.texts) = n + 1 /\ next.texts[n + 1] = <<id, id>>
      /\ \A i \in 1..n : next.texts[i] = call.texts[i]
  <2> HIDE DEF id
  <2> QED
    BY <1>1, <1>3, AppendProperties DEF id
<1>5. Len(call.results) = n + Len(call.todo) /\ n \in Nat /\ Len(call.todo) \in Nat \ {0}
  BY <1>1 DEF Copied
<1>6. call.results[n + 1] = id
  <2>1. call.todo[1] = call.results[n + 1]
    BY <1>5 DEF Copied
  <2> QED
    BY <1>2, <2>1
<1>7. Len(next.results) = Len(next.texts) + Len(next.todo)
  <2>1. Len(next.results) = n + Len(call.todo) /\ n \in Nat /\ Len(call.todo) \in Nat
    BY <1>5
  <2>2. Len(next.texts) = n + 1 /\ Len(next.todo) = Len(call.todo) - 1
    BY <1>2, <1>4
  <2> DEFINE left == Len(call.todo)
             all  == Len(next.results)
             now  == Len(next.texts)
             rest == Len(next.todo)
  <2>3. all = n + left /\ n \in Nat /\ left \in Nat /\ now = n + 1 /\ rest = left - 1
    BY <2>1, <2>2
  <2> HIDE DEF n, id, left, all, now, rest
  <2>4. all = now + rest
    BY <2>3
  <2> QED
    BY <2>4 DEF all, now, rest
<1>8. \A i \in 1..Len(next.texts) :
        /\ next.texts[i] = <<next.results[i], next.results[i]>>
        /\ next.results[i] \notin Damaged
  <2> SUFFICES ASSUME NEW i \in 1..n + 1
               PROVE  /\ next.texts[i] = <<call.results[i], call.results[i]>>
                      /\ call.results[i] \notin Damaged
    BY <1>4
  <2>1. CASE i = n + 1
    <3>1. next.texts[n + 1] = <<id, id>> /\ call.results[n + 1] = id /\ id \notin Damaged
      BY <1>4, <1>6
    <3> QED
      BY <2>1, <3>1
  <2>2. CASE i \in 1..n
    BY <1>4, <2>2 DEF Copied
  <2> QED
    BY <1>5, <2>1, <2>2
<1>9. \A i \in 1..Len(next.todo) : next.todo[i] = next.results[Len(next.texts) + i]
  <2> SUFFICES ASSUME NEW i \in 1..Len(call.todo) - 1
               PROVE  Tail(call.todo)[i] = call.results[n + 1 + i]
    BY <1>2, <1>4
  <2>1. Tail(call.todo)[i] = call.todo[i + 1] /\ i + 1 \in 1..Len(call.todo)
    BY <1>2, <1>5
  <2>2. call.todo[i + 1] = call.results[n + (i + 1)]
    BY <2>1 DEF Copied
  <2>3. n + (i + 1) = n + 1 + i
    <3>1. \A a, b \in Int : a + (b + 1) = a + 1 + b
      OBVIOUS
    <3>2. n \in Int /\ i \in Int
      BY <1>5
    <3> HIDE DEF n
    <3> QED
      BY <3>1, <3>2, Zenon
  <2>4. call.results[n + (i + 1)] = call.results[n + 1 + i]
    BY <2>3
  <2> HIDE DEF n, id
  <2> QED
    BY <2>1, <2>2, <2>4, Zenon
<1> QED
  BY <1>7, <1>8, <1>9 DEF Copied

\* The bytes are compared, and the call goes on or throws.
LEMMA CheckIsFine ==
  ASSUME Slots, Owners, Stacks, NEW t \in Threads, Fine(t), Check(t)
  PROVE  Fine(t)'
<1> DEFINE id == Head(stack[t].todo)
<1>1. /\ pc[t] = "check" /\ stack[t].got = id /\ stack[t].todo # <<>>
      /\ searcher' = searcher /\ output' = output /\ fault[t] = "ok" /\ searcher
  BY DEF Check, Fine, At, Reading
<1>2. CASE Intact(t)
  <2>1. /\ pc'[t] = "fetch" /\ fault' = fault
        /\ stack' = [stack EXCEPT ![t].texts = Append(@, <<id, stack[t].got>>),
                                  ![t].todo = Tail(@), ![t].got = None]
    BY <1>2 DEF Check, Go, Slots
  <2>2. /\ stack'[t].results = stack[t].results /\ stack'[t].todo = Tail(stack[t].todo)
        /\ stack'[t].texts = Append(stack[t].texts, <<id, id>>)
    BY <1>1, <2>1 DEF Stacks, Calls
  <2>3. stack[t].results # <<>> => Copied(stack'[t])
    BY <1>1, <1>2, <2>2, OneMoreCopied DEF Fine, Intact, Stacks
  <2> QED
    BY <1>1, <2>1, <2>2, <2>3, CallIsFine DEF Places
<1>3. CASE ~Intact(t)
  <2>1. id \in Damaged
    BY <1>1, <1>3 DEF Intact
  <2>2. Throw(t, "artifact") /\ Blame(t, "artifact")
    BY <1>3, <2>1 DEF Check
  <2> QED
    BY <1>1, <2>2, ThrowIsFine DEF Failures
<1> QED
  BY <1>2, <1>3

\* When nothing is left to read the handle has every text.
LEMMA PublishIsFine ==
  ASSUME Slots, Stacks, NEW t \in Threads, Fine(t), Publish(t)
  PROVE  Fine(t)'
<1> DEFINE ids   == stack[t].results
           texts == stack[t].texts
<1>1. /\ pc[t] = "fetch" /\ pc'[t] = "idle" /\ stack'[t] = Unwound
      /\ status'[t] = "ok" /\ fault' = fault /\ fault[t] = "ok"
  BY DEF Publish, Go, At, Slots, Stacks, Fine
<1>2. output'[t] = [ids |-> ids, texts |-> texts]
  BY DEF Publish, Slots
<1>3. ids \in Seq(Docs) /\ texts \in Seq(Docs \X Docs) /\ Len(stack[t].todo) = 0
  BY DEF Stacks, Calls, Publish
<1>4. /\ Len(ids) = Len(texts)
      /\ \A i \in 1..Len(texts) : texts[i] = <<ids[i], ids[i]>> /\ ids[i] \notin Damaged
  <2>1. Copied(stack[t])
    BY DEF Publish, Fine
  <2>2. Len(texts) \in Nat
    BY <1>3
  <2> QED
    BY <1>3, <2>1, <2>2 DEF Copied
<1>5. DOMAIN ids = 1..Len(texts) /\ DOMAIN texts = 1..Len(texts)
  BY <1>3, <1>4
<1>6. texts = [i \in DOMAIN ids |-> <<ids[i], ids[i]>>]
  <2>1. texts = [i \in 1..Len(texts) |-> texts[i]]
    BY <1>3, LenProperties
  <2> QED
    BY <1>4, <1>5, <2>1
<1>7. WholeHandle(t)'
  <2>1. output'[t].ids = ids /\ output'[t].texts = texts
    BY <1>2
  <2>2. \A i \in DOMAIN ids : ids[i] \notin Damaged
    BY <1>4, <1>5
  <2> HIDE DEF ids, texts
  <2> QED
    BY <1>6, <2>1, <2>2 DEF WholeHandle
<1>8. Unwound.results = <<>>
  BY DEF Unwound
<1> QED
  BY <1>1, <1>7, <1>8 DEF Fine, Reading, At

\* The thread that makes a step is fine after it.
LEMMA OwnStaysFine ==
  ASSUME Slots, Owners, Stacks, NEW t \in Threads, Fine(t), Step(t)
  PROVE  Fine(t)'
<1>1. CASE Open(t) \/ Inspect(t) \/ DestroyResults(t) \/ Destroy(t)
  <2>1. At(t, "idle") /\ \E result : Returns(t, result)
    BY <1>1 DEF Open, Inspect, DestroyResults, Destroy
  <2>2. output'[t] \in {output[t], None}
    BY <1>1 DEF Open, Inspect, DestroyResults, Destroy, Slots
  <2> QED
    BY <2>1, <2>2, ReturnIsFine
<1>2. CASE Search(t)
  <2>1. CASE Throw(t, "invalid") /\ Blame(t, "invalid")
    BY <1>2, <2>1, ThrowIsFine DEF Search, Failures
  <2>2. CASE Go(t, "embed") /\ Blame(t, "ok") /\ UNCHANGED stack
    <3>1. /\ pc'[t] = "embed" /\ fault'[t] = "ok" /\ stack'[t] = Unwound
          /\ searcher' /\ output' = output
      BY <1>2, <2>2 DEF Search, Go, Blame, Slots, shared, Fine
    <3>2. Unwound.results = <<>>
      BY DEF Unwound
    <3> QED
      BY <3>1, <3>2, CallIsFine DEF Places
  <2> QED
    BY <1>2, <2>1, <2>2 DEF Search
<1>3. CASE AllocationFails(t) \/ StreamFails(t) \/ CallbackFails(t)
  <2>1. PICK failure \in Failures : Throw(t, failure) /\ Blame(t, failure)
    BY <1>3 DEF AllocationFails, StreamFails, CallbackFails, Failures
  <2>2. UNCHANGED output
    BY <1>3 DEF AllocationFails, StreamFails, CallbackFails
  <2> QED
    BY <2>1, <2>2, ThrowIsFine
<1> QED
  BY <1>1, <1>2, <1>3, CallbackStaysFine, CallbackReturnsFine, ReaderStaysFine,
     CheckIsFine, PublishIsFine DEF Step

-----------------------------------------------------------------------------
LEMMA InvariantStarts == Init => CApiInv
<1> SUFFICES ASSUME Init, NEW t \in Threads PROVE Fine(t)
  BY TypesInit, ThreadByThread
<1>1. /\ pc[t] = "idle" /\ stack[t] = Unwound /\ output[t] = None
      /\ status[t] = "ok" /\ fault[t] = "ok"
  BY DEF Init
<1>2. Unwound.results = <<>>
  BY DEF Unwound
<1> QED
  BY <1>1, <1>2 DEF Fine, WholeHandle, Reading, At

\* Every step of any thread keeps the inductive invariant.
LEMMA InvariantStays == CApiInv /\ [Next]_vars => CApiInv'
<1> SUFFICES ASSUME CApiInv, [Next]_vars PROVE CApiInv'
  OBVIOUS
<1>1. Slots /\ Owners /\ Stacks /\ \A t \in Threads : Fine(t)
  BY ThreadByThread, TypesInParts
<1>2. ASSUME NEW t \in Threads, Step(t)
      PROVE  CApiInv'
  <2>1. /\ Reading(t) => stack[t].todo # <<>>
        /\ stack[t].todo \in Seq(Docs)
    BY <1>1 DEF Fine, Stacks, Calls
  <2>2. /\ At(t, "read") => position \in Docs
        /\ At(t, "check") => stack[t].got \in Docs
    BY <1>1, <2>1, HeadAndTail DEF Fine, Reading, At
  <2>3. Slots' /\ Owners' /\ Stacks'
    BY <1>1, <1>2, <2>1, <2>2, SlotsStep, OwnersStep, StacksStep
  <2>4. \A u \in Threads : Fine(u)'
    BY <1>1, <1>2, OwnStaysFine, OthersStayFine
  <2>5. CApiTypeOK'
    BY <2>3, TypesInPartsNext
  <2> QED
    BY <2>4, <2>5, ThreadByThreadNext
<1>3. CASE UNCHANGED vars
  <2>0. /\ UNCHANGED <<searcher, mutex, position, bad>>
        /\ UNCHANGED <<searches, pc, error, status, output, stack, fault>>
    BY <1>3 DEF vars, shared
  <2>1. Slots' /\ Owners' /\ Stacks'
    <3>1. Slots'
      BY <1>1, <2>0 DEF Slots
    <3>2. Owners'
      BY <1>1, <2>0 DEF Owners, Reading, At
    <3>3. Stacks'
      BY <1>1, <2>0 DEF Stacks
    <3> QED
      BY <3>1, <3>2, <3>3
  <2>2. ASSUME NEW t \in Threads PROVE Fine(t)'
    <3>1. Fine(t)
      BY <1>1
    <3> QED
      BY <2>0, <3>1 DEF Fine, WholeHandle, Copied, Reading, At
  <2>3. CApiTypeOK'
    BY <2>1, TypesInPartsNext
  <2> QED
    BY <2>2, <2>3, ThreadByThreadNext
<1> QED
  BY <1>2, <1>3, StepOfOne

\* For any number of threads, whatever their calls end with, no two are in the
\* callback and no two between a seek and the end of its read (c_api.cpp,
\* EmbeddingCallback and DocumentStore::read).
THEOREM ExclusiveHolds == Spec => []Exclusive
<1>1. CApiInv => Exclusive
  <2> SUFFICES ASSUME CApiInv, NEW t \in Threads, NEW u \in Threads, t # u
               PROVE  /\ ~(At(t, "callback") /\ At(u, "callback"))
                      /\ ~(Reading(t) /\ Reading(u))
    BY DEF CApiInv, Exclusive, Reading
  <2> QED
    BY DEF CApiInv, LocksHeld
<1> QED
  BY <1>1, InvariantStarts, InvariantStays, PTL DEF Spec

\* For any number of threads, a call fails only for what happened to itself, and
\* the message of its thread is then its own (translate_exception, and
\* stream_.clear() in DocumentStore::read).
THEOREM FailureIsItsOwnHolds == Spec => []FailureIsItsOwn
<1>1. CApiInv => FailureIsItsOwn
  BY DEF CApiInv
<1> QED
  BY <1>1, InvariantStarts, InvariantStays, PTL DEF Spec

\* For any number of threads, chunks and damaged ones, a handle has the text of
\* every result, whole, undamaged and of that chunk (leann_searcher_search).
THEOREM WholeOrNothingHolds == Spec => []WholeOrNothing
<1>1. CApiInv => WholeOrNothing
  BY DEF CApiInv
<1> QED
  BY <1>1, InvariantStarts, InvariantStays, PTL DEF Spec
===============================================================================
