--------------------------------- MODULE CApi ---------------------------------
(***************************************************************************)
(* Threads of one application that share a searcher through the C API      *)
(* (c_api.cpp) and with it one embedding callback and one document stream  *)
(* (DocumentStore::read).  A search is followed from call to call: the     *)
(* callback for the query, the chunks of each batch and the callback for   *)
(* them, and the texts of the results.  What Index::search computes in     *)
(* between is the subject of Search.                                       *)
(*                                                                         *)
(* The application keeps to the header: it destroys a searcher when no     *)
(* search is in flight, destroys a result handle before it reuses its      *)
(* variable, and does not search from inside the callback.                 *)
(***************************************************************************)
EXTENDS Integers, Sequences, SequencesExt

CONSTANTS Threads,
          Count,        \* number of chunks
          Damaged,      \* chunks whose bytes on disk do not have their CRC32C
          MaxFound,     \* bound: candidates of one search
          Batch,        \* recompute_batch_size
          MaxSearches,  \* bound: searches of all threads together
          None

Docs == 0..Count - 1

ASSUME CApiAssumption ==
  /\ Count \in Nat /\ Damaged \subseteq Docs /\ None \notin Docs \cup Threads
  /\ Batch \in Nat \ {0} /\ MaxFound \in Nat \ {0} /\ MaxSearches \in Nat

VARIABLES
  searcher,   \* whether there is a leann_searcher
  mutex,      \* "callback" (callback_mutex_) and "stream" (stream_mutex_) -> who has it
  position,   \* where the document stream stands
  bad,        \* its failbit
  searches,   \* searches begun
  pc,
  error,      \* thread -> its last_error_buffer
  status,     \* thread -> what its latest call returned
  output,     \* thread -> the result handle it holds
  stack,      \* thread -> the variables of its search
  fault       \* history: thread -> what went wrong in its latest call

shared == <<searcher, mutex, position, bad>>
vars   == <<shared, searches, pc, error, status, output, stack, fault>>

Failures == {"invalid", "embedder", "memory", "io", "artifact"}

\* found       candidates, nearest first
\* recomputed  how many of them are embedded again
\* results     the ids of the response
\* todo        chunks to be read before the next call of the callback
\* got         the bytes that were read last
\* texts       what is read for the batch or the handle, ids and bytes
Unwound == [found |-> <<>>, recomputed |-> 0, results |-> <<>>, todo |-> <<>>,
            got |-> None, texts |-> <<>>]

Init ==
  /\ searcher = FALSE
  /\ mutex = [callback |-> None, stream |-> None]
  /\ position = 0 /\ bad = FALSE
  /\ searches = 0
  /\ pc = [t \in Threads |-> "idle"]
  /\ error = [t \in Threads |-> None] /\ status = [t \in Threads |-> "ok"]
  /\ output = [t \in Threads |-> None]
  /\ stack = [t \in Threads |-> Unwound]
  /\ fault = [t \in Threads |-> "ok"]

-----------------------------------------------------------------------------
At(t, place) == pc[t] = place
Go(t, place) == pc' = [pc EXCEPT ![t] = place]

\* set_error, and clear_error with None.
SetError(t, message) == error' = [error EXCEPT ![t] = message]

\* translate_exception: what was thrown becomes the status and the message.
Throw(t, failure) ==
  /\ Go(t, "idle")
  /\ SetError(t, failure)
  /\ status' = [status EXCEPT ![t] = failure]
  /\ stack' = [stack EXCEPT ![t] = Unwound]

\* What really happened to the call.
Blame(t, failure) == fault' = [fault EXCEPT ![t] = failure]

\* Other entry points: they clear the message, and fail on what the caller
\* passed, or for `open' on what is on disk.  Those that return nothing count
\* as "ok".
Returns(t, result) ==
  /\ SetError(t, IF result = "ok" THEN None ELSE result)
  /\ status' = [status EXCEPT ![t] = result]
  /\ Blame(t, result)
  /\ UNCHANGED <<mutex, searches, pc, stack>>

Open(t) ==
  /\ At(t, "idle") /\ ~searcher
  /\ \E result \in {"ok", "invalid", "memory", "io", "artifact"} :
       /\ Returns(t, result)
       /\ searcher' = (result = "ok")
  /\ position' = 0 /\ bad' = FALSE
  /\ UNCHANGED output

Destroy(t) ==
  /\ searcher /\ \A u \in Threads : At(u, "idle")
  /\ searcher' = FALSE
  /\ Returns(t, "ok")
  /\ UNCHANGED <<position, bad, output>>

\* leann_results_count, _get and _metrics.
Inspect(t) ==
  /\ At(t, "idle") /\ output[t] # None
  /\ \E result \in {"ok", "invalid"} : Returns(t, result)
  /\ UNCHANGED <<searcher, position, bad, output>>

DestroyResults(t) ==
  /\ At(t, "idle") /\ output[t] # None
  /\ output' = [output EXCEPT ![t] = None]
  /\ Returns(t, "ok")
  /\ UNCHANGED <<searcher, position, bad>>

-----------------------------------------------------------------------------
\* leann_searcher_search with arguments that pass or do not.
Search(t) ==
  /\ At(t, "idle") /\ searcher /\ output[t] = None /\ searches < MaxSearches
  /\ searches' = searches + 1
  /\ \/ /\ Go(t, "embed") /\ SetError(t, None) /\ Blame(t, "ok")
        /\ UNCHANGED <<status, stack>>
     \/ Throw(t, "invalid") /\ Blame(t, "invalid")
  /\ UNCHANGED <<shared, output>>

\* An allocation fails before a lock is taken.
AllocationFails(t) ==
  /\ pc[t] \in {"embed", "fetch"}
  /\ Throw(t, "memory") /\ Blame(t, "memory")
  /\ UNCHANGED <<shared, searches, output>>

\* Mutant of Take: a lock that is held is taken.
TakeAnyway(t, m, from, to) ==
  /\ At(t, from)
  /\ mutex' = [mutex EXCEPT ![m] = t]
  /\ Go(t, to)

\* std::lock_guard; its destructor is Release, on return and on a throw.
Take(t, m, from, to) ==
  /\ At(t, from) /\ mutex[m] = None
  /\ mutex' = [mutex EXCEPT ![m] = t]
  /\ Go(t, to)

Release(m) == mutex' = [mutex EXCEPT ![m] = None]

EnterCallback(t) ==
  /\ Take(t, "callback", "embed", "callback")
  /\ UNCHANGED <<searcher, position, bad, searches, error, status, output, stack, fault>>

\* The callback may call entry points that do not search, and these clear or
\* set the message of the thread.
CallsBack(t) ==
  /\ At(t, "callback")
  /\ \E message \in {None, "nested"} : SetError(t, message)
  /\ UNCHANGED <<shared, searches, pc, status, output, stack, fault>>

\* Mutant of CallbackFails: the lock is given back only by a call that returns.
CallbackFailsLocked(t) ==
  /\ At(t, "callback")
  /\ \E failure \in {"embedder", "memory"} : Throw(t, failure) /\ Blame(t, failure)
  /\ UNCHANGED <<shared, searches, output>>

\* It returns an error code or vectors that do not validate, or throws.
CallbackFails(t) ==
  /\ At(t, "callback")
  /\ \E failure \in {"embedder", "memory"} : Throw(t, failure) /\ Blame(t, failure)
  /\ Release("callback")
  /\ UNCHANGED <<searcher, position, bad, searches, output>>

Subsequences(S, n) == UNION {{s \in [1..k -> S] : IsInjective(s)} : k \in 1..n}

NextBatch(found, from) ==
  SubSeq(found, from + 1, IF from + Batch < Len(found) THEN from + Batch ELSE Len(found))

\* The vectors of the query are there, and the graph is searched.
QueryEmbedded(t) ==
  /\ At(t, "callback") /\ stack[t].found = <<>>
  /\ \E found \in Subsequences(Docs, MaxFound) :
       stack' = [stack EXCEPT ![t].found = found, ![t].todo = NextBatch(found, 0)]

\* Those of a batch are there, and the next one follows, or the ranking and the
\* texts of its best.
BatchEmbedded(t) ==
  LET found == stack[t].found
      done  == stack[t].recomputed + Len(stack[t].texts)
      embedded == [stack EXCEPT ![t].recomputed = done, ![t].texts = <<>>]
  IN /\ At(t, "callback") /\ found # <<>>
     /\ \/ /\ done < Len(found)
           /\ stack' = [embedded EXCEPT ![t].todo = NextBatch(found, done)]
        \/ /\ done = Len(found)
           /\ \E ids \in Subsequences({found[i] : i \in 1..done}, done) :
                stack' = [embedded EXCEPT ![t].results = ids, ![t].todo = ids]

CallbackReturns(t) ==
  /\ QueryEmbedded(t) \/ BatchEmbedded(t)
  /\ Release("callback")
  /\ Go(t, "fetch")
  /\ UNCHANGED <<searcher, position, bad, searches, error, status, output, fault>>

-----------------------------------------------------------------------------
\* DocumentStore::read of the next chunk, all under the lock.
LockStream(t) ==
  /\ stack[t].todo # <<>>
  /\ Take(t, "stream", "fetch", "seek")
  /\ UNCHANGED <<searcher, position, bad, searches, error, status, output, stack, fault>>

\* The stream fails, and stays so.
StreamFails(t) ==
  /\ pc[t] \in {"seek", "read"}
  /\ Throw(t, "artifact") /\ Blame(t, "artifact") /\ Release("stream")
  /\ bad' = TRUE
  /\ UNCHANGED <<searcher, position, searches, output>>

\* Mutant of Seek: the failbit is left as it is, and then nothing works.
SeekUncleared(t) ==
  /\ At(t, "seek")
  /\ \/ ~bad /\ Go(t, "read") /\ position' = Head(stack[t].todo)
        /\ UNCHANGED <<mutex, error, status, stack>>
     \/ bad /\ Throw(t, "artifact") /\ Release("stream") /\ UNCHANGED position
  /\ UNCHANGED <<searcher, bad, searches, output, fault>>

\* stream_.clear() and seekg.
Seek(t) ==
  /\ At(t, "seek") /\ Go(t, "read")
  /\ position' = Head(stack[t].todo) /\ bad' = FALSE
  /\ UNCHANGED <<searcher, mutex, searches, error, status, output, stack, fault>>

ReadBytes(t) ==
  /\ At(t, "read") /\ Go(t, "check")
  /\ stack' = [stack EXCEPT ![t].got = position]
  /\ position' = position + 1
  /\ UNCHANGED <<searcher, mutex, bad, searches, error, status, output, fault>>

\* Mutant of Intact: the checksum is not compared.
IntactAlways(t) == TRUE

\* The bytes are those of the chunk, and the chunk is as it was written.
Intact(t) ==
  stack[t].got = Head(stack[t].todo) /\ Head(stack[t].todo) \notin Damaged

Check(t) ==
  /\ At(t, "check")
  /\ LET id == Head(stack[t].todo)
     IN \/ /\ Intact(t) /\ Go(t, "fetch")
           /\ stack' = [stack EXCEPT ![t].texts = Append(@, <<id, stack[t].got>>),
                                     ![t].todo = Tail(@), ![t].got = None]
           /\ UNCHANGED <<error, status, fault>>
        \/ /\ ~Intact(t) /\ Throw(t, "artifact")
           /\ Blame(t, IF id \in Damaged THEN "artifact" ELSE "ok")
  /\ Release("stream")
  /\ UNCHANGED <<searcher, position, bad, searches, output>>

\* The batch is read: it is embedded.
BatchRead(t) ==
  /\ At(t, "fetch") /\ stack[t].todo = <<>> /\ stack[t].results = <<>>
  /\ Go(t, "embed")
  /\ UNCHANGED <<shared, searches, error, status, output, stack, fault>>

\* All texts are copied: *output = results.release().
Publish(t) ==
  /\ At(t, "fetch") /\ stack[t].todo = <<>> /\ stack[t].results # <<>>
  /\ Go(t, "idle")
  /\ output' = [output EXCEPT ![t] = [ids |-> stack[t].results, texts |-> stack[t].texts]]
  /\ status' = [status EXCEPT ![t] = "ok"]
  /\ stack' = [stack EXCEPT ![t] = Unwound]
  /\ UNCHANGED <<shared, searches, error, fault>>

Work(t) ==
  \/ EnterCallback(t) \/ CallbackFails(t) \/ CallbackReturns(t)
  \/ LockStream(t) \/ Seek(t) \/ ReadBytes(t) \/ Check(t) \/ BatchRead(t) \/ Publish(t)

Next ==
  \E t \in Threads :
    \/ Open(t) \/ Destroy(t) \/ Inspect(t) \/ DestroyResults(t) \/ Search(t)
    \/ AllocationFails(t) \/ StreamFails(t) \/ CallsBack(t) \/ Work(t)

\* A thread that is in a call goes on, and the callback returns; nothing has to
\* fail.
Spec == Init /\ [][Next]_vars /\ \A t \in Threads : WF_vars(Work(t))

-----------------------------------------------------------------------------
Places == {"idle", "embed", "callback", "fetch", "seek", "read", "check"}

Calls == [found : Seq(Docs), recomputed : Nat, results : Seq(Docs), todo : Seq(Docs),
          got : Docs \cup {None}, texts : Seq(Docs \X Docs)]

\* The types; a lock belongs to the thread that is inside.
CApiTypeOK ==
  /\ searcher \in BOOLEAN /\ bad \in BOOLEAN /\ position \in 0..Count
  /\ mutex \in [{"callback", "stream"} -> Threads \cup {None}]
  /\ \A t \in Threads :
       /\ mutex.callback = t => At(t, "callback")
       /\ mutex.stream = t => pc[t] \in {"seek", "read", "check"}
  /\ pc \in [Threads -> Places] /\ searches \in 0..MaxSearches
  /\ error \in [Threads -> Failures \cup {"nested", None}]
  /\ status \in [Threads -> Failures \cup {"ok"}]
  /\ fault \in [Threads -> Failures \cup {"ok"}]
  /\ stack \in [Threads -> Calls]
  /\ \A t \in Threads : stack[t].recomputed <= Len(stack[t].found)
  /\ output \in [Threads -> {None} \cup [ids : Seq(Docs), texts : Seq(Docs \X Docs)]]

\* "Calls into one callback are serialized" (leann.h:64), and nobody moves the
\* stream between another thread's seek and the end of its read: also after
\* calls that threw (and the state is well typed, which the run checks along with
\* it).
Exclusive ==
  CApiTypeOK /\ \A t, u \in Threads : t # u =>
    /\ ~(At(t, "callback") /\ At(u, "callback"))
    /\ ~(pc[t] \in {"seek", "read", "check"} /\ pc[u] \in {"seek", "read", "check"})

\* A call fails only for what happened to itself, and its thread's message is
\* then that call's (leann.h:118): a healthy chunk is never reported as corrupt
\* because another thread moved the stream or left it failed, each kind of failure
\* has its status, and no call of another thread or of the callback changes it.
FailureIsItsOwn ==
  \A t \in Threads : At(t, "idle") =>
    /\ status[t] = fault[t]
    /\ status[t] # "ok" => error[t] = status[t]

\* "On failure, *output is set to NULL" (leann.h:151): a handle has the text of
\* every result, whole, undamaged and of that chunk, or there is no handle.
WholeOrNothing ==
  \A t \in Threads : output[t] # None =>
    /\ output[t].texts = [i \in DOMAIN output[t].ids |-> <<output[t].ids[i], output[t].ids[i]>>]
    /\ \A i \in DOMAIN output[t].ids : output[t].ids[i] \notin Damaged

\* Every call returns, however the calls before it ended.
CallsReturn == \A t \in Threads : pc[t] # "idle" ~> pc[t] = "idle"

(***************************************************************************)
(* The inductive invariant behind the three invariants.                    *)
(***************************************************************************)
Reading(t) == pc[t] \in {"seek", "read", "check"}

\* Whoever is inside has the lock.
LocksHeld ==
  \A t \in Threads : /\ At(t, "callback") => mutex.callback = t
                     /\ Reading(t) => mutex.stream = t

\* A call in progress has a searcher and has not failed; between calls nothing is
\* left of the last one.
InCall ==
  \A t \in Threads :
    /\ IF At(t, "idle") THEN stack[t] = Unwound ELSE searcher /\ fault[t] = "ok"
    /\ pc[t] \in {"embed", "callback"} => stack[t].results = <<>>

\* The stream stands where its reader put it, and what was read is from there.
StreamPlaced ==
  \A t \in Threads :
    /\ Reading(t) => stack[t].todo # <<>>
    /\ At(t, "read") => position = Head(stack[t].todo)
    /\ At(t, "check") => stack[t].got = Head(stack[t].todo)

\* The texts are those of the first results, in order, and the rest is to be read.
Copied(call) ==
  LET n == Len(call.texts)
  IN /\ Len(call.results) = n + Len(call.todo)
     /\ \A i \in 1..n : /\ call.texts[i] = <<call.results[i], call.results[i]>>
                        /\ call.results[i] \notin Damaged
     /\ \A i \in 1..Len(call.todo) : call.todo[i] = call.results[n + i]

CopiedSoFar == \A t \in Threads : stack[t].results # <<>> => Copied(stack[t])

CApiInv == /\ CApiTypeOK /\ LocksHeld /\ InCall /\ StreamPlaced /\ CopiedSoFar
           /\ FailureIsItsOwn /\ WholeOrNothing
===============================================================================
