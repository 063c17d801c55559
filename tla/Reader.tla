------------------------------- MODULE Reader -------------------------------
(***************************************************************************)
(* Search sessions against a prefix that is being rebuilt.  A session      *)
(* (`leann search`, `stats` and `bench`, or leann_searcher_open ...        *)
(* leann_searcher_destroy) loads the index, opens the document store,      *)
(* validates the pair and then answers any number of queries.  It takes no *)
(* lock: publications, rollbacks and kills happen between any two of its   *)
(* calls.  The index is held in memory and the documents are read through  *)
(* the stream opened once, so a session keeps its two generations while    *)
(* the paths move on to others.  IndexPrefix runs the sessions next to the *)
(* builds and the doctor.                                                  *)
(***************************************************************************)
EXTENDS Publication

CONSTANT Readers

VARIABLES rpc,      \* reader -> where its session is
          rindex,   \* reader -> generation of the index it loaded
          rdocs,    \* reader -> generation behind its document stream
          served,   \* reader -> <<index, documents>> of its latest answer
          past      \* reader -> indexes it answered from before that one

sessions == <<rpc, rindex, rdocs, served, past>>

ReaderInit ==
  /\ Init
  /\ rpc = [r \in Readers |-> "closed"]
  /\ rindex = [r \in Readers |-> None]
  /\ rdocs = [r \in Readers |-> None]
  /\ served = [r \in Readers |-> <<None, None>>]
  /\ past = [r \in Readers |-> {}]

Move(r, from, to) == rpc[r] = from /\ rpc' = [rpc EXCEPT ![r] = to]

\* Index::load opens the path once and verifies and parses that stream.
LoadIndex(r) ==
  /\ Move(r, "closed", "loaded")
  /\ dir[Live("index")] \in Gens
  /\ rindex' = [rindex EXCEPT ![r] = dir[Live("index")]]
  /\ UNCHANGED <<vars, rdocs, served, past>>

OpenDocuments(r) ==
  /\ Move(r, "loaded", "opened")
  /\ dir[Live("docs")] \in Gens
  /\ rdocs' = [rdocs EXCEPT ![r] = dir[Live("docs")]]
  /\ UNCHANGED <<vars, rindex, served, past>>

\* Both local objects are destroyed when a call throws.
Leave(r) ==
  /\ rpc' = [rpc EXCEPT ![r] = "closed"]
  /\ rindex' = [rindex EXCEPT ![r] = None]
  /\ rdocs' = [rdocs EXCEPT ![r] = None]
  /\ UNCHANGED <<vars, served, past>>

\* A file that is missing or damaged, a pair that does not match, a
\* fingerprint the caller's embedder does not have.
OpenFails(r) == rpc[r] \in {"loaded", "opened"} /\ Leave(r)

ValidatePair(r) ==
  /\ Move(r, "opened", "ready")
  /\ Matches(rindex[r], rdocs[r])
  /\ UNCHANGED <<vars, rindex, rdocs, served, past>>

\* Mutant of Search: the store is opened by its path for every query.
SearchReopening(r) ==
  /\ rpc[r] = "ready"
  /\ dir[Live("docs")] \in Gens
  /\ served' = [served EXCEPT ![r] = <<rindex[r], dir[Live("docs")]>>]
  /\ UNCHANGED <<vars, rpc, rindex, rdocs, past>>

\* One answer: ids from the index, texts read through the open stream.
Search(r) ==
  /\ rpc[r] = "ready"
  /\ served' = [served EXCEPT ![r] = <<rindex[r], rdocs[r]>>]
  /\ past' = [past EXCEPT ![r] = IF served[r][1] \in {None, rindex[r]}
                                 THEN @ ELSE @ \cup {served[r][1]}]
  /\ UNCHANGED <<vars, rpc, rindex, rdocs>>

Close(r) == rpc[r] = "ready" /\ Leave(r)

Session(r) == \/ LoadIndex(r) \/ OpenDocuments(r) \/ OpenFails(r)
              \/ ValidatePair(r) \/ Search(r) \/ Close(r)

-----------------------------------------------------------------------------
ReaderTypeOK ==
  /\ rpc \in [Readers -> {"closed", "loaded", "opened", "ready"}]
  /\ rindex \in [Readers -> Gens \cup {None}]
  /\ rdocs \in [Readers -> Gens \cup {None}]
  /\ served \in [Readers -> (Gens \cup {None}) \X (Gens \cup {None})]
  /\ past \in [Readers -> SUBSET Gens]

\* An answer never joins the ids of one corpus with the texts of another,
\* however many publications replace the files during the session
\* (DESIGN.md:112-114, document_store.cpp's one open stream).
AnswersFromOneCorpus ==
  \A r \in Readers : served[r] # <<None, None>> => Matches(served[r][1], served[r][2])

\* No session ever loads an index whose build did not commit: the index is
\* renamed last, so what a rollback withdraws was never readable as a pair.
LoadsOnlyCommitted ==
  \A r \in Readers : rindex[r] \in Builders => outcome[rindex[r]] \in Committed

\* A client that has had answers from one index and then from a newer one
\* never gets the older one again: a rollback brings back the pair that was
\* there when it began, not an earlier one.
NeverBack == \A r \in Readers : served[r][1] \notin past[r]

(***************************************************************************)
(* The inductive invariant behind these three, next to Publication's.      *)
(***************************************************************************)

SessionsValid ==
  \A r \in Readers : rpc[r] = "ready" => Matches(rindex[r], rdocs[r])

\* An index that is neither public, nor in a backup that its build may still
\* restore, nor of a build that has yet to commit.
Retired(g) ==
  /\ g \in Builders => outcome[g] \in Committed
  /\ dir[Live("index")] # g
  /\ \A b \in Builders :
       "index" \in saved[b] /\ pc[b] \notin CleaningUp => dir[Bak(b, "index")] # g

\* What a client has had answers from is retired once it has loaded another
\* index.
Superseded ==
  \A r \in Readers :
    /\ \A g \in past[r] : Retired(g)
    /\ served[r][1] \in Builders => outcome[served[r][1]] \in Committed
    /\ rindex[r] # None =>
         /\ rindex[r] \notin past[r]
         /\ served[r][1] \in {None, rindex[r]} \/ Retired(served[r][1])

ReaderInv == /\ ReaderTypeOK /\ SessionsValid /\ Superseded
             /\ LoadsOnlyCommitted /\ AnswersFromOneCorpus /\ NeverBack
=============================================================================
