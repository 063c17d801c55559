----------------------------- MODULE Publication -----------------------------
(***************************************************************************)
(* Builds of one artifact prefix, seen from the directory they share.      *)
(*                                                                         *)
(* `leann build` (Index::build, src/src/index.cpp) turns a corpus into two *)
(* files, the index P.leann and the document store P.docs, that are only   *)
(* useful together.  Any number of build processes may work on the same    *)
(* prefix: each takes two lock directories, writes a temporary pair,       *)
(* verifies it and publishes it with publish_artifact_pair                 *)
(* (src/src/artifact_publisher.cpp), which parks the previous pair in      *)
(* backups and rolls back when a rename fails.  Every file-system call of  *)
(* a build is a step of its own here; any of them may fail, the build may  *)
(* be cancelled at a checkpoint, and a process may be killed between any   *)
(* two steps.                                                              *)
(*                                                                         *)
(* A file's content is abstracted to the build that wrote it, the          *)
(* "generation"; the identity stored in both files is a digest of the      *)
(* corpus alone, so CorpusOf may give two generations the same identity.   *)
(***************************************************************************)
CONSTANTS Builders,   \* build processes; each runs Index::build once
          Old,        \* generation of the files present before any of them
          CorpusOf,   \* the corpus, hence the pair identity, of a generation
          None,       \* no file, no lock directory, no descriptor
          Partial     \* a file whose writer has not finished it

Gens == Builders \cup {Old}

ASSUME Distinct ==
         /\ Old \notin Builders
         /\ None \notin Gens
         /\ Partial \notin Gens \cup {None}

VARIABLES dir,        \* path -> content: the live pair, temporaries, backups
          lock,       \* kind -> the process whose create_directory made it
          owner,      \* kind -> the process its `owner` descriptor names
          held,       \* builder -> kinds in its BuildLocks::locks_
          pc,         \* builder -> the call it makes next
          had,        \* builder -> kinds that existed when it began publishing
          saved,      \* builder -> kinds it moved to a backup (*_backed_up)
          rollbackError, \* builder -> rollback_error is not empty
          outcome,    \* builder -> how Index::build returned or threw
          swallowed   \* builder -> a removal failed in a destructor, silently

locks  == <<lock, owner, held>>
publishing == <<had, saved, rollbackError>>
ends   == <<outcome, swallowed>>
vars   == <<dir, lock, owner, held, pc, had, saved, rollbackError, outcome,
            swallowed>>

(***************************************************************************)
(* Paths.  unique_adjacent_path gives each build its own .tmp.* and .bak.* *)
(* names next to both targets.                                             *)
(***************************************************************************)
Kinds == {"index", "docs"}

Live(k)   == <<"live", k, None>>
Tmp(b, k) == <<"tmp", k, b>>
Bak(b, k) == <<"bak", k, b>>
Paths == {"live", "tmp", "bak"} \X Kinds \X (Builders \cup {None})

Contents == Gens \cup {None, Partial}

\* rename(2): atomic, replaces the destination, needs the source.
Rename(from, to) ==
  /\ dir[from] # None
  /\ dir' = [dir EXCEPT ![to] = dir[from], ![from] = None]

\* remove(2) of a path that may be missing already, which is no error.
Remove(path) == dir' = [dir EXCEPT ![path] = None]

\* Index::load, DocumentStore::open and validate_document_store accept the two
\* contents: both complete, with the same identity.
Matches(index, docs) ==
  index \in Gens /\ docs \in Gens /\ CorpusOf[index] = CorpusOf[docs]

(***************************************************************************)
(* Control points.                                                         *)
(***************************************************************************)
Acquiring == {"lockDocs", "ownDocs", "lockIndex", "ownIndex"}
Preparing == {"paths", "docsCreate", "docsWrite", "embed", "indexCreate",
              "indexWrite", "verify", "commitPoint"}
Installing == {"probeIndex", "probeDocs", "backupIndex", "backupDocs",
               "installDocs", "installIndex"}
RollingBack == {"withdrawDocs", "discardDocs", "restoreDocs", "restoreIndex"}
CleaningUp == {"cleanIndex", "cleanDocs"}
Unwinding == {"dropTmpIndex", "dropTmpDocs", "disown", "unlock"}
PCs == {"idle", "done", "killed"} \cup Acquiring \cup Preparing \cup Installing
         \cup RollingBack \cup CleaningUp \cup Unwinding

Outcomes == {"running", "refused", "cancelled", "failed", "restored",
             "incomplete", "committed", "cleanupRequired", "lockCleanup"}
Committed == {"committed", "cleanupRequired", "lockCleanup"}

At(b, point)   == pc[b] = point
Goto(b, point) == pc' = [pc EXCEPT ![b] = point]
End(b, how) == outcome' = [outcome EXCEPT ![b] = how]

Init ==
  /\ \E present \in SUBSET Kinds :
       dir = [p \in Paths |-> IF \E k \in present : p = Live(k) THEN Old ELSE None]
  /\ lock = [k \in Kinds |-> None]
  /\ owner = [k \in Kinds |-> None]
  /\ held = [b \in Builders |-> {}]
  /\ pc = [b \in Builders |-> "idle"]
  /\ had = [b \in Builders |-> {}]
  /\ saved = [b \in Builders |-> {}]
  /\ rollbackError = [b \in Builders |-> FALSE]
  /\ outcome = [b \in Builders |-> "running"]
  /\ swallowed = [b \in Builders |-> FALSE]

-----------------------------------------------------------------------------
(***************************************************************************)
(* BuildLocks.  The targets are sorted by name and P.docs.lock sorts       *)
(* before P.leann.lock, so every build asks for the documents lock first.  *)
(* create_directory never waits: a lock that exists ends the build.        *)
(***************************************************************************)
Start(b) ==
  /\ At(b, "idle")
  /\ Goto(b, "lockDocs")
  /\ UNCHANGED <<dir, locks, publishing, ends>>

\* Mutant of Acquire: create_directories, which accepts a lock that exists.
AcquireExisting(b, k, here, next) ==
  /\ At(b, here)
  /\ lock' = [lock EXCEPT ![k] = b]
  /\ held' = [held EXCEPT ![b] = @ \cup {k}]
  /\ Goto(b, next)
  /\ UNCHANGED <<dir, owner, publishing, ends>>

\* Mutant of Acquire: the targets are locked in the order the caller names them.
AcquireUnsorted(b, k, here, next) ==
  /\ At(b, here)
  /\ \E l \in Kinds \ held[b] :
       /\ lock[l] = None
       /\ lock' = [lock EXCEPT ![l] = b]
       /\ held' = [held EXCEPT ![b] = @ \cup {l}]
  /\ Goto(b, next)
  /\ UNCHANGED <<dir, owner, publishing, ends>>

Acquire(b, k, here, next) ==
  /\ At(b, here)
  /\ lock[k] = None
  /\ lock' = [lock EXCEPT ![k] = b]
  /\ held' = [held EXCEPT ![b] = @ \cup {k}]
  /\ Goto(b, next)
  /\ UNCHANGED <<dir, owner, publishing, ends>>

\* Mutant of Refuse: throws without release_noexcept.
RefuseKeepingLocks(b, k, here) ==
  /\ At(b, here)
  /\ \/ lock[k] # None /\ End(b, "refused")
     \/ End(b, "failed")
  /\ Goto(b, "done")
  /\ UNCHANGED <<dir, locks, publishing, swallowed>>

\* create_directory found the lock, or failed: release_noexcept, then throw.
Refuse(b, k, here) ==
  /\ At(b, here)
  /\ \/ lock[k] # None /\ End(b, "refused")
     \/ End(b, "failed")
  /\ Goto(b, IF held[b] = {} THEN "done" ELSE "disown")
  /\ UNCHANGED <<dir, locks, publishing, swallowed>>

\* write_lock_owner opens the descriptor inside whatever directory is there
\* and gives up silently when it cannot.
Describe(b, k, here, next) ==
  /\ At(b, here)
  /\ owner' \in {owner, [owner EXCEPT ![k] = IF lock[k] = None THEN None ELSE b]}
  /\ Goto(b, next)
  /\ UNCHANGED <<dir, lock, held, publishing, ends>>

AcquireDocs(b)   == Acquire(b, "docs", "lockDocs", "ownDocs")
RefuseDocs(b)    == Refuse(b, "docs", "lockDocs")
DescribeDocs(b)  == Describe(b, "docs", "ownDocs", "lockIndex")
AcquireIndex(b)  == Acquire(b, "index", "lockIndex", "ownIndex")
RefuseIndex(b)   == Refuse(b, "index", "lockIndex")
DescribeIndex(b) == Describe(b, "index", "ownIndex", "paths")

\* The locks are given back in the reverse order of locks_: first the
\* descriptor, then the directory, which is refused while it is not empty.
LastHeld(b) == IF "index" \in held[b] THEN "index" ELSE "docs"

Disown(b) ==
  /\ At(b, "disown")
  /\ owner' \in {owner, [owner EXCEPT ![LastHeld(b)] = None]}
  /\ Goto(b, "unlock")
  /\ UNCHANGED <<dir, lock, held, publishing, ends>>

\* Where the build goes when locks_ is empty again: release_checked returns
\* to Index::build, whose TemporaryCleanup is still to be destroyed; in every
\* other case the locks are the last thing to be unwound.
AfterUnlock(b, how) ==
  IF held[b] \ {LastHeld(b)} # {} THEN "disown"
  ELSE IF how \in {"committed", "lockCleanup"} THEN "dropTmpIndex" ELSE "done"

Unlock(b) ==
  LET k == LastHeld(b) IN
  /\ At(b, "unlock")
  /\ held' = [held EXCEPT ![b] = @ \ {k}]
  /\ \/ /\ owner[k] = None
        /\ lock' = [lock EXCEPT ![k] = None]
        /\ Goto(b, AfterUnlock(b, outcome[b]))
        /\ UNCHANGED ends
     \/ /\ lock[k] # None  \* the directory stays: not empty, or an I/O error
        /\ UNCHANGED lock
        /\ IF outcome[b] \in {"committed", "lockCleanup"}
             THEN /\ End(b, "lockCleanup")
                  /\ Goto(b, AfterUnlock(b, "lockCleanup"))
                  /\ UNCHANGED swallowed
             ELSE /\ swallowed' = [swallowed EXCEPT ![b] = TRUE]
                  /\ Goto(b, AfterUnlock(b, outcome[b]))
                  /\ UNCHANGED outcome
  /\ UNCHANGED <<dir, owner, publishing>>

-----------------------------------------------------------------------------
(***************************************************************************)
(* Building the temporary pair.  A checkpoint throws BuildCancelled when   *)
(* the caller asked to stop; every call may throw.  Both unwind through    *)
(* TemporaryCleanup and then through ~BuildLocks.                          *)
(***************************************************************************)
\* Mutant of Unwind: TemporaryCleanup is constructed too late to run.
UnwindLocksOnly(b, how) ==
  /\ End(b, how)
  /\ Goto(b, "disown")
  /\ UNCHANGED <<locks, publishing, swallowed>>

Unwind(b, how) ==
  /\ End(b, how)
  /\ Goto(b, "dropTmpIndex")
  /\ UNCHANGED <<locks, publishing, swallowed>>

Cancel(b) ==
  /\ pc[b] \in {"docsCreate", "embed", "indexCreate", "verify", "commitPoint"}
  /\ Unwind(b, "cancelled")
  /\ UNCHANGED dir

Fail(b) ==
  /\ pc[b] \in {"docsCreate", "docsWrite", "embed", "indexCreate",
                "indexWrite", "verify", "probeIndex"}
  /\ Unwind(b, "failed")
  /\ UNCHANGED dir

Proceed(b, next) ==
  /\ Goto(b, next)
  /\ UNCHANGED <<locks, publishing, ends>>

\* require_regular_or_missing and unique_adjacent_path, before any temporary.
ChoosePaths(b) ==
  /\ At(b, "paths")
  /\ \/ Proceed(b, "docsCreate")
     \/ /\ End(b, "failed")
        /\ Goto(b, "disown")
        /\ UNCHANGED <<locks, publishing, swallowed>>
  /\ UNCHANGED dir

CreateTmp(b, k, here, next) ==
  /\ At(b, here)
  /\ dir' = [dir EXCEPT ![Tmp(b, k)] = Partial]
  /\ Proceed(b, next)

\* The last bytes and the footer.  A file that is no longer at its path cannot
\* be finished: it is opened again, for its footer or for its identity.
FinishTmp(b, k, here, next) ==
  /\ At(b, here)
  /\ dir[Tmp(b, k)] = Partial
  /\ dir' = [dir EXCEPT ![Tmp(b, k)] = b]
  /\ Proceed(b, next)

CreateDocs(b)  == CreateTmp(b, "docs", "docsCreate", "docsWrite")
FinishDocs(b)  == FinishTmp(b, "docs", "docsWrite", "embed")
CreateIndex(b) == CreateTmp(b, "index", "indexCreate", "indexWrite")
FinishIndex(b) == FinishTmp(b, "index", "indexWrite", "verify")

\* Embeddings, graph, pruning and codes: nothing outside the process changes.
Embed(b) ==
  /\ At(b, "embed")
  /\ Proceed(b, "indexCreate")
  /\ UNCHANGED dir

Verify(b) ==
  /\ At(b, "verify")
  /\ Matches(dir[Tmp(b, "index")], dir[Tmp(b, "docs")])
  /\ Proceed(b, "commitPoint")
  /\ UNCHANGED dir

\* The last checkpoint lets the build through.
EnterPublication(b) ==
  /\ At(b, "commitPoint")
  /\ Proceed(b, "probeIndex")
  /\ UNCHANGED dir

-----------------------------------------------------------------------------
(***************************************************************************)
(* publish_artifact_pair.                                                  *)
(***************************************************************************)
\* Its local variables go out of scope when it returns or throws.
LeavePublish(b) ==
  /\ had' = [had EXCEPT ![b] = {}]
  /\ saved' = [saved EXCEPT ![b] = {}]
  /\ rollbackError' = [rollbackError EXCEPT ![b] = FALSE]

Probe(b, k, here, next) ==
  /\ At(b, here)
  /\ had' = [had EXCEPT ![b] = IF dir[Live(k)] # None THEN @ \cup {k} ELSE @]
  /\ Goto(b, next)
  /\ UNCHANGED <<dir, locks, saved, rollbackError, ends>>

ProbeIndex(b) == Probe(b, "index", "probeIndex", "probeDocs")
ProbeDocs(b)  == Probe(b, "docs", "probeDocs", "backupIndex")

ProbeDocsFails(b) ==
  /\ At(b, "probeDocs")
  /\ End(b, "failed")
  /\ Goto(b, "dropTmpIndex")
  /\ LeavePublish(b)
  /\ UNCHANGED <<dir, locks, swallowed>>

\* Mutant of Backup: the previous file is removed to make room.
BackupByRemoving(b, k, here, next) ==
  /\ At(b, here)
  /\ IF k \in had[b]
       THEN /\ Remove(Live(k))
            /\ saved' = [saved EXCEPT ![b] = @ \cup {k}]
       ELSE UNCHANGED <<dir, saved>>
  /\ Goto(b, next)
  /\ UNCHANGED <<locks, had, rollbackError, ends>>

\* Move the previous file of kind k, if there was one, out of the way.
Backup(b, k, here, next) ==
  /\ At(b, here)
  /\ IF k \in had[b]
       THEN /\ Rename(Live(k), Bak(b, k))
            /\ saved' = [saved EXCEPT ![b] = @ \cup {k}]
       ELSE UNCHANGED <<dir, saved>>
  /\ Goto(b, next)
  /\ UNCHANGED <<locks, had, rollbackError, ends>>

\* Mutant of BackupIndex: the previous index stays until it is replaced.
BackupIndexNever(b) ==
  /\ At(b, "backupIndex")
  /\ Proceed(b, "backupDocs")
  /\ UNCHANGED dir

BackupIndex(b) == Backup(b, "index", "backupIndex", "backupDocs")
BackupDocs(b)  == Backup(b, "docs", "backupDocs", "installDocs")

\* Mutant of InstallDocs: the index is installed before the documents.
InstallIndexFirst(b) ==
  /\ At(b, "installDocs")
  /\ Rename(Tmp(b, "index"), Live("index"))
  /\ Proceed(b, "installIndex")

InstallDocs(b) ==
  /\ At(b, "installDocs")
  /\ Rename(Tmp(b, "docs"), Live("docs"))
  /\ Proceed(b, "installIndex")

\* The commit: the index is renamed last.
InstallIndex(b) ==
  /\ At(b, "installIndex")
  /\ Rename(Tmp(b, "index"), Live("index"))
  /\ End(b, "committed")
  /\ Goto(b, "cleanIndex")
  /\ UNCHANGED <<locks, publishing, swallowed>>

\* publish_artifact_pair's handler ends by throwing, with a message that says
\* whether the previous pair is back.
ThrowAfterRollback(b, errors) ==
  /\ End(b, IF errors THEN "incomplete" ELSE "restored")
  /\ Goto(b, "dropTmpIndex")
  /\ LeavePublish(b)

\* A rename of the transaction failed.
InstallFails(b) ==
  /\ \/ pc[b] = "backupIndex" /\ "index" \in had[b]
     \/ pc[b] = "backupDocs" /\ "docs" \in had[b]
     \/ pc[b] \in {"installDocs", "installIndex"}
  /\ Goto(b, IF pc[b] = "installIndex" THEN "withdrawDocs" ELSE "restoreDocs")
  /\ UNCHANGED <<dir, locks, publishing, ends>>

WithdrawDocs(b) ==
  /\ At(b, "withdrawDocs")
  /\ \/ Rename(Live("docs"), Tmp(b, "docs")) /\ Goto(b, "restoreDocs")
     \/ UNCHANGED dir /\ Goto(b, "discardDocs")
  /\ UNCHANGED <<locks, publishing, ends>>

\* The withdrawal failed: delete the uncommitted documents instead.
DiscardDocs(b) ==
  /\ At(b, "discardDocs")
  /\ \/ Remove(Live("docs")) /\ UNCHANGED rollbackError
     \/ UNCHANGED dir /\ rollbackError' = [rollbackError EXCEPT ![b] = TRUE]
  /\ Goto(b, "restoreDocs")
  /\ UNCHANGED <<locks, had, saved, ends>>

\* Mutant of RestoreDocs: a failed rename is not a rollback error.
RestoreDocsQuietly(b) ==
  /\ At(b, "restoreDocs")
  /\ \/ "docs" \in saved[b] /\ Rename(Bak(b, "docs"), Live("docs"))
     \/ UNCHANGED dir
  /\ Goto(b, "restoreIndex")
  /\ UNCHANGED <<locks, publishing, ends>>

RestoreDocs(b) ==
  /\ At(b, "restoreDocs")
  /\ \/ /\ "docs" \in saved[b]
        /\ Rename(Bak(b, "docs"), Live("docs"))
        /\ UNCHANGED rollbackError
     \/ /\ "docs" \in saved[b]
        /\ rollbackError' = [rollbackError EXCEPT ![b] = TRUE]
        /\ UNCHANGED dir
     \/ /\ "docs" \notin saved[b]
        /\ UNCHANGED <<dir, rollbackError>>
  /\ Goto(b, "restoreIndex")
  /\ UNCHANGED <<locks, had, saved, ends>>

\* Mutant of RestoreIndex: the old index comes back whatever happened before.
RestoreIndexAnyway(b) ==
  /\ At(b, "restoreIndex")
  /\ IF "index" \in saved[b]
       THEN Rename(Bak(b, "index"), Live("index"))
       ELSE UNCHANGED dir
  /\ ThrowAfterRollback(b, rollbackError[b])
  /\ UNCHANGED <<locks, swallowed>>

\* The old index comes back only when the documents did.
RestoreIndex(b) ==
  /\ At(b, "restoreIndex")
  /\ IF "index" \in saved[b] /\ ~rollbackError[b]
       THEN \/ /\ Rename(Bak(b, "index"), Live("index"))
               /\ ThrowAfterRollback(b, FALSE)
            \/ /\ UNCHANGED dir
               /\ ThrowAfterRollback(b, TRUE)
       ELSE /\ UNCHANGED dir
            /\ ThrowAfterRollback(b, rollbackError[b])
  /\ UNCHANGED <<locks, swallowed>>

\* After the commit the backups go.  Any failure is reported once both were
\* tried: "new artifact pair committed; backup cleanup required".
Clean(b, k, here) ==
  /\ At(b, here)
  /\ \/ /\ IF k \in saved[b] THEN Remove(Bak(b, k)) ELSE UNCHANGED dir
        /\ UNCHANGED outcome
     \/ /\ k \in saved[b]
        /\ End(b, "cleanupRequired")
        /\ UNCHANGED dir
  /\ UNCHANGED <<locks, swallowed>>

\* Mutant of CleanIndex: the cleanup is inside the try block of the
\* transaction, so its failure rolls the committed pair back.
CleanIndexOrRollBack(b) ==
  /\ Clean(b, "index", "cleanIndex")
  /\ Goto(b, IF outcome'[b] = "cleanupRequired" THEN "withdrawDocs" ELSE "cleanDocs")
  /\ UNCHANGED publishing

CleanIndex(b) ==
  /\ Clean(b, "index", "cleanIndex")
  /\ Goto(b, "cleanDocs")
  /\ UNCHANGED publishing

CleanDocs(b) ==
  /\ Clean(b, "docs", "cleanDocs")
  /\ Goto(b, IF outcome'[b] = "cleanupRequired" THEN "dropTmpIndex" ELSE "disown")
  /\ LeavePublish(b)

-----------------------------------------------------------------------------
(***************************************************************************)
(* ~TemporaryCleanup: both temporaries are removed, errors ignored.        *)
(***************************************************************************)
DropTmp(b, k, here) ==
  /\ At(b, here)
  /\ \/ Remove(Tmp(b, k)) /\ UNCHANGED swallowed
     \/ /\ dir[Tmp(b, k)] # None
        /\ swallowed' = [swallowed EXCEPT ![b] = TRUE]
        /\ UNCHANGED dir
  /\ UNCHANGED <<locks, publishing, outcome>>

DropTmpIndex(b) ==
  /\ DropTmp(b, "index", "dropTmpIndex")
  /\ Goto(b, "dropTmpDocs")

DropTmpDocs(b) ==
  /\ DropTmp(b, "docs", "dropTmpDocs")
  /\ Goto(b, IF held[b] = {} THEN "done" ELSE "disown")

\* The process is killed: what it had in memory is gone, its files and its
\* lock directories stay as they are.
Kill(b) ==
  /\ pc[b] \notin {"idle", "done", "killed"}
  /\ Goto(b, "killed")
  /\ held' = [held EXCEPT ![b] = {}]
  /\ LeavePublish(b)
  /\ swallowed' = [swallowed EXCEPT ![b] = FALSE]
  /\ UNCHANGED <<dir, lock, owner, outcome>>

-----------------------------------------------------------------------------
Run(b) ==
  \/ AcquireDocs(b) \/ RefuseDocs(b) \/ DescribeDocs(b)
  \/ AcquireIndex(b) \/ RefuseIndex(b) \/ DescribeIndex(b)
  \/ ChoosePaths(b) \/ Cancel(b) \/ Fail(b)
  \/ CreateDocs(b) \/ FinishDocs(b) \/ Embed(b)
  \/ CreateIndex(b) \/ FinishIndex(b) \/ Verify(b) \/ EnterPublication(b)
  \/ ProbeIndex(b) \/ ProbeDocs(b) \/ ProbeDocsFails(b)
  \/ BackupIndex(b) \/ BackupDocs(b)
  \/ InstallDocs(b) \/ InstallIndex(b) \/ InstallFails(b)
  \/ WithdrawDocs(b) \/ DiscardDocs(b) \/ RestoreDocs(b) \/ RestoreIndex(b)
  \/ CleanIndex(b) \/ CleanDocs(b)
  \/ DropTmpIndex(b) \/ DropTmpDocs(b) \/ Disown(b) \/ Unlock(b)

Build(b) == Start(b) \/ Run(b) \/ Kill(b)

\* Every process has returned or was killed.
Finished == \A b \in Builders : pc[b] \in {"done", "killed"}
Terminating == Finished /\ UNCHANGED vars

Next == (\E b \in Builders : Build(b)) \/ Terminating

Spec == Init /\ [][Next]_vars

\* A started process keeps running until it returns, unless it is killed;
\* nothing in a build waits for another process.
FairSpec == Spec /\ \A b \in Builders : WF_vars(Run(b))

-----------------------------------------------------------------------------
(***************************************************************************)
(* What publication is for.                                                *)
(***************************************************************************)

\* Every variable has its type.
TypeOK ==
  /\ dir \in [Paths -> Contents]
  /\ lock \in [Kinds -> Builders \cup {None}]
  /\ owner \in [Kinds -> Builders \cup {None}]
  /\ held \in [Builders -> SUBSET Kinds]
  /\ pc \in [Builders -> PCs]
  /\ had \in [Builders -> SUBSET Kinds]
  /\ saved \in [Builders -> SUBSET Kinds]
  /\ rollbackError \in [Builders -> BOOLEAN]
  /\ outcome \in [Builders -> Outcomes]
  /\ swallowed \in [Builders -> BOOLEAN]

Critical(b) ==
  pc[b] \in Preparing \cup Installing \cup RollingBack \cup CleaningUp

\* Two running builds are never both between taking their locks and giving
\* them back: BuildLocks in index.cpp.
MutualExclusion ==
  \A b, c \in Builders : Critical(b) /\ Critical(c) => b = c

\* Whenever both live files exist they carry the same identity, after every
\* single rename, failure and rollback of publish_artifact_pair, so "an old
\* index is never reactivated against the wrong chunks" (DESIGN.md:124).
LivePairMatches ==
  dir[Live("index")] # None /\ dir[Live("docs")] # None
    => Matches(dir[Live("index")], dir[Live("docs")])

Kept(k) == {dir[Live(k)]} \cup {dir[Bak(b, k)] : b \in Builders}

\* The generations of which both files are on disk, live or as backups.
Complete == (Kept("index") \cap Kept("docs")) \ {None, Partial}

\* Once there is a complete pair on disk there always is one, whatever fails
\* and whenever the process is killed: publish_artifact_pair drops a backup
\* only after the commit and a withdrawn file is never the only copy.
PairNeverLost == [][Complete # {} => Complete' # {}]_vars

\* The moment Index::build knows how it ends, the directory agrees with what
\* the message will say: "previous artifact pair restored" means that exactly
\* the kinds that existed are live again and no backup is left; "rollback
\* incomplete" leaves no live index; "committed" means both live files are
\* this build's; the other errors mean that it never touched the live pair.
OutcomeHonest ==
  [][\A b \in Builders : outcome[b] = "running" /\ outcome'[b] # "running" =>
       /\ outcome'[b] = "restored" =>
            \A k \in Kinds : /\ dir'[Live(k)] # None <=> k \in had[b]
                             /\ dir'[Live(k)] # b
                             /\ dir'[Bak(b, k)] = None
       /\ outcome'[b] = "incomplete" => dir'[Live("index")] = None
       /\ outcome'[b] = "committed" => \A k \in Kinds : dir'[Live(k)] = b
       /\ outcome'[b] \in {"refused", "cancelled", "failed"} =>
            \A k \in Kinds : dir'[Live(k)] # b /\ dir'[Bak(b, k)] = None]_vars

\* A build that returned or threw leaves no temporary, no backup and no lock
\* behind, unless its message says so or a destructor met an error it cannot
\* report (DESIGN.md:155-158, "a cancelled build leaves no .lock, .tmp.*, or
\* .bak.* behind").
NoResidue ==
  \A b \in Builders : At(b, "done") /\ ~swallowed[b] =>
    \A k \in Kinds :
      /\ dir[Tmp(b, k)] = None
      /\ dir[Bak(b, k)] # None => outcome[b] \in {"incomplete", "cleanupRequired"}
      /\ lock[k] = b => outcome[b] = "lockCleanup"

\* Builds that compete for the two locks never all refuse each other: because
\* BuildLocks sorts its targets, whoever is refused lost to someone who was not.
NotAllRefused ==
  ~ \A b \in Builders : At(b, "done") /\ outcome[b] = "refused"

\* A build that is not killed gives back every lock it takes, or reports
\* "build lock cleanup required", or failed to in a destructor.
LocksComeBack ==
  \A b \in Builders, k \in Kinds :
    lock[k] = b ~> \/ lock[k] # b
                   \/ pc[b] = "killed"
                   \/ At(b, "done") /\ (swallowed[b] \/ outcome[b] = "lockCleanup")

(***************************************************************************)
(* Publication implements ArtifactPair: `visible` is the live index when   *)
(* both files are there, `withdrawn` the index that the one build inside   *)
(* the transaction moved away from a pair.                                 *)
(***************************************************************************)
InTransaction(b) ==
  pc[b] \in {"backupDocs", "installDocs", "installIndex"} \cup RollingBack

Aside == {b \in Builders : /\ InTransaction(b)
                           /\ had[b] = Kinds
                           /\ "index" \in saved[b]}

VisiblePair ==
  IF \E k \in Kinds : dir[Live(k)] = None THEN None ELSE dir[Live("index")]

WithdrawnPair ==
  IF Aside = {} THEN None ELSE dir[Bak(CHOOSE b \in Aside : TRUE, "index")]

CommittedBuilds == {b \in Builders : outcome[b] \in Committed}

Pair == INSTANCE ArtifactPair WITH visible <- VisiblePair,
                                   withdrawn <- WithdrawnPair,
                                   committed <- CommittedBuilds

\* Readers of the prefix see what ArtifactPair promises: a pair is replaced by
\* a committed one or comes back itself, and nothing else becomes visible.
ImplementsArtifactPair == Pair!Spec

(***************************************************************************)
(* The inductive invariant behind MutualExclusion and LivePairMatches.     *)
(***************************************************************************)

\* Which locks a build holds is decided by where it is, and nobody else made
\* the directories it holds.
LocksHeld ==
  \A b \in Builders :
    /\ \A k \in held[b] : lock[k] = b
    /\ pc[b] \in {"idle", "lockDocs", "killed"} => held[b] = {}
    /\ pc[b] \in {"ownDocs", "lockIndex"} => held[b] = {"docs"}
    /\ pc[b] = "ownIndex" \/ Critical(b) => held[b] = Kinds
    /\ pc[b] \in {"disown", "unlock"} => held[b] # {}

\* A file under one of the two public names, or in a backup, is complete, and
\* so are the temporaries of a build from when it finished them until it moves
\* them, as long as they are there: `leann doctor --repair' may take them away.
FilesComplete ==
  /\ \A k \in Kinds : dir[Live(k)] \in Gens \cup {None}
  /\ \A b \in Builders, k \in Kinds : dir[Bak(b, k)] \in Gens \cup {None}
  /\ \A b \in Builders :
       /\ pc[b] \in {"embed", "indexCreate", "indexWrite", "verify",
                     "commitPoint"} \cup (Installing \ {"installIndex"})
            => dir[Tmp(b, "docs")] \in {b, None}
       /\ pc[b] \in {"verify", "commitPoint"} \cup Installing
            => dir[Tmp(b, "index")] \in {b, None}

\* Two files that are there are of one build.  Matches asks for less, the same
\* corpus.
OfOneBuild(index, docs) == index # None /\ docs # None => index = docs

\* Where a transaction stands.  The index leaves its public name before the
\* documents change, and the index in the backup belongs to the documents it
\* will be put back next to.
BeforeBackup(b) ==
  /\ pc[b] \notin {"backupDocs", "installDocs", "installIndex"}
                  \cup RollingBack \cup CleaningUp
       => saved[b] = {} /\ ~rollbackError[b]
  /\ pc[b] \in {"probeDocs", "backupIndex"} /\ "index" \notin had[b]
       => dir[Live("index")] = None
  /\ pc[b] \in {"backupIndex", "backupDocs"} /\ "docs" \notin had[b]
       => dir[Live("docs")] = None

Uncommitted(b) ==
  /\ pc[b] \in {"backupDocs", "installDocs", "installIndex", "withdrawDocs",
                "discardDocs"}
       => dir[Live("index")] = None /\ ~rollbackError[b]
  /\ pc[b] = "backupDocs" => "docs" \notin saved[b]
  /\ pc[b] = "installDocs" => dir[Live("docs")] = None
  /\ pc[b] = "installIndex" => dir[Live("docs")] = b
  /\ pc[b] \in {"installDocs", "installIndex", "withdrawDocs", "discardDocs",
                "restoreDocs"} /\ saved[b] = Kinds
       => OfOneBuild(dir[Bak(b, "index")], dir[Bak(b, "docs")])

Restorable(b) ==
  /\ pc[b] = "restoreDocs" /\ saved[b] # {} => dir[Live("index")] = None
  /\ pc[b] \in {"backupDocs", "restoreDocs", "restoreIndex"}
     /\ "index" \in saved[b] /\ ~rollbackError[b]
       => OfOneBuild(dir[Bak(b, "index")], dir[Live("docs")])

Transaction ==
  \A b \in Builders : BeforeBackup(b) /\ Uncommitted(b) /\ Restorable(b)

PairInv ==
  FilesComplete /\ Transaction /\ OfOneBuild(dir[Live("index")], dir[Live("docs")])

(***************************************************************************)
(* What the other properties need besides: which call a build makes next   *)
(* says how far it has come, what it left behind and where its files are.  *)
(***************************************************************************)

\* A build has an outcome once it unwinds, and not before, except that the
\* commit comes before the cleanup of the backups.
Ended(b) ==
  /\ pc[b] \in {"idle"} \cup Acquiring \cup Preparing \cup Installing
               \cup RollingBack
       => outcome[b] = "running"
  /\ At(b, "cleanIndex") => outcome[b] = "committed"
  /\ At(b, "cleanDocs") => outcome[b] \in {"committed", "cleanupRequired"}
  /\ pc[b] \in Unwinding \cup {"done"} => outcome[b] # "running"

\* The calls before which there is no temporary of a kind: it was not created,
\* or it was moved, or it was removed.
WithoutTmp(k) ==
  {"idle", "paths", "docsCreate", "disown", "unlock", "done"}
    \cup Acquiring \cup CleaningUp
    \cup (IF k = "index" THEN {"docsWrite", "embed", "indexCreate", "dropTmpDocs"}
                         ELSE {"installIndex"})

\* A backup is one that publish_artifact_pair still knows of, or one that the
\* build reports, or that of a killed process; likewise for a lock directory.
Accounted(b, k) ==
  /\ pc[b] \in WithoutTmp(k) /\ ~swallowed[b] => dir[Tmp(b, k)] = None
  /\ dir[Bak(b, k)] # None
       => \/ k \in saved[b]
          \/ outcome[b] \in {"incomplete", "cleanupRequired"}
          \/ At(b, "killed")
  /\ lock[k] = b
       => \/ k \in held[b]
          \/ swallowed[b] \/ outcome[b] = "lockCleanup"
          \/ At(b, "killed")

Residue ==
  \A b \in Builders :
    /\ Ended(b)
    /\ \A k \in Kinds : Accounted(b, k)
    /\ At(b, "cleanDocs") /\ dir[Bak(b, "index")] # None
         => outcome[b] = "cleanupRequired"
    /\ At(b, "restoreIndex") /\ ~rollbackError[b] => dir[Bak(b, "docs")] = None
    /\ At(b, "done") => held[b] = {}

\* A build that has taken the documents lock, or given up before, and was not
\* refused.
Contends(b) == outcome[b] # "refused" /\ pc[b] \notin {"idle", "lockDocs"}

\* Whoever made the index lock never meets a lock again; whoever made the
\* documents lock was refused by no one but the former.
Contention ==
  /\ \A b \in Builders :
       /\ lock["index"] = b
            => Contends(b) /\ pc[b] \notin {"ownDocs", "lockIndex"}
       /\ lock["docs"] = b => Contends(b) \/ outcome[b] = "refused"
  /\ (\E b \in Builders : outcome[b] = "refused") => \E b \in Builders : Contends(b)

\* An index under the public name or in a backup is of a build that committed,
\* and a build has committed only once it is past the rename of its index.
IndexesCommitted ==
  /\ \A b \in Builders :
       /\ dir[Tmp(b, "index")] \in {None, Partial, b}
       /\ dir[Bak(b, "index")] \in Builders
            => outcome[dir[Bak(b, "index")]] \in Committed
       /\ outcome[b] \in Committed
            => pc[b] \in CleaningUp \cup Unwinding \cup {"done", "killed"}
  /\ dir[Live("index")] \in Builders => outcome[dir[Live("index")]] \in Committed

\* The documents of a build are in a backup only when it is over, and public
\* only then or between their rename and their withdrawal.
LeftDocs(b) == outcome[b] \in Committed \cup {"incomplete"} \/ At(b, "killed")

PublicDocs(b) ==
  \/ LeftDocs(b)
  \/ pc[b] \in {"installIndex", "withdrawDocs", "discardDocs"}
  \/ pc[b] \in {"restoreDocs", "restoreIndex"} /\ rollbackError[b]

DocsPlaced ==
  \A b \in Builders :
    /\ dir[Live("docs")] = b => PublicDocs(b)
    /\ \A c \in Builders : dir[Bak(c, "docs")] = b => LeftDocs(b)

\* What was there (`had'), what was moved away (`saved') and what is there now.
Probed(b) ==
  /\ pc[b] \notin (Installing \ {"probeIndex"}) \cup RollingBack \cup CleaningUp
       => had[b] = {}
  /\ At(b, "probeDocs") => had[b] \subseteq {"index"}
  /\ pc[b] \in {"probeDocs", "backupIndex"}
       => ("index" \in had[b] <=> dir[Live("index")] # None)
  /\ pc[b] \in {"backupIndex", "backupDocs"}
       => ("docs" \in had[b] <=> dir[Live("docs")] # None)
  /\ pc[b] \in {"backupDocs", "installDocs", "installIndex", "withdrawDocs",
                "discardDocs"}
       => ("index" \in saved[b] <=> "index" \in had[b])
  /\ pc[b] \in {"installDocs", "installIndex", "withdrawDocs", "discardDocs"}
       => ("docs" \in saved[b] <=> "docs" \in had[b])

Replaced(b) ==
  /\ pc[b] \in {"withdrawDocs", "discardDocs"} \cup CleaningUp
       => dir[Live("docs")] = b
  /\ pc[b] \in CleaningUp => dir[Live("index")] = b

RolledBack(b) ==
  /\ pc[b] \in {"restoreDocs", "restoreIndex"}
       => /\ saved[b] \subseteq had[b]
          /\ saved[b] # {} \/ rollbackError[b] => dir[Live("index")] = None
          /\ "index" \notin saved[b]
               => ("index" \in had[b] <=> dir[Live("index")] # None)
  /\ At(b, "restoreDocs") /\ rollbackError[b] => dir[Live("docs")] = b
  /\ At(b, "restoreDocs") /\ ~rollbackError[b]
       => IF "docs" \in saved[b] THEN dir[Live("docs")] = None
          ELSE "docs" \in had[b] <=> dir[Live("docs")] # None
  /\ At(b, "restoreIndex") /\ ~rollbackError[b]
       => ("docs" \in had[b] <=> dir[Live("docs")] # None)

Protocol ==
  \A b \in Builders : Probed(b) /\ Replaced(b) /\ RolledBack(b)
=============================================================================
