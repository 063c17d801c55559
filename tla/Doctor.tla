------------------------------- MODULE Doctor -------------------------------
(***************************************************************************)
(* `leann doctor` (command_doctor, src/app/main.cpp) next to the builds of *)
(* the prefix it inspects.  The doctor takes no lock.  It loads the live   *)
(* pair, looks at both lock directories, lists the leftovers and only then *)
(* acts on what it saw: --repair removes temporaries and superseded        *)
(* backups, --force-unlock removes the lock directories.  Each look and    *)
(* each removal is a step, and builds run between them unless the operator *)
(* keeps them apart.                                                       *)
(***************************************************************************)
EXTENDS Publication, Naturals

CONSTANTS Options,     \* the flag sets the doctor is run with
          Regimes      \* what operators may do, see regime

ASSUME OptionsAssumption == Options \subseteq SUBSET {"repair", "forceUnlock"}
ASSUME RegimesAssumption == Regimes \subseteq {"stopped", "racing"}

VARIABLES dpc,       \* the doctor's next call
          flags,     \* --repair, --force-unlock
          pairIndex, \* the generation of the index it loaded
          pairValid, \* report.pair_valid
          report,    \* kind -> what inspect_lock found
          leftovers, \* report.leftovers, those still to be looked at
          regime     \* "stopped": the operator stops all builds first and
                     \* starts none until the doctor has returned
                     \* (README.md:457); "racing": the operator does not

doctor  == <<dpc, flags, pairIndex, pairValid, report, leftovers>>
doctorVars == <<vars, doctor, regime>>

LockReports == {"missing", "running", "absent", "unknown"}

DoctorInit ==
  /\ Init
  /\ dpc = "idle"
  /\ flags = {}
  /\ pairIndex = None
  /\ pairValid = FALSE
  /\ report = [k \in Kinds |-> "missing"]
  /\ leftovers = {}
  /\ regime \in Regimes

\* A build process exists from its start until it returns or is killed.
ProcessExists(b) == pc[b] \notin {"idle", "done", "killed"}
Quiet == \A b \in Builders : ~ProcessExists(b)

LockPresent == \E k \in Kinds : report[k] # "missing"

Step(from, to) == dpc = from /\ dpc' = to

Begin ==
  /\ Step("idle", "loadIndex")
  /\ regime = "stopped" => Quiet
  /\ flags' \in Options
  /\ UNCHANGED <<vars, pairIndex, pairValid, report, leftovers>>

\* Index::load, then DocumentStore::open and validate_document_store.  A file
\* that the presence tests missed and any failure leave pair_valid false.
LoadLiveIndex ==
  /\ Step("loadIndex", "openDocuments")
  /\ pairIndex' = dir[Live("index")]
  /\ UNCHANGED <<vars, flags, pairValid, report, leftovers>>

OpenLiveDocuments ==
  /\ Step("openDocuments", "inspectIndex")
  /\ pairValid' \in {FALSE, Matches(pairIndex, dir[Live("docs")])}
  /\ pairIndex' = None
  /\ UNCHANGED <<vars, flags, report, leftovers>>

\* inspect_lock: is the directory there, whom does its descriptor name, does
\* that process exist.  A pid that was recycled makes a dead owner "running".
Inspect(k, from, to) ==
  /\ Step(from, to)
  /\ \/ lock[k] = None /\ report' = [report EXCEPT ![k] = "missing"]
     \/ /\ lock[k] # None /\ owner[k] = None
        /\ report' = [report EXCEPT ![k] = "unknown"]
     \/ /\ owner[k] # None
        /\ report' = [report EXCEPT ![k] = "running"]
     \/ /\ owner[k] # None /\ ~ProcessExists(owner[k])
        /\ report' = [report EXCEPT ![k] = "absent"]
  /\ UNCHANGED <<vars, flags, pairIndex, pairValid, leftovers>>

InspectIndexLock == Inspect("index", "inspectIndex", "inspectDocs")
InspectDocsLock  == Inspect("docs", "inspectDocs", "collect")

IsLeftover(p) == p[1] \in {"tmp", "bak"} /\ dir[p] # None

CollectLeftovers ==
  /\ Step("collect", "decide")
  /\ leftovers' = {p \in Paths : IsLeftover(p)}
  /\ UNCHANGED <<vars, flags, pairIndex, pairValid, report>>

\* Every refusal comes before the first removal.
Refused == "forceUnlock" \in flags /\ \E k \in Kinds : report[k] = "running"

Decide ==
  /\ dpc = "decide"
  /\ IF Refused THEN dpc' = "return" /\ leftovers' = {}
     ELSE IF "repair" \in flags THEN dpc' = "repair" /\ UNCHANGED leftovers
     ELSE dpc' = "unlockIndex" /\ leftovers' = {}
  /\ UNCHANGED <<vars, flags, pairIndex, pairValid, report>>

\* Mutant of Removable: backups go like temporaries.
RemovableWhenUnlocked(p) == ~LockPresent

\* What the report says may go: nothing while it shows a lock, a backup only
\* when it shows a valid pair.
Removable(p) == ~LockPresent /\ (p[1] = "bak" => pairValid)

\* collect_leftovers sorts by path: P.docs.bak.*, P.docs.tmp.*, P.leann.bak.*,
\* P.leann.tmp.*; the tokens behind that are random.
Rank(p) == (IF p[2] = "docs" THEN 0 ELSE 2) + (IF p[1] = "bak" THEN 0 ELSE 1)

\* One leftover of the loop; remove() may fail, which keeps the file.
Repair(p) ==
  /\ dpc = "repair" /\ p \in leftovers
  /\ \A q \in leftovers : Rank(p) <= Rank(q)
  /\ leftovers' = leftovers \ {p}
  /\ \/ Removable(p) /\ Remove(p)
     \/ UNCHANGED dir
  /\ UNCHANGED <<locks, pc, publishing, ends,
                 dpc, flags, pairIndex, pairValid, report>>

RepairDone ==
  /\ dpc = "repair" /\ leftovers = {}
  /\ dpc' = "unlockIndex"
  /\ UNCHANGED <<vars, flags, pairIndex, pairValid, report, leftovers>>

\* --force-unlock: the descriptor and then the directory of each lock that
\* the report shows, index first; a directory that is not empty stays.
Unlocks(k) == "forceUnlock" \in flags /\ report[k] # "missing"

RemoveDescriptor(k, from, to, skip) ==
  /\ dpc = from
  /\ IF Unlocks(k)
       THEN /\ dpc' = to
            /\ owner' \in {owner, [owner EXCEPT ![k] = None]}
       ELSE dpc' = skip /\ UNCHANGED owner
  /\ UNCHANGED <<dir, lock, held, pc, publishing, ends,
                 flags, pairIndex, pairValid, report, leftovers>>

RemoveLock(k, from, to) ==
  /\ Step(from, to)
  /\ \/ owner[k] = None /\ lock' = [lock EXCEPT ![k] = None]
     \/ UNCHANGED lock
  /\ UNCHANGED <<dir, owner, held, pc, publishing, ends,
                 flags, pairIndex, pairValid, report, leftovers>>

UnlockIndex ==
  \/ RemoveDescriptor("index", "unlockIndex", "rmdirIndex", "unlockDocs")
  \/ RemoveLock("index", "rmdirIndex", "unlockDocs")

UnlockDocs ==
  \/ RemoveDescriptor("docs", "unlockDocs", "rmdirDocs", "return")
  \/ RemoveLock("docs", "rmdirDocs", "return")

\* The command returns; earlier than that the scan of the directory may throw
\* or the process be killed.
Forget ==
  /\ dpc' = "idle"
  /\ flags' = {}
  /\ pairIndex' = None
  /\ pairValid' = FALSE
  /\ report' = [k \in Kinds |-> "missing"]
  /\ leftovers' = {}
  /\ UNCHANGED vars

Return == dpc = "return" /\ Forget
Killed == dpc \notin {"idle", "return"} /\ Forget

Doctor == \/ Begin \/ LoadLiveIndex \/ OpenLiveDocuments
          \/ InspectIndexLock \/ InspectDocsLock \/ CollectLeftovers \/ Decide
          \/ (\E p \in Paths : Repair(p)) \/ RepairDone
          \/ UnlockIndex \/ UnlockDocs \/ Return \/ Killed

DoctorNext ==
  /\ \/ Doctor
     \/ \E b \in Builders : /\ Build(b)
                            /\ regime = "stopped" => dpc = "idle"
                            /\ UNCHANGED doctor
  /\ UNCHANGED regime

DoctorSpec == DoctorInit /\ [][DoctorNext]_doctorVars

-----------------------------------------------------------------------------
DoctorTypeOK ==
  /\ dpc \in {"idle", "loadIndex", "openDocuments", "inspectIndex",
              "inspectDocs", "collect", "decide", "repair", "unlockIndex",
              "rmdirIndex", "unlockDocs", "rmdirDocs", "return"}
  /\ flags \in SUBSET {"repair", "forceUnlock"}
  /\ pairIndex \in Contents
  /\ pairValid \in BOOLEAN
  /\ report \in [Kinds -> LockReports]
  /\ leftovers \in SUBSET Paths
  /\ regime \in Regimes

\* A complete pair that is on disk is never lost, neither to a build, however
\* it fails, nor to a repair or an unlock after any number of killed builds.
PairSurvives == [][Complete # {} => Complete' # {}]_doctorVars

\* What does hold of a repair: it is never lost where the operator stops the builds
\* first, as README.md:457 asks, and a repair that builds run into, which may lose
\* it, still makes no mixed pair public (and the state stays well typed, which the
\* run checks along with it).
RepairIsSafe ==
  /\ [][regime = "stopped" /\ Complete # {} => Complete' # {}]_doctorVars
  /\ [](LivePairMatches /\ DoctorTypeOK)
=============================================================================
