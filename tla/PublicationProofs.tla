-------------------------- MODULE PublicationProofs --------------------------
(***************************************************************************)
(* Theorems about Publication, for any set of builders and any assignment  *)
(* of corpora to generations, and about IndexPrefix: the search sessions   *)
(* of any set of readers and `leann doctor', with any sets of flags, next  *)
(* to those builds.                                                        *)
(***************************************************************************)
EXTENDS IndexPrefix, TLAPS

\* The path constructors yield paths, and different ones.
LEMMA PathsDistinct ==
  /\ \A k \in Kinds : Live(k) \in Paths
  /\ \A b \in Builders, k \in Kinds : Tmp(b, k) \in Paths /\ Bak(b, k) \in Paths
  /\ \A b, c \in Builders, k, l \in Kinds :
       /\ Tmp(b, k) # Live(l)
       /\ Bak(b, k) # Live(l)
       /\ Tmp(b, k) # Bak(c, l)
       /\ b # c \/ k # l => Tmp(b, k) # Tmp(c, l) /\ Bak(b, k) # Bak(c, l)
  /\ Live("index") # Live("docs")
BY DEF Live, Tmp, Bak, Paths, Kinds

LEMMA TypeInit == Init => TypeOK
BY DEF Init, TypeOK, Paths, Contents, Gens, Kinds, PCs, Outcomes

\* A step of one build keeps every variable in its type.
LEMMA TypeStep ==
  ASSUME TypeOK, NEW b \in Builders, Build(b)
  PROVE  TypeOK'
<1> USE PathsDistinct DEF TypeOK, At, Goto, locks, publishing, ends,
    PCs, Acquiring, Preparing, Installing, RollingBack, CleaningUp, Unwinding
<1>1. CASE Start(b)
  BY <1>1 DEF Start
<1>2. CASE AcquireDocs(b)
  BY <1>2 DEF AcquireDocs, Acquire, Kinds
<1>3. CASE RefuseDocs(b)
  BY <1>3 DEF RefuseDocs, Refuse, End, Outcomes
<1>4. CASE DescribeDocs(b)
  BY <1>4 DEF DescribeDocs, Describe, Kinds
<1>5. CASE AcquireIndex(b)
  BY <1>5 DEF AcquireIndex, Acquire, Kinds
<1>6. CASE RefuseIndex(b)
  BY <1>6 DEF RefuseIndex, Refuse, End, Outcomes
<1>7. CASE DescribeIndex(b)
  BY <1>7 DEF DescribeIndex, Describe, Kinds
<1>8. CASE ChoosePaths(b)
  BY <1>8 DEF ChoosePaths, Proceed, End, Outcomes
<1>9. CASE Cancel(b)
  BY <1>9 DEF Cancel, Unwind, End, Outcomes
<1>10. CASE Fail(b)
  BY <1>10 DEF Fail, Unwind, End, Outcomes
<1>11. CASE CreateDocs(b)
  BY <1>11 DEF CreateDocs, CreateTmp, Proceed, Contents, Kinds
<1>12. CASE FinishDocs(b)
  BY <1>12 DEF FinishDocs, FinishTmp, Proceed, Contents, Gens, Kinds
<1>13. CASE Embed(b)
  BY <1>13 DEF Embed, Proceed
<1>14. CASE CreateIndex(b)
  BY <1>14 DEF CreateIndex, CreateTmp, Proceed, Contents, Kinds
<1>15. CASE FinishIndex(b)
  BY <1>15 DEF FinishIndex, FinishTmp, Proceed, Contents, Gens, Kinds
<1>16. CASE Verify(b)
  BY <1>16 DEF Verify, Proceed
<1>17. CASE EnterPublication(b)
  BY <1>17 DEF EnterPublication, Proceed
<1>18. CASE ProbeIndex(b)
  BY <1>18 DEF ProbeIndex, Probe, Kinds
<1>19. CASE ProbeDocs(b)
  BY <1>19 DEF ProbeDocs, Probe, Kinds
<1>20. CASE ProbeDocsFails(b)
  BY <1>20 DEF ProbeDocsFails, End, LeavePublish, Outcomes
<1>21. CASE BackupIndex(b)
  BY <1>21 DEF BackupIndex, Backup, Rename, Contents, Kinds
<1>22. CASE BackupDocs(b)
  BY <1>22 DEF BackupDocs, Backup, Rename, Contents, Kinds
<1>23. CASE InstallDocs(b)
  BY <1>23 DEF InstallDocs, Rename, Proceed, Contents, Kinds
<1>24. CASE InstallIndex(b)
  BY <1>24 DEF InstallIndex, Rename, End, Outcomes, Contents, Kinds
<1>25. CASE InstallFails(b)
  BY <1>25 DEF InstallFails
<1>26. CASE WithdrawDocs(b)
  BY <1>26 DEF WithdrawDocs, Rename, Contents, Kinds
<1>27. CASE DiscardDocs(b)
  BY <1>27 DEF DiscardDocs, Remove, Contents, Kinds
<1>28. CASE RestoreDocs(b)
  BY <1>28 DEF RestoreDocs, Rename, Contents, Kinds
<1>29. CASE RestoreIndex(b)
  <2>1. dir' \in [Paths -> Contents]
    BY <1>29 DEF RestoreIndex, Rename, Contents, Kinds
  <2>2. ASSUME NEW errors \in BOOLEAN, ThrowAfterRollback(b, errors)
        PROVE  /\ pc' \in [Builders -> PCs]
               /\ outcome' \in [Builders -> Outcomes]
               /\ had' \in [Builders -> SUBSET Kinds]
               /\ saved' \in [Builders -> SUBSET Kinds]
               /\ rollbackError' \in [Builders -> BOOLEAN]
    BY <2>2 DEF ThrowAfterRollback, LeavePublish, End, Outcomes
  <2>3. \E errors \in BOOLEAN : ThrowAfterRollback(b, errors)
    BY <1>29 DEF RestoreIndex
  <2>. QED
    BY <1>29, <2>1, <2>2, <2>3 DEF RestoreIndex
<1>30. CASE CleanIndex(b)
  BY <1>30 DEF CleanIndex, Clean, Remove, End, Outcomes, Contents, Kinds
<1>31. CASE CleanDocs(b)
  <2>1. pc' \in [Builders -> PCs]
    BY <1>31 DEF CleanDocs
  <2>2. dir' \in [Paths -> Contents] /\ outcome' \in [Builders -> Outcomes]
    BY <1>31 DEF CleanDocs, Clean, Remove, End, Outcomes, Contents, Kinds
  <2>3. /\ had' \in [Builders -> SUBSET Kinds]
        /\ saved' \in [Builders -> SUBSET Kinds]
        /\ rollbackError' \in [Builders -> BOOLEAN]
    BY <1>31 DEF CleanDocs, LeavePublish
  <2>. QED
    BY <1>31, <2>1, <2>2, <2>3 DEF CleanDocs, Clean
<1>32. CASE DropTmpIndex(b)
  BY <1>32 DEF DropTmpIndex, DropTmp, Remove, Contents, Kinds
<1>33. CASE DropTmpDocs(b)
  BY <1>33 DEF DropTmpDocs, DropTmp, Remove, Contents, Kinds
<1>34. CASE Disown(b)
  BY <1>34 DEF Disown, LastHeld, Kinds
<1>35. CASE Unlock(b)
  <2>1. LastHeld(b) \in Kinds
    BY DEF LastHeld, Kinds
  <2>2. \A how : AfterUnlock(b, how) \in PCs
    BY DEF AfterUnlock
  <2>3. pc' \in [Builders -> PCs]
    BY <1>35, <2>2 DEF Unlock
  <2>4. /\ held' \in [Builders -> SUBSET Kinds]
        /\ lock' \in [Kinds -> Builders \cup {None}]
    BY <1>35, <2>1 DEF Unlock
  <2>5. /\ outcome' \in [Builders -> Outcomes]
        /\ swallowed' \in [Builders -> BOOLEAN]
    BY <1>35 DEF Unlock, End, Outcomes
  <2>. QED
    BY <1>35, <2>3, <2>4, <2>5 DEF Unlock
<1>36. CASE Kill(b)
  BY <1>36 DEF Kill, LeavePublish
<1>. QED
  BY <1>1, <1>2, <1>3, <1>4, <1>5, <1>6, <1>7, <1>8, <1>9,
     <1>10, <1>11, <1>12, <1>13, <1>14, <1>15, <1>16, <1>17, <1>18,
     <1>19, <1>20, <1>21, <1>22, <1>23, <1>24, <1>25, <1>26, <1>27,
     <1>28, <1>29, <1>30, <1>31, <1>32, <1>33, <1>34, <1>35, <1>36
     DEF Build, Run

THEOREM TypeCorrect == Spec => []TypeOK
<1>1. TypeOK /\ [Next]_vars => TypeOK'
  <2>1. ASSUME TypeOK, Next PROVE TypeOK'
    BY <2>1, TypeStep DEF Next, Terminating, vars, TypeOK
  <2>2. ASSUME TypeOK, UNCHANGED vars PROVE TypeOK'
    BY <2>2 DEF vars, TypeOK
  <2>. QED  BY <2>1, <2>2
<1>. QED  BY TypeInit, <1>1, PTL DEF Spec

-----------------------------------------------------------------------------
LEMMA LocksInit == Init => LocksHeld
BY DEF Init, LocksHeld, Critical, Preparing, Installing, RollingBack, CleaningUp

\* A step of one build keeps the bookkeeping of all locks.
LEMMA LocksStep ==
  ASSUME TypeOK, LocksHeld, NEW b \in Builders, Build(b)
  PROVE  LocksHeld'
<1> USE DEF TypeOK, LocksHeld, Critical, Kinds, At, Goto, locks, PCs, Acquiring,
    Preparing, Installing, RollingBack, CleaningUp, Unwinding
<1>1. CASE Start(b)
  BY <1>1 DEF Start
<1>2. CASE AcquireDocs(b)
  <2>1. \A c \in Builders : "docs" \notin held[c]
    BY <1>2, Distinct DEF AcquireDocs, Acquire, Gens
  <2>2. /\ held' = [held EXCEPT ![b] = @ \cup {"docs"}]
        /\ lock' = [lock EXCEPT !["docs"] = b]
    BY <1>2 DEF AcquireDocs, Acquire
  <2>3. \A c \in Builders : \A l \in held'[c] : lock'[l] = c
    BY <2>1, <2>2
  <2>. QED
    BY <1>2, <2>2, <2>3 DEF AcquireDocs, Acquire
<1>3. CASE RefuseDocs(b)
  BY <1>3 DEF RefuseDocs, Refuse
<1>4. CASE DescribeDocs(b)
  BY <1>4 DEF DescribeDocs, Describe
<1>5. CASE AcquireIndex(b)
  <2>1. \A c \in Builders : "index" \notin held[c]
    BY <1>5, Distinct DEF AcquireIndex, Acquire, Gens
  <2>2. /\ held' = [held EXCEPT ![b] = @ \cup {"index"}]
        /\ lock' = [lock EXCEPT !["index"] = b]
    BY <1>5 DEF AcquireIndex, Acquire
  <2>3. \A c \in Builders : \A l \in held'[c] : lock'[l] = c
    BY <2>1, <2>2
  <2>. QED
    BY <1>5, <2>2, <2>3 DEF AcquireIndex, Acquire
<1>6. CASE RefuseIndex(b)
  BY <1>6 DEF RefuseIndex, Refuse
<1>7. CASE DescribeIndex(b)
  BY <1>7 DEF DescribeIndex, Describe
<1>8. CASE ChoosePaths(b)
  BY <1>8 DEF ChoosePaths, Proceed
<1>9. CASE Cancel(b)
  BY <1>9 DEF Cancel, Unwind
<1>10. CASE Fail(b)
  BY <1>10 DEF Fail, Unwind
<1>11. CASE CreateDocs(b)
  BY <1>11 DEF CreateDocs, CreateTmp, Proceed
<1>12. CASE FinishDocs(b)
  BY <1>12 DEF FinishDocs, FinishTmp, Proceed
<1>13. CASE Embed(b)
  BY <1>13 DEF Embed, Proceed
<1>14. CASE CreateIndex(b)
  BY <1>14 DEF CreateIndex, CreateTmp, Proceed
<1>15. CASE FinishIndex(b)
  BY <1>15 DEF FinishIndex, FinishTmp, Proceed
<1>16. CASE Verify(b)
  BY <1>16 DEF Verify, Proceed
<1>17. CASE EnterPublication(b)
  BY <1>17 DEF EnterPublication, Proceed
<1>18. CASE ProbeIndex(b)
  BY <1>18 DEF ProbeIndex, Probe
<1>19. CASE ProbeDocs(b)
  BY <1>19 DEF ProbeDocs, Probe
<1>20. CASE ProbeDocsFails(b)
  BY <1>20 DEF ProbeDocsFails
<1>21. CASE BackupIndex(b)
  BY <1>21 DEF BackupIndex, Backup
<1>22. CASE BackupDocs(b)
  BY <1>22 DEF BackupDocs, Backup
<1>23. CASE InstallDocs(b)
  BY <1>23 DEF InstallDocs, Proceed
<1>24. CASE InstallIndex(b)
  BY <1>24 DEF InstallIndex
<1>25. CASE InstallFails(b)
  BY <1>25 DEF InstallFails
<1>26. CASE WithdrawDocs(b)
  BY <1>26 DEF WithdrawDocs
<1>27. CASE DiscardDocs(b)
  BY <1>27 DEF DiscardDocs
<1>28. CASE RestoreDocs(b)
  BY <1>28 DEF RestoreDocs
<1>29. CASE RestoreIndex(b)
  BY <1>29 DEF RestoreIndex, ThrowAfterRollback
<1>30. CASE CleanIndex(b)
  BY <1>30 DEF CleanIndex, Clean
<1>31. CASE CleanDocs(b)
  BY <1>31 DEF CleanDocs, Clean
<1>32. CASE DropTmpIndex(b)
  BY <1>32 DEF DropTmpIndex, DropTmp
<1>33. CASE DropTmpDocs(b)
  BY <1>33 DEF DropTmpDocs, DropTmp
<1>34. CASE Disown(b)
  BY <1>34 DEF Disown
<1>35. CASE Unlock(b)
  BY <1>35 DEF Unlock, LastHeld, AfterUnlock
<1>36. CASE Kill(b)
  BY <1>36 DEF Kill
<1>. QED
  BY <1>1, <1>2, <1>3, <1>4, <1>5, <1>6, <1>7, <1>8, <1>9,
     <1>10, <1>11, <1>12, <1>13, <1>14, <1>15, <1>16, <1>17, <1>18,
     <1>19, <1>20, <1>21, <1>22, <1>23, <1>24, <1>25, <1>26, <1>27,
     <1>28, <1>29, <1>30, <1>31, <1>32, <1>33, <1>34, <1>35, <1>36
     DEF Build, Run

LEMMA Exclusion ==
  ASSUME TypeOK, LocksHeld
  PROVE  MutualExclusion
BY DEF TypeOK, LocksHeld, MutualExclusion, Kinds

-----------------------------------------------------------------------------
\* A step of one build leaves the temporaries, the backups and the local
\* variables of every other build alone, and moves a file under a public name
\* only between taking and giving back the locks.
LEMMA Frame ==
  ASSUME TypeOK, NEW b \in Builders, Build(b), NEW c \in Builders, b # c
  PROVE  /\ pc'[c] = pc[c] /\ had'[c] = had[c] /\ saved'[c] = saved[c]
         /\ rollbackError'[c] = rollbackError[c]
         /\ \A k \in Kinds : /\ dir'[Tmp(c, k)] = dir[Tmp(c, k)]
                             /\ dir'[Bak(c, k)] = dir[Bak(c, k)]
                             /\ ~Critical(b) => dir'[Live(k)] = dir[Live(k)]
<1> USE PathsDistinct DEF TypeOK, At, Goto, locks, publishing, ends, Critical,
    Preparing, Installing, RollingBack, CleaningUp, Kinds
<1>1. CASE Start(b) \/ AcquireDocs(b) \/ RefuseDocs(b) \/ DescribeDocs(b)
           \/ AcquireIndex(b) \/ RefuseIndex(b) \/ DescribeIndex(b)
  BY <1>1 DEF Start, AcquireDocs, AcquireIndex, Acquire, RefuseDocs, RefuseIndex,
       Refuse, DescribeDocs, DescribeIndex, Describe
<1>2. CASE ChoosePaths(b) \/ Cancel(b) \/ Fail(b) \/ Embed(b) \/ Verify(b)
           \/ EnterPublication(b)
  BY <1>2 DEF ChoosePaths, Cancel, Fail, Embed, Verify, EnterPublication, Unwind,
       Proceed
<1>3. CASE CreateDocs(b) \/ FinishDocs(b) \/ CreateIndex(b) \/ FinishIndex(b)
  BY <1>3 DEF CreateDocs, FinishDocs, CreateIndex, FinishIndex, CreateTmp,
       FinishTmp, Proceed
<1>4. CASE ProbeIndex(b) \/ ProbeDocs(b) \/ ProbeDocsFails(b) \/ InstallFails(b)
  BY <1>4 DEF ProbeIndex, ProbeDocs, ProbeDocsFails, Probe, InstallFails, LeavePublish
<1>5. CASE BackupIndex(b) \/ BackupDocs(b)
  BY <1>5 DEF BackupIndex, BackupDocs, Backup, Rename
<1>6. CASE InstallDocs(b) \/ InstallIndex(b)
  BY <1>6 DEF InstallDocs, InstallIndex, Rename, Proceed
<1>7. CASE WithdrawDocs(b) \/ DiscardDocs(b)
  BY <1>7 DEF WithdrawDocs, DiscardDocs, Rename, Remove
<1>8. CASE RestoreDocs(b)
  BY <1>8 DEF RestoreDocs, Rename
<1>9. CASE RestoreIndex(b)
  BY <1>9 DEF RestoreIndex, ThrowAfterRollback, LeavePublish, Rename
<1>10. CASE CleanIndex(b) \/ CleanDocs(b)
  BY <1>10 DEF CleanIndex, CleanDocs, Clean, Remove, LeavePublish
<1>11. CASE DropTmpIndex(b) \/ DropTmpDocs(b)
  BY <1>11 DEF DropTmpIndex, DropTmpDocs, DropTmp, Remove
<1>12. CASE Disown(b) \/ Unlock(b) \/ Kill(b)
  BY <1>12 DEF Disown, Unlock, Kill, LeavePublish
<1>. QED
  BY <1>1, <1>2, <1>3, <1>4, <1>5, <1>6, <1>7, <1>8, <1>9, <1>10, <1>11, <1>12
     DEF Build, Run

\* What the invariant says of a build holds still while another one moves.
LEMMA OthersKeep ==
  ASSUME TypeOK, LocksHeld, Transaction,
         NEW b \in Builders, Build(b), NEW c \in Builders, b # c
  PROVE  (BeforeBackup(c) /\ Uncommitted(c) /\ Restorable(c))'
<1>1. Critical(c) => \A k \in Kinds : dir'[Live(k)] = dir[Live(k)]
  BY Frame, Exclusion DEF MutualExclusion
<1>2. BeforeBackup(c)'
  BY <1>1, Frame DEF Transaction, BeforeBackup, Critical, Installing, Kinds
<1>3. Uncommitted(c)'
  BY <1>1, Frame DEF Transaction, Uncommitted, Critical, Installing, RollingBack,
     Kinds
<1>4. Restorable(c)'
  BY <1>1, Frame DEF Transaction, Restorable, Critical, Installing, RollingBack,
     Kinds
<1>. QED  BY <1>2, <1>3, <1>4

LEMMA PairInit == Init => PairInv
BY Distinct, PathsDistinct
   DEF Init, PairInv, FilesComplete, Transaction, BeforeBackup, Uncommitted,
       Restorable, OfOneBuild, Gens, Kinds, Live, Tmp, Bak, Paths,
       Installing, RollingBack, CleaningUp

\* A step of one build leaves only complete files where the invariant wants them.
LEMMA FilesStep ==
  ASSUME TypeOK, PairInv, NEW b \in Builders, Build(b)
  PROVE  FilesComplete'
<1> DEFINE
      Written(c) ==
        /\ pc[c] \in {"embed", "indexCreate", "indexWrite", "verify",
                      "commitPoint"} \cup (Installing \ {"installIndex"})
             => dir[Tmp(c, "docs")] \in {c, None}
        /\ pc[c] \in {"verify", "commitPoint"} \cup Installing
             => dir[Tmp(c, "index")] \in {c, None}
      Published == \A k \in Kinds : dir[Live(k)] \in Gens \cup {None}
      Parked == \A k \in Kinds : dir[Bak(b, k)] \in Gens \cup {None}
<1>1. SUFFICES Published' /\ Parked' /\ Written(b)'
  BY Frame DEF PairInv, FilesComplete, Installing, Kinds
<1>2. Published /\ Parked /\ Written(b)
  BY DEF PairInv, FilesComplete
<1> USE <1>2, PathsDistinct, Distinct DEF TypeOK, At, Goto, locks, publishing, ends,
    Gens, Contents, Installing, Kinds
<1>3. CASE Start(b) \/ AcquireDocs(b) \/ RefuseDocs(b) \/ DescribeDocs(b)
           \/ AcquireIndex(b) \/ RefuseIndex(b) \/ DescribeIndex(b)
  BY <1>3 DEF Start, AcquireDocs, AcquireIndex, Acquire, RefuseDocs, RefuseIndex,
       Refuse, DescribeDocs, DescribeIndex, Describe
<1>4. CASE ChoosePaths(b) \/ Cancel(b) \/ Fail(b) \/ Embed(b)
  BY <1>4 DEF ChoosePaths, Cancel, Fail, Embed, Unwind, Proceed
<1>5. CASE Verify(b) \/ EnterPublication(b)
  BY <1>5 DEF Verify, EnterPublication, Proceed
<1>6. CASE CreateDocs(b) \/ CreateIndex(b)
  BY <1>6 DEF CreateDocs, CreateIndex, CreateTmp, Proceed
<1>7. CASE FinishDocs(b) \/ FinishIndex(b)
  BY <1>7 DEF FinishDocs, FinishIndex, FinishTmp, Proceed
<1>8. CASE ProbeIndex(b) \/ ProbeDocs(b) \/ ProbeDocsFails(b) \/ InstallFails(b)
  BY <1>8 DEF ProbeIndex, ProbeDocs, ProbeDocsFails, Probe, InstallFails, LeavePublish
<1>9. CASE BackupIndex(b) \/ BackupDocs(b)
  BY <1>9 DEF BackupIndex, BackupDocs, Backup, Rename
<1>10. CASE InstallDocs(b) \/ InstallIndex(b)
  BY <1>10 DEF InstallDocs, InstallIndex, Rename, Proceed
<1>11. CASE WithdrawDocs(b) \/ DiscardDocs(b)
  BY <1>11 DEF WithdrawDocs, DiscardDocs, Rename, Remove
<1>12. CASE RestoreDocs(b)
  BY <1>12 DEF RestoreDocs, Rename
<1>13. CASE RestoreIndex(b)
  BY <1>13 DEF RestoreIndex, ThrowAfterRollback, Rename
<1>14. CASE CleanIndex(b) \/ CleanDocs(b)
  BY <1>14 DEF CleanIndex, CleanDocs, Clean, Remove
<1>15. CASE DropTmpIndex(b) \/ DropTmpDocs(b)
  BY <1>15 DEF DropTmpIndex, DropTmpDocs, DropTmp, Remove
<1>16. CASE Disown(b) \/ Unlock(b) \/ Kill(b)
  BY <1>16 DEF Disown, Unlock, AfterUnlock, Kill
<1>. QED
  BY <1>1, <1>3, <1>4, <1>5, <1>6, <1>7, <1>8, <1>9, <1>10, <1>11, <1>12, <1>13,
     <1>14, <1>15, <1>16
     DEF Build, Run

\* A step of one build keeps what the invariant says of its own transaction,
\* and never leaves two public files of different corpora.
LEMMA OwnStep ==
  ASSUME TypeOK, PairInv, NEW b \in Builders, Build(b)
  PROVE  (BeforeBackup(b) /\ Uncommitted(b) /\ Restorable(b)
          /\ OfOneBuild(dir[Live("index")], dir[Live("docs")]))'
<1>0. /\ BeforeBackup(b) /\ Uncommitted(b) /\ Restorable(b)
      /\ OfOneBuild(dir[Live("index")], dir[Live("docs")]) /\ FilesComplete
  BY DEF PairInv, Transaction
<1> USE <1>0, PathsDistinct, Distinct DEF TypeOK, At, Goto, locks, publishing, ends,
    BeforeBackup, Uncommitted, Restorable, OfOneBuild, Installing,
    RollingBack, CleaningUp, Kinds
<1>1. CASE Start(b) \/ AcquireDocs(b) \/ RefuseDocs(b) \/ DescribeDocs(b)
           \/ AcquireIndex(b) \/ RefuseIndex(b) \/ DescribeIndex(b)
  BY <1>1 DEF Start, AcquireDocs, AcquireIndex, Acquire, RefuseDocs, RefuseIndex,
       Refuse, DescribeDocs, DescribeIndex, Describe
<1>2. CASE ChoosePaths(b) \/ Cancel(b) \/ Fail(b) \/ Embed(b) \/ Verify(b)
           \/ EnterPublication(b)
  BY <1>2 DEF ChoosePaths, Cancel, Fail, Embed, Verify, EnterPublication, Unwind,
       Proceed
<1>3. CASE CreateDocs(b) \/ CreateIndex(b)
  BY <1>3 DEF CreateDocs, CreateIndex, CreateTmp, Proceed
<1>4. CASE FinishDocs(b) \/ FinishIndex(b)
  BY <1>4 DEF FinishDocs, FinishIndex, FinishTmp, Proceed
<1>5. CASE ProbeIndex(b) \/ ProbeDocs(b) \/ ProbeDocsFails(b)
  BY <1>5 DEF ProbeIndex, ProbeDocs, ProbeDocsFails, Probe, LeavePublish
<1>6. CASE BackupIndex(b)
  BY <1>6 DEF BackupIndex, Backup, Rename
<1>7. CASE BackupDocs(b)
  BY <1>7 DEF BackupDocs, Backup, Rename
<1>8. CASE InstallDocs(b)
  BY <1>8 DEF InstallDocs, Rename, Proceed, FilesComplete
<1>9. CASE InstallIndex(b)
  BY <1>9 DEF InstallIndex, Rename, FilesComplete, Matches, Gens
<1>10. CASE InstallFails(b)
  BY <1>10 DEF InstallFails
<1>11. CASE WithdrawDocs(b)
  BY <1>11 DEF WithdrawDocs, Rename
<1>12. CASE DiscardDocs(b)
  BY <1>12 DEF DiscardDocs, Remove
<1>13. CASE RestoreDocs(b)
  BY <1>13 DEF RestoreDocs, Rename
<1>14. CASE RestoreIndex(b)
  BY <1>14 DEF RestoreIndex, Rename, ThrowAfterRollback, LeavePublish
<1>15. CASE CleanIndex(b) \/ CleanDocs(b)
  BY <1>15 DEF CleanIndex, CleanDocs, Clean, Remove, LeavePublish
<1>16. CASE DropTmpIndex(b) \/ DropTmpDocs(b)
  BY <1>16 DEF DropTmpIndex, DropTmpDocs, DropTmp, Remove
<1>17. CASE Disown(b) \/ Unlock(b) \/ Kill(b)
  BY <1>17 DEF Disown, Unlock, AfterUnlock, Kill, LeavePublish
<1>. QED
  BY <1>1, <1>2, <1>3, <1>4, <1>5, <1>6, <1>7, <1>8, <1>9, <1>10, <1>11, <1>12,
     <1>13, <1>14, <1>15, <1>16, <1>17
     DEF Build, Run

LEMMA PairStep ==
  ASSUME TypeOK, LocksHeld, PairInv, NEW b \in Builders, Build(b)
  PROVE  PairInv'
BY FilesStep, OwnStep, OthersKeep DEF PairInv, Transaction

\* Two complete files of one build carry the same identity.
LEMMA OneBuildMatches == PairInv => LivePairMatches
BY DEF PairInv, FilesComplete, OfOneBuild, LivePairMatches, Matches, Kinds

-----------------------------------------------------------------------------
\* A step of one build changes how another one ends no more than its files, and
\* gives no lock directory to it.
LEMMA FrameEnds ==
  ASSUME TypeOK, NEW b \in Builders, Build(b), NEW c \in Builders, b # c
  PROVE  /\ outcome'[c] = outcome[c] /\ swallowed'[c] = swallowed[c]
         /\ held'[c] = held[c]
         /\ \A k \in Kinds : lock'[k] = c => lock[k] = c
<1> USE Distinct DEF TypeOK, At, End, ends, locks, publishing, Gens, Kinds
<1>1. CASE Start(b) \/ AcquireDocs(b) \/ RefuseDocs(b) \/ DescribeDocs(b)
           \/ AcquireIndex(b) \/ RefuseIndex(b) \/ DescribeIndex(b)
  BY <1>1 DEF Start, AcquireDocs, AcquireIndex, Acquire, RefuseDocs, RefuseIndex,
       Refuse, DescribeDocs, DescribeIndex, Describe
<1>2. CASE ChoosePaths(b) \/ Cancel(b) \/ Fail(b) \/ Embed(b) \/ Verify(b)
           \/ EnterPublication(b)
  BY <1>2 DEF ChoosePaths, Cancel, Fail, Embed, Verify, EnterPublication, Unwind,
       Proceed
<1>3. CASE CreateDocs(b) \/ FinishDocs(b) \/ CreateIndex(b) \/ FinishIndex(b)
  BY <1>3 DEF CreateDocs, FinishDocs, CreateIndex, FinishIndex, CreateTmp,
       FinishTmp, Proceed
<1>4. CASE ProbeIndex(b) \/ ProbeDocs(b) \/ ProbeDocsFails(b) \/ InstallFails(b)
  BY <1>4 DEF ProbeIndex, ProbeDocs, ProbeDocsFails, Probe, InstallFails
<1>5. CASE BackupIndex(b) \/ BackupDocs(b) \/ InstallDocs(b) \/ InstallIndex(b)
  BY <1>5 DEF BackupIndex, BackupDocs, Backup, InstallDocs, InstallIndex, Proceed
<1>6. CASE WithdrawDocs(b) \/ DiscardDocs(b) \/ RestoreDocs(b) \/ RestoreIndex(b)
  BY <1>6 DEF WithdrawDocs, DiscardDocs, RestoreDocs, RestoreIndex,
       ThrowAfterRollback
<1>7. CASE CleanIndex(b) \/ CleanDocs(b) \/ DropTmpIndex(b) \/ DropTmpDocs(b)
  BY <1>7 DEF CleanIndex, CleanDocs, Clean, DropTmpIndex, DropTmpDocs, DropTmp
<1>8. CASE Disown(b) \/ Unlock(b) \/ Kill(b)
  BY <1>8 DEF Disown, Unlock, LastHeld, Kill
<1>. QED
  BY <1>1, <1>2, <1>3, <1>4, <1>5, <1>6, <1>7, <1>8 DEF Build, Run

-----------------------------------------------------------------------------
LEMMA ResidueInit == Init => Residue
<1> SUFFICES ASSUME Init, NEW b \in Builders
             PROVE  /\ Ended(b) /\ \A k \in Kinds : Accounted(b, k)
                    /\ pc[b] = "idle" /\ held[b] = {}
  BY DEF Residue, At
<1>1. /\ pc[b] = "idle" /\ held[b] = {} /\ outcome[b] = "running"
      /\ \A k \in Kinds : lock[k] = None
  BY DEF Init
<1>2. \A k \in Kinds : dir[Tmp(b, k)] = None /\ dir[Bak(b, k)] = None
  BY PathsDistinct DEF Init
<1>. QED
  BY <1>1, <1>2, Distinct DEF Ended, Accounted, At, CleaningUp, Unwinding, Gens

\* What the invariant says of the build that moves.
LEMMA ResidueOwn ==
  ASSUME TypeOK, LocksHeld, PairInv, Residue, NEW b \in Builders, Build(b)
  PROVE  (/\ Ended(b)
          /\ \A k \in Kinds : Accounted(b, k)
          /\ At(b, "cleanDocs") /\ dir[Bak(b, "index")] # None
               => outcome[b] = "cleanupRequired"
          /\ At(b, "restoreIndex") /\ ~rollbackError[b] => dir[Bak(b, "docs")] = None
          /\ At(b, "done") => held[b] = {})'
<1>0. /\ Ended(b) /\ \A k \in Kinds : Accounted(b, k)
      /\ At(b, "cleanDocs") /\ dir[Bak(b, "index")] # None
           => outcome[b] = "cleanupRequired"
      /\ At(b, "restoreIndex") /\ ~rollbackError[b] => dir[Bak(b, "docs")] = None
      /\ At(b, "done") => held[b] = {}
      /\ BeforeBackup(b) /\ Uncommitted(b)
      /\ pc[b] \in {"idle", "lockDocs"} => held[b] = {}
  BY DEF Residue, PairInv, Transaction, LocksHeld
<1> USE <1>0, PathsDistinct, Distinct DEF TypeOK, At, Goto, End, locks, publishing,
    ends, Ended, Accounted, WithoutTmp, BeforeBackup, Uncommitted, Acquiring,
    Preparing, Installing, RollingBack, CleaningUp, Unwinding, Gens, Kinds
<1>1. CASE Start(b)
  BY <1>1 DEF Start
<1>2. CASE AcquireDocs(b) \/ AcquireIndex(b)
  BY <1>2 DEF AcquireDocs, AcquireIndex, Acquire
<1>3. CASE RefuseDocs(b) \/ RefuseIndex(b)
  BY <1>3 DEF RefuseDocs, RefuseIndex, Refuse
<1>4. CASE DescribeDocs(b) \/ DescribeIndex(b)
  BY <1>4 DEF DescribeDocs, DescribeIndex, Describe
<1>5. CASE ChoosePaths(b) \/ Cancel(b) \/ Fail(b)
  BY <1>5 DEF ChoosePaths, Cancel, Fail, Unwind, Proceed
<1>6. CASE Embed(b) \/ Verify(b) \/ EnterPublication(b)
  BY <1>6 DEF Embed, Verify, EnterPublication, Proceed
<1>7. CASE CreateDocs(b) \/ CreateIndex(b)
  BY <1>7 DEF CreateDocs, CreateIndex, CreateTmp, Proceed
<1>8. CASE FinishDocs(b) \/ FinishIndex(b)
  BY <1>8 DEF FinishDocs, FinishIndex, FinishTmp, Proceed
<1>9. CASE ProbeIndex(b) \/ ProbeDocs(b) \/ ProbeDocsFails(b)
  BY <1>9 DEF ProbeIndex, ProbeDocs, ProbeDocsFails, Probe, LeavePublish
<1>10. CASE BackupIndex(b)
  BY <1>10 DEF BackupIndex, Backup, Rename
<1>11. CASE BackupDocs(b)
  BY <1>11 DEF BackupDocs, Backup, Rename
<1>12. CASE InstallDocs(b)
  BY <1>12 DEF InstallDocs, Rename, Proceed
<1>13. CASE InstallIndex(b)
  BY <1>13 DEF InstallIndex, Rename
<1>14. CASE InstallFails(b)
  BY <1>14 DEF InstallFails
<1>15. CASE WithdrawDocs(b)
  BY <1>15 DEF WithdrawDocs, Rename
<1>16. CASE DiscardDocs(b)
  BY <1>16 DEF DiscardDocs, Remove
<1>17. CASE RestoreDocs(b)
  BY <1>17 DEF RestoreDocs, Rename
<1>18. CASE RestoreIndex(b)
  BY <1>18 DEF RestoreIndex, ThrowAfterRollback, LeavePublish, Rename
<1>19. CASE CleanIndex(b)
  BY <1>19 DEF CleanIndex, Clean, Remove
<1>20. CASE CleanDocs(b)
  BY <1>20 DEF CleanDocs, Clean, Remove, LeavePublish
<1>21. CASE DropTmpIndex(b)
  BY <1>21 DEF DropTmpIndex, DropTmp, Remove
<1>22. CASE DropTmpDocs(b)
  BY <1>22 DEF DropTmpDocs, DropTmp, Remove
<1>23. CASE Disown(b)
  BY <1>23 DEF Disown
<1>24. CASE Unlock(b)
  BY <1>24 DEF Unlock, AfterUnlock, LastHeld
<1>25. CASE Kill(b)
  BY <1>25 DEF Kill, LeavePublish
<1>. QED
  BY <1>1, <1>2, <1>3, <1>4, <1>5, <1>6, <1>7, <1>8, <1>9, <1>10, <1>11, <1>12,
     <1>13, <1>14, <1>15, <1>16, <1>17, <1>18, <1>19, <1>20, <1>21, <1>22, <1>23,
     <1>24, <1>25
     DEF Build, Run

LEMMA ResidueStep ==
  ASSUME TypeOK, LocksHeld, PairInv, Residue, NEW b \in Builders, Build(b)
  PROVE  Residue'
<1>1. ASSUME NEW c \in Builders, c # b
      PROVE  (/\ Ended(c)
              /\ \A k \in Kinds : Accounted(c, k)
              /\ At(c, "cleanDocs") /\ dir[Bak(c, "index")] # None
                   => outcome[c] = "cleanupRequired"
              /\ At(c, "restoreIndex") /\ ~rollbackError[c]
                   => dir[Bak(c, "docs")] = None
              /\ At(c, "done") => held[c] = {})'
  BY <1>1, Frame, FrameEnds DEF Residue, Ended, Accounted, At, Kinds
<1>. QED  BY <1>1, ResidueOwn DEF Residue

-----------------------------------------------------------------------------
LEMMA ContentionInit == Init => Contention
BY Distinct DEF Init, Contention, Gens, Kinds

\* Nobody becomes the holder of a lock, or is refused, in another way than by
\* asking for it, and only a build at the first lock does not contend yet.
LEMMA ContentionMoves ==
  ASSUME TypeOK, Residue, NEW b \in Builders, Build(b)
  PROVE  /\ lock'["docs"] = b /\ lock["docs"] # b => At(b, "lockDocs")
         /\ lock'["index"] = b /\ lock["index"] # b
              => At(b, "lockIndex") /\ outcome'[b] = "running"
         /\ ~At(b, "idle") => pc'[b] \notin {"idle", "lockDocs"}
         /\ pc'[b] \in {"ownDocs", "lockIndex"} => pc[b] \in {"lockDocs", "ownDocs"}
         /\ outcome'[b] = "refused" /\ outcome[b] # "refused"
              => \/ At(b, "lockDocs") /\ lock["docs"] # None
                 \/ At(b, "lockIndex") /\ lock["index"] # None
         /\ outcome[b] = "refused" => outcome'[b] = "refused" /\ ~At(b, "idle")
<1>0. Ended(b)
  BY DEF Residue
<1> USE <1>0, Distinct DEF TypeOK, At, Goto, End, locks, publishing, ends, Ended,
    Acquiring, Preparing, Installing, RollingBack, CleaningUp, Unwinding, Gens, Kinds
<1>1. CASE Start(b) \/ AcquireDocs(b) \/ DescribeDocs(b) \/ DescribeIndex(b)
           \/ AcquireIndex(b)
  BY <1>1 DEF Start, AcquireDocs, AcquireIndex, Acquire, DescribeDocs,
       DescribeIndex, Describe
<1>2. CASE RefuseDocs(b) \/ RefuseIndex(b)
  BY <1>2 DEF RefuseDocs, RefuseIndex, Refuse
<1>3. CASE ChoosePaths(b) \/ Cancel(b) \/ Fail(b) \/ Embed(b) \/ Verify(b)
           \/ EnterPublication(b)
  BY <1>3 DEF ChoosePaths, Cancel, Fail, Embed, Verify, EnterPublication, Unwind,
       Proceed
<1>4. CASE CreateDocs(b) \/ FinishDocs(b) \/ CreateIndex(b) \/ FinishIndex(b)
  BY <1>4 DEF CreateDocs, FinishDocs, CreateIndex, FinishIndex, CreateTmp,
       FinishTmp, Proceed
<1>5. CASE ProbeIndex(b) \/ ProbeDocs(b) \/ ProbeDocsFails(b) \/ InstallFails(b)
  BY <1>5 DEF ProbeIndex, ProbeDocs, ProbeDocsFails, Probe, InstallFails
<1>6. CASE BackupIndex(b) \/ BackupDocs(b) \/ InstallDocs(b) \/ InstallIndex(b)
  BY <1>6 DEF BackupIndex, BackupDocs, Backup, InstallDocs, InstallIndex, Proceed
<1>7. CASE WithdrawDocs(b) \/ DiscardDocs(b) \/ RestoreDocs(b) \/ RestoreIndex(b)
  BY <1>7 DEF WithdrawDocs, DiscardDocs, RestoreDocs, RestoreIndex,
       ThrowAfterRollback
<1>8. CASE CleanIndex(b) \/ CleanDocs(b) \/ DropTmpIndex(b) \/ DropTmpDocs(b)
  BY <1>8 DEF CleanIndex, CleanDocs, Clean, DropTmpIndex, DropTmpDocs, DropTmp
<1>9. CASE Disown(b) \/ Unlock(b) \/ Kill(b)
  BY <1>9 DEF Disown, Unlock, AfterUnlock, LastHeld, Kill
<1>. QED
  BY <1>1, <1>2, <1>3, <1>4, <1>5, <1>6, <1>7, <1>8, <1>9 DEF Build, Run

LEMMA ContentionStep ==
  ASSUME TypeOK, Residue, Contention, NEW b \in Builders, Build(b)
  PROVE  Contention'
<1>1. ASSUME NEW c \in Builders, c # b
      PROVE  /\ pc'[c] = pc[c] /\ outcome'[c] = outcome[c]
             /\ \A k \in Kinds : lock'[k] = c => lock[k] = c
  BY <1>1, Frame, FrameEnds
<1>2. ASSUME NEW c \in Builders, lock'["index"] = c
      PROVE  Contends(c)' /\ pc'[c] \notin {"ownDocs", "lockIndex"}
  <2>1. CASE c # b
    BY <1>1, <1>2, <2>1 DEF Contention, Contends, Kinds
  <2>2. CASE c = b /\ lock["index"] = b
    BY <2>2, ContentionMoves DEF Contention, Contends, At
  <2>3. CASE c = b /\ lock["index"] # b
    BY <1>2, <2>3, ContentionMoves DEF Contends, At
  <2>. QED  BY <2>1, <2>2, <2>3
<1>3. ASSUME NEW c \in Builders, lock'["docs"] = c
      PROVE  Contends(c)' \/ outcome'[c] = "refused"
  <2>1. CASE c # b
    BY <1>1, <1>3, <2>1 DEF Contention, Contends, Kinds
  <2>2. CASE c = b /\ lock["docs"] = b
    BY <2>2, ContentionMoves DEF Contention, Contends, At
  <2>3. CASE c = b /\ lock["docs"] # b
    BY <1>3, <2>3, ContentionMoves DEF Contends, At
  <2>. QED  BY <2>1, <2>2, <2>3
<1>4. ASSUME NEW c \in Builders, c # b, Contends(c)
      PROVE  \E d \in Builders : Contends(d)'
  BY <1>1, <1>4 DEF Contends
<1>5. ASSUME \E c \in Builders : outcome'[c] = "refused"
      PROVE  \E d \in Builders : Contends(d)'
  \* b is refused now: by someone who contends, or was refused himself before.
  <2>1. CASE outcome'[b] = "refused" /\ outcome[b] # "refused"
    <3>1. PICK k \in Kinds : /\ lock[k] # None
                             /\ k = "docs" => At(b, "lockDocs")
                             /\ k = "index" => At(b, "lockIndex")
      BY <2>1, ContentionMoves DEF Kinds
    <3>2. PICK d \in Builders : lock[k] = d
      BY <3>1 DEF TypeOK
    <3>3. CASE Contends(d)
      <4>1. d # b
        BY <3>1, <3>2, <3>3 DEF Contention, Contends, At, Kinds
      <4>. QED  BY <3>3, <4>1, <1>4
    <3>4. CASE ~Contends(d)
      <4>1. k = "docs" /\ outcome[d] = "refused"
        BY <3>2, <3>4 DEF Contention, Kinds
      <4>2. PICK c \in Builders : Contends(c)
        BY <4>1 DEF Contention
      <4>3. c # b
        BY <3>1, <4>1, <4>2 DEF Contends, At
      <4>. QED  BY <4>2, <4>3, <1>4
    <3>. QED  BY <3>3, <3>4
  <2>2. CASE ~(outcome'[b] = "refused" /\ outcome[b] # "refused")
    <3>1. PICK c \in Builders : outcome[c] = "refused"
      BY <1>1, <1>5, <2>2
    <3>2. PICK d \in Builders : Contends(d)
      BY <3>1 DEF Contention
    <3>3. CASE d = b
      BY <2>2, <3>2, <3>3, ContentionMoves DEF Contends, At
    <3>. QED  BY <3>2, <3>3, <1>4
  <2>. QED  BY <2>1, <2>2
<1>. QED  BY <1>2, <1>3, <1>5 DEF Contention

-----------------------------------------------------------------------------
LEMMA CommittedInit == Init => IndexesCommitted
<1> SUFFICES ASSUME Init PROVE IndexesCommitted
  OBVIOUS
<1>1. \A p \in Paths : dir[p] \in {None, Old}
  BY DEF Init
<1>2. \A b \in Builders : dir[Tmp(b, "index")] = None
  BY PathsDistinct DEF Init, Kinds
<1>3. \A b \in Builders : outcome[b] \notin Committed
  BY DEF Init, Committed
<1>. QED
  BY <1>1, <1>2, <1>3, PathsDistinct, Distinct DEF IndexesCommitted, Gens, Kinds

\* A build that has committed stays committed, and one that says it has is past
\* the rename of its index.
LEMMA CommittedStays ==
  ASSUME TypeOK, IndexesCommitted, NEW b \in Builders, Build(b)
  PROVE  /\ \A c \in Builders : outcome[c] \in Committed => outcome'[c] \in Committed
         /\ outcome'[b] \in Committed
              => pc'[b] \in CleaningUp \cup Unwinding \cup {"done", "killed"}
         /\ \A c \in Builders \ {b} : outcome'[c] = outcome[c]
<1> USE DEF TypeOK, IndexesCommitted, Committed, CleaningUp, Unwinding, At, Goto,
    End, ends
<1>1. CASE Start(b) \/ AcquireDocs(b) \/ RefuseDocs(b) \/ DescribeDocs(b)
           \/ AcquireIndex(b) \/ RefuseIndex(b) \/ DescribeIndex(b)
  BY <1>1 DEF Start, AcquireDocs, AcquireIndex, Acquire, RefuseDocs, RefuseIndex,
       Refuse, DescribeDocs, DescribeIndex, Describe
<1>2. CASE ChoosePaths(b) \/ Cancel(b) \/ Fail(b) \/ Embed(b) \/ Verify(b)
           \/ EnterPublication(b)
  BY <1>2 DEF ChoosePaths, Cancel, Fail, Embed, Verify, EnterPublication, Unwind,
       Proceed
<1>3. CASE CreateDocs(b) \/ FinishDocs(b) \/ CreateIndex(b) \/ FinishIndex(b)
  BY <1>3 DEF CreateDocs, FinishDocs, CreateIndex, FinishIndex, CreateTmp,
       FinishTmp, Proceed
<1>4. CASE ProbeIndex(b) \/ ProbeDocs(b) \/ ProbeDocsFails(b) \/ InstallFails(b)
  BY <1>4 DEF ProbeIndex, ProbeDocs, ProbeDocsFails, Probe, InstallFails
<1>5. CASE BackupIndex(b) \/ BackupDocs(b) \/ InstallDocs(b) \/ InstallIndex(b)
  BY <1>5 DEF BackupIndex, BackupDocs, Backup, InstallDocs, InstallIndex, Proceed
<1>6. CASE WithdrawDocs(b) \/ DiscardDocs(b) \/ RestoreDocs(b) \/ RestoreIndex(b)
  BY <1>6 DEF WithdrawDocs, DiscardDocs, RestoreDocs, RestoreIndex,
       ThrowAfterRollback
<1>7. CASE CleanIndex(b) \/ CleanDocs(b)
  BY <1>7 DEF CleanIndex, CleanDocs, Clean
<1>8. CASE DropTmpIndex(b) \/ DropTmpDocs(b) \/ Disown(b) \/ Unlock(b) \/ Kill(b)
  BY <1>8 DEF DropTmpIndex, DropTmpDocs, DropTmp, Disown, Unlock, AfterUnlock, Kill
<1>. QED
  BY <1>1, <1>2, <1>3, <1>4, <1>5, <1>6, <1>7, <1>8 DEF Build, Run

\* Only a commit puts an index under the public name that was not already there
\* or in the build's backup, and backups are filled from the public name.
LEMMA IndexMoves ==
  ASSUME TypeOK, IndexesCommitted, NEW b \in Builders, Build(b)
  PROVE  /\ \/ dir'[Live("index")] \in
                  {dir[Live("index")], dir[Bak(b, "index")], None}
            \/ dir'[Live("index")] \in {Partial, b} /\ outcome'[b] = "committed"
         /\ dir'[Bak(b, "index")] \in
              {dir[Live("index")], dir[Bak(b, "index")], None}
         /\ dir'[Tmp(b, "index")] \in {dir[Tmp(b, "index")], None, Partial, b}
<1> USE PathsDistinct DEF TypeOK, IndexesCommitted, Kinds, At, Goto, End, ends,
    locks, publishing
<1>1. CASE Start(b) \/ AcquireDocs(b) \/ RefuseDocs(b) \/ DescribeDocs(b)
           \/ AcquireIndex(b) \/ RefuseIndex(b) \/ DescribeIndex(b)
  BY <1>1 DEF Start, AcquireDocs, AcquireIndex, Acquire, RefuseDocs, RefuseIndex,
       Refuse, DescribeDocs, DescribeIndex, Describe
<1>2. CASE ChoosePaths(b) \/ Cancel(b) \/ Fail(b) \/ Embed(b) \/ Verify(b)
           \/ EnterPublication(b)
  BY <1>2 DEF ChoosePaths, Cancel, Fail, Embed, Verify, EnterPublication
<1>3. CASE CreateDocs(b) \/ FinishDocs(b) \/ CreateIndex(b) \/ FinishIndex(b)
  BY <1>3 DEF CreateDocs, FinishDocs, CreateIndex, FinishIndex, CreateTmp,
       FinishTmp
<1>4. CASE ProbeIndex(b) \/ ProbeDocs(b) \/ ProbeDocsFails(b) \/ InstallFails(b)
  BY <1>4 DEF ProbeIndex, ProbeDocs, ProbeDocsFails, Probe, InstallFails
<1>5. CASE BackupIndex(b) \/ BackupDocs(b) \/ InstallDocs(b)
  BY <1>5 DEF BackupIndex, BackupDocs, Backup, InstallDocs, Rename
<1>6. CASE InstallIndex(b)
  BY <1>6 DEF InstallIndex, Rename
<1>7. CASE WithdrawDocs(b) \/ DiscardDocs(b) \/ RestoreDocs(b) \/ RestoreIndex(b)
  BY <1>7 DEF WithdrawDocs, DiscardDocs, RestoreDocs, RestoreIndex, Rename, Remove
<1>8. CASE CleanIndex(b) \/ CleanDocs(b) \/ DropTmpIndex(b) \/ DropTmpDocs(b)
  BY <1>8 DEF CleanIndex, CleanDocs, Clean, DropTmpIndex, DropTmpDocs, DropTmp,
       Remove
<1>9. CASE Disown(b) \/ Unlock(b) \/ Kill(b)
  <2>1. UNCHANGED dir
    BY <1>9 DEF Disown, Unlock, Kill
  <2>. QED  BY <2>1
<1>. QED
  BY <1>1, <1>2, <1>3, <1>4, <1>5, <1>6, <1>7, <1>8, <1>9 DEF Build, Run

\* A step of a build keeps every index that can be read, or restored to where it
\* can be read, one of a committed build.
LEMMA IndexesStep ==
  ASSUME TypeOK, IndexesCommitted, NEW b \in Builders, Build(b)
  PROVE  IndexesCommitted'
<1>1. ASSUME NEW content, content \in Builders => outcome[content] \in Committed
      PROVE  content \in Builders => outcome'[content] \in Committed
  BY <1>1, CommittedStays
<1>2. dir'[Live("index")] \in Builders => outcome'[dir'[Live("index")]] \in Committed
  <2>1. CASE dir'[Live("index")] \in {dir[Live("index")], dir[Bak(b, "index")], None}
    BY <2>1, <1>1, Distinct DEF IndexesCommitted, Gens
  <2>2. CASE dir'[Live("index")] \in {Partial, b} /\ outcome'[b] = "committed"
    BY <2>2, Distinct DEF Gens, Committed
  <2>. QED  BY <2>1, <2>2, IndexMoves
<1>3. ASSUME NEW c \in Builders, dir'[Bak(c, "index")] \in Builders
      PROVE  outcome'[dir'[Bak(c, "index")]] \in Committed
  <2>1. dir'[Bak(c, "index")] \in {dir[Live("index")], dir[Bak(c, "index")], None}
    BY IndexMoves, Frame DEF Kinds
  <2>. QED  BY <2>1, <1>1, <1>3, Distinct DEF IndexesCommitted, Gens
<1>4. ASSUME NEW c \in Builders
      PROVE  dir'[Tmp(c, "index")] \in {None, Partial, c}
  BY IndexMoves, Frame DEF Kinds, IndexesCommitted
<1>5. ASSUME NEW c \in Builders, outcome'[c] \in Committed
      PROVE  pc'[c] \in CleaningUp \cup Unwinding \cup {"done", "killed"}
  BY <1>5, CommittedStays, Frame DEF IndexesCommitted
<1>. QED  BY <1>2, <1>3, <1>4, <1>5 DEF IndexesCommitted

-----------------------------------------------------------------------------
LEMMA DocsInit == Init => DocsPlaced
<1> SUFFICES ASSUME Init PROVE DocsPlaced
  OBVIOUS
<1>1. \A p \in Paths : dir[p] \in {None, Old}
  BY DEF Init
<1>. QED  BY <1>1, PathsDistinct, Distinct DEF DocsPlaced, Gens, Kinds

\* Where the documents under the public name and in the build's backup come from,
\* and that the documents of the build are public only where it may leave them.
LEMMA DocsMoves ==
  ASSUME TypeOK, PairInv, Residue, DocsPlaced, Protocol, NEW b \in Builders, Build(b)
  PROVE  /\ dir'[Live("docs")] \in
              {dir[Live("docs")], dir[Bak(b, "docs")], None, b}
         /\ \/ dir'[Bak(b, "docs")] \in {dir[Bak(b, "docs")], None}
            \/ At(b, "backupDocs") /\ dir'[Bak(b, "docs")] = dir[Live("docs")]
         /\ LeftDocs(b) => LeftDocs(b)'
         /\ dir'[Live("docs")] = b => PublicDocs(b)'
<1>0. /\ FilesComplete /\ BeforeBackup(b) /\ Ended(b)
      /\ dir[Live("docs")] = b => PublicDocs(b)
      /\ dir[Bak(b, "docs")] = b => LeftDocs(b)
      /\ RolledBack(b)
  BY DEF PairInv, Transaction, Residue, DocsPlaced, Protocol
<1> USE <1>0, PathsDistinct, Distinct DEF TypeOK, At, Goto, End, locks, publishing,
    ends, FilesComplete, BeforeBackup, Ended, PublicDocs, LeftDocs, RolledBack,
    Committed, Acquiring, Preparing, Installing, RollingBack, CleaningUp, Unwinding,
    Gens, Kinds
<1>1. CASE Start(b) \/ AcquireDocs(b) \/ RefuseDocs(b) \/ DescribeDocs(b)
           \/ AcquireIndex(b) \/ RefuseIndex(b) \/ DescribeIndex(b)
  BY <1>1 DEF Start, AcquireDocs, AcquireIndex, Acquire, RefuseDocs, RefuseIndex,
       Refuse, DescribeDocs, DescribeIndex, Describe
<1>2. CASE ChoosePaths(b) \/ Cancel(b) \/ Fail(b) \/ Embed(b) \/ Verify(b)
           \/ EnterPublication(b)
  BY <1>2 DEF ChoosePaths, Cancel, Fail, Embed, Verify, EnterPublication, Unwind,
       Proceed
<1>3. CASE CreateDocs(b) \/ FinishDocs(b) \/ CreateIndex(b) \/ FinishIndex(b)
  BY <1>3 DEF CreateDocs, FinishDocs, CreateIndex, FinishIndex, CreateTmp,
       FinishTmp, Proceed
<1>4. CASE ProbeIndex(b) \/ ProbeDocs(b) \/ ProbeDocsFails(b)
  BY <1>4 DEF ProbeIndex, ProbeDocs, ProbeDocsFails, Probe, LeavePublish
<1>5. CASE BackupIndex(b)
  BY <1>5 DEF BackupIndex, Backup, Rename
<1>6. CASE BackupDocs(b)
  BY <1>6 DEF BackupDocs, Backup, Rename
<1>7. CASE InstallDocs(b)
  BY <1>7 DEF InstallDocs, Rename, Proceed
<1>8. CASE InstallIndex(b)
  BY <1>8 DEF InstallIndex, Rename
<1>9. CASE InstallFails(b)
  BY <1>9 DEF InstallFails
<1>10. CASE WithdrawDocs(b)
  BY <1>10 DEF WithdrawDocs, Rename
<1>11. CASE DiscardDocs(b)
  BY <1>11 DEF DiscardDocs, Remove
<1>12. CASE RestoreDocs(b)
  BY <1>12 DEF RestoreDocs, Rename
<1>13. CASE RestoreIndex(b)
  BY <1>13 DEF RestoreIndex, Rename, ThrowAfterRollback, LeavePublish
<1>14. CASE CleanIndex(b) \/ CleanDocs(b)
  BY <1>14 DEF CleanIndex, CleanDocs, Clean, Remove, LeavePublish
<1>15. CASE DropTmpIndex(b) \/ DropTmpDocs(b)
  BY <1>15 DEF DropTmpIndex, DropTmpDocs, DropTmp, Remove
<1>16. CASE Disown(b) \/ Unlock(b) \/ Kill(b)
  BY <1>16 DEF Disown, Unlock, AfterUnlock, Kill, LeavePublish
<1>. QED
  BY <1>1, <1>2, <1>3, <1>4, <1>5, <1>6, <1>7, <1>8, <1>9, <1>10, <1>11, <1>12,
     <1>13, <1>14, <1>15, <1>16
     DEF Build, Run

LEMMA DocsStep ==
  ASSUME TypeOK, LocksHeld, PairInv, Residue, DocsPlaced, Protocol,
         NEW b \in Builders, Build(b)
  PROVE  DocsPlaced'
<1>1. ASSUME NEW c \in Builders
      PROVE  LeftDocs(c) => LeftDocs(c)'
  BY DocsMoves, Frame, FrameEnds DEF LeftDocs, At
<1>2. ASSUME NEW c \in Builders, dir'[Live("docs")] = c
      PROVE  PublicDocs(c)'
  <2>1. CASE c # b
    <3>1. \/ dir[Live("docs")] = c
          \/ dir[Bak(b, "docs")] = c
      BY <1>2, <2>1, DocsMoves, Distinct DEF Gens
    <3>2. PublicDocs(c)
      BY <3>1 DEF DocsPlaced, PublicDocs
    <3>. QED  BY <3>2, <2>1, Frame, FrameEnds DEF PublicDocs, LeftDocs, At
  <2>. QED  BY <2>1, <1>2, DocsMoves
<1>3. ASSUME NEW c \in Builders, NEW d \in Builders, dir'[Bak(d, "docs")] = c
      PROVE  LeftDocs(c)'
  <2>1. CASE dir[Bak(d, "docs")] = c
    BY <2>1, <1>1 DEF DocsPlaced
  \* Only the build in the critical section fills its backup, and then nobody
  \* else is between the rename and the withdrawal of documents.
  <2>2. CASE dir[Bak(d, "docs")] # c
    <3>1. d = b /\ At(b, "backupDocs") /\ dir[Live("docs")] = c
      BY <2>2, <1>3, DocsMoves, Frame, Distinct DEF Gens, Kinds
    <3>2. PublicDocs(c)
      BY <3>1 DEF DocsPlaced
    <3>3. ~Critical(c) \/ c = b
      BY <3>1, Exclusion DEF MutualExclusion, Critical, At, Installing
    <3>4. LeftDocs(c)
      BY <3>1, <3>2, <3>3
         DEF PublicDocs, Critical, At, Installing, RollingBack
    <3>. QED  BY <3>4, <1>1
  <2>. QED  BY <2>1, <2>2
<1>. QED  BY <1>2, <1>3 DEF DocsPlaced

-----------------------------------------------------------------------------
LEMMA ProtocolInit == Init => Protocol
BY DEF Init, Protocol, Probed, Replaced, RolledBack, At, CleaningUp

\* What the invariant says of the transaction of the build that moves.
LEMMA ProtocolOwn ==
  ASSUME TypeOK, PairInv, Protocol, NEW b \in Builders, Build(b)
  PROVE  (Probed(b) /\ Replaced(b) /\ RolledBack(b))'
<1>0. /\ FilesComplete /\ BeforeBackup(b) /\ Uncommitted(b)
      /\ Probed(b) /\ Replaced(b) /\ RolledBack(b)
  BY DEF PairInv, Transaction, Protocol
<1> USE <1>0, PathsDistinct, Distinct DEF TypeOK, At, Goto, End, locks, publishing,
    ends, FilesComplete, BeforeBackup, Uncommitted, Probed, Replaced, RolledBack,
    Installing, RollingBack, CleaningUp, Gens, Kinds
<1>1. CASE Start(b) \/ AcquireDocs(b) \/ RefuseDocs(b) \/ DescribeDocs(b)
           \/ AcquireIndex(b) \/ RefuseIndex(b) \/ DescribeIndex(b)
  BY <1>1 DEF Start, AcquireDocs, AcquireIndex, Acquire, RefuseDocs, RefuseIndex,
       Refuse, DescribeDocs, DescribeIndex, Describe
<1>2. CASE ChoosePaths(b) \/ Cancel(b) \/ Fail(b) \/ Embed(b) \/ Verify(b)
           \/ EnterPublication(b)
  BY <1>2 DEF ChoosePaths, Cancel, Fail, Embed, Verify, EnterPublication, Unwind,
       Proceed
<1>3. CASE CreateDocs(b) \/ FinishDocs(b) \/ CreateIndex(b) \/ FinishIndex(b)
  <2>1. /\ pc[b] \in {"docsCreate", "docsWrite", "indexCreate", "indexWrite"}
        /\ pc'[b] \in {"docsWrite", "embed", "indexWrite", "verify"}
        /\ UNCHANGED had
    BY <1>3 DEF CreateDocs, FinishDocs, CreateIndex, FinishIndex, CreateTmp,
         FinishTmp, Proceed
  <2>. QED  BY <2>1
<1>4. CASE ProbeIndex(b) \/ ProbeDocs(b) \/ ProbeDocsFails(b)
  <2>1. CASE ProbeIndex(b)
    BY <2>1 DEF ProbeIndex, Probe
  <2>2. CASE ProbeDocs(b)
    BY <2>2 DEF ProbeDocs, Probe
  <2>3. CASE ProbeDocsFails(b)
    BY <2>3 DEF ProbeDocsFails, LeavePublish
  <2>. QED  BY <1>4, <2>1, <2>2, <2>3
<1>5. CASE BackupIndex(b)
  BY <1>5 DEF BackupIndex, Backup, Rename
<1>6. CASE BackupDocs(b)
  BY <1>6 DEF BackupDocs, Backup, Rename
<1>7. CASE InstallDocs(b)
  BY <1>7 DEF InstallDocs, Rename, Proceed
<1>8. CASE InstallIndex(b)
  BY <1>8 DEF InstallIndex, Rename
<1>9. CASE InstallFails(b)
  BY <1>9 DEF InstallFails
<1>10. CASE WithdrawDocs(b)
  BY <1>10 DEF WithdrawDocs, Rename
<1>11. CASE DiscardDocs(b)
  BY <1>11 DEF DiscardDocs, Remove
<1>12. CASE RestoreDocs(b)
  BY <1>12 DEF RestoreDocs, Rename
<1>13. CASE RestoreIndex(b)
  BY <1>13 DEF RestoreIndex, Rename, ThrowAfterRollback, LeavePublish
<1>14. CASE CleanIndex(b) \/ CleanDocs(b)
  BY <1>14 DEF CleanIndex, CleanDocs, Clean, Remove, LeavePublish
<1>15. CASE DropTmpIndex(b) \/ DropTmpDocs(b)
  BY <1>15 DEF DropTmpIndex, DropTmpDocs, DropTmp, Remove
<1>16. CASE Disown(b) \/ Unlock(b) \/ Kill(b)
  BY <1>16 DEF Disown, Unlock, AfterUnlock, Kill, LeavePublish
<1>. QED
  BY <1>1, <1>2, <1>3, <1>4, <1>5, <1>6, <1>7, <1>8, <1>9, <1>10, <1>11, <1>12,
     <1>13, <1>14, <1>15, <1>16
     DEF Build, Run

\* What it says of the others: no file they know of is moved.
LEMMA ProtocolStep ==
  ASSUME TypeOK, LocksHeld, PairInv, Protocol, NEW b \in Builders, Build(b)
  PROVE  Protocol'
<1>1. ASSUME NEW c \in Builders, c # b
      PROVE  (Probed(c) /\ Replaced(c) /\ RolledBack(c))'
  <2>1. Critical(c) => \A k \in Kinds : dir'[Live(k)] = dir[Live(k)]
    BY <1>1, Frame, Exclusion DEF MutualExclusion
  <2>2. /\ pc'[c] = pc[c] /\ had'[c] = had[c] /\ saved'[c] = saved[c]
        /\ rollbackError'[c] = rollbackError[c]
    BY <1>1, Frame
  <2>3. Probed(c) /\ Replaced(c) /\ RolledBack(c)
    BY DEF Protocol
  <2>4. Probed(c)'
    BY <2>1, <2>2, <2>3 DEF Probed, Critical, At, Installing, RollingBack, CleaningUp,
       Kinds
  <2>5. Replaced(c)'
    BY <2>1, <2>2, <2>3 DEF Replaced, Critical, RollingBack, CleaningUp, Kinds
  <2>6. RolledBack(c)'
    BY <2>1, <2>2, <2>3 DEF RolledBack, Critical, At, RollingBack, Kinds
  <2>. QED  BY <2>4, <2>5, <2>6
<1>. QED  BY <1>1, ProtocolOwn DEF Protocol

-----------------------------------------------------------------------------
\* The inductive invariant: types, lock bookkeeping, the state of every
\* transaction, what each build leaves behind, who competes for the locks and
\* whose files are where.
IInv == /\ TypeOK /\ LocksHeld /\ PairInv
        /\ Residue /\ Contention
        /\ IndexesCommitted /\ DocsPlaced /\ Protocol

LEMMA Stuttering == IInv /\ UNCHANGED vars => IInv'
<1> SUFFICES ASSUME IInv, UNCHANGED vars PROVE IInv'
  OBVIOUS
<1> USE DEF vars
<1>1. TypeOK' /\ LocksHeld' /\ PairInv'
  BY DEF IInv, TypeOK, LocksHeld, Critical, PairInv, FilesComplete, Transaction,
     BeforeBackup, Uncommitted, Restorable, OfOneBuild
<1>2. Residue' /\ Contention'
  BY DEF IInv, Residue, Ended, Accounted, At, Contention, Contends
<1>3. IndexesCommitted' /\ DocsPlaced'
  BY DEF IInv, IndexesCommitted, DocsPlaced, PublicDocs, LeftDocs, At
<1>4. Protocol'
  BY DEF IInv, Protocol, Probed, Replaced, RolledBack, At
<1>. QED  BY <1>1, <1>2, <1>3, <1>4 DEF IInv

LEMMA Starts == Init => IInv
BY TypeInit, LocksInit, PairInit, ResidueInit, ContentionInit, CommittedInit,
   DocsInit, ProtocolInit DEF IInv

LEMMA BuildStep ==
  ASSUME IInv, NEW b \in Builders, Build(b)
  PROVE  IInv'
BY TypeStep, LocksStep, PairStep, ResidueStep, ContentionStep, IndexesStep, DocsStep,
   ProtocolStep DEF IInv

LEMMA Invariance == Spec => []IInv
<1>1. IInv /\ [Next]_vars => IInv'
  BY BuildStep, Stuttering DEF Next, Terminating
<1>. QED  BY Starts, <1>1, PTL DEF Spec

\* Whatever fails and whoever is killed, two builds are never both between
\* taking their locks and giving them back.
THEOREM MutualExclusionHolds == Spec => []MutualExclusion
<1>1. IInv => MutualExclusion
  BY Exclusion DEF IInv
<1>. QED  BY Invariance, <1>1, PTL

\* After every single rename, failure or kill, two public files carry the same
\* identity.
THEOREM LivePairHolds == Spec => []LivePairMatches
<1>1. IInv => LivePairMatches
  BY OneBuildMatches DEF IInv
<1>. QED  BY Invariance, <1>1, PTL

\* A build that is over leaves no temporary, backup or lock behind that its
\* message does not announce, whatever failed on the way, unless a destructor met
\* an error.
THEOREM NoResidueHolds == Spec => []NoResidue
<1>1. IInv => NoResidue
  <2> SUFFICES ASSUME IInv, NEW b \in Builders, At(b, "done"), ~swallowed[b],
                      NEW k \in Kinds
               PROVE  /\ dir[Tmp(b, k)] = None
                      /\ dir[Bak(b, k)] # None
                           => outcome[b] \in {"incomplete", "cleanupRequired"}
                      /\ lock[k] = b => outcome[b] = "lockCleanup"
    BY DEF NoResidue
  <2>1. Accounted(b, k) /\ held[b] = {}
    BY DEF IInv, Residue
  <2>2. saved[b] = {}
    BY DEF IInv, PairInv, Transaction, BeforeBackup, At, RollingBack, CleaningUp
  <2>. QED  BY <2>1, <2>2 DEF Accounted, WithoutTmp, At
<1>. QED  BY Invariance, <1>1, PTL

\* However many builds compete for the prefix, one of them is not refused.
THEOREM NotAllRefusedHolds ==
  ASSUME Builders # {}
  PROVE  Spec => []NotAllRefused
<1>1. IInv => NotAllRefused
  BY DEF IInv, Contention, Contends, NotAllRefused
<1>. QED  BY Invariance, <1>1, PTL

-----------------------------------------------------------------------------
\* What a step of a build does to the two files of one kind that can be read or
\* restored: nothing is lost, but the documents the build itself had just made
\* public, and backups once its own pair is public.
LEMMA NothingLost ==
  ASSUME IInv, NEW b \in Builders, Build(b), pc[b] \notin CleaningUp,
         NEW k \in Kinds
  PROVE  \A g \in {dir[Live(k)], dir[Bak(b, k)]} :
           \/ g = None
           \/ g \in {dir'[Live(k)], dir'[Bak(b, k)]}
           \/ k = "docs" /\ g = b /\ pc[b] \in RollingBack
<1>0. /\ TypeOK /\ BeforeBackup(b) /\ Uncommitted(b) /\ Ended(b)
      /\ Replaced(b) /\ RolledBack(b) /\ Accounted(b, k)
  BY DEF IInv, PairInv, Transaction, Residue, Protocol
<1> USE <1>0, PathsDistinct DEF TypeOK, At, Goto, locks, publishing, ends,
    BeforeBackup, Uncommitted, Replaced, RolledBack, Installing, RollingBack,
    CleaningUp, Kinds
<1>1. CASE Start(b) \/ AcquireDocs(b) \/ RefuseDocs(b) \/ DescribeDocs(b)
           \/ AcquireIndex(b) \/ RefuseIndex(b) \/ DescribeIndex(b)
  BY <1>1 DEF Start, AcquireDocs, AcquireIndex, Acquire, RefuseDocs, RefuseIndex,
       Refuse, DescribeDocs, DescribeIndex, Describe
<1>2. CASE ChoosePaths(b) \/ Cancel(b) \/ Fail(b) \/ Embed(b) \/ Verify(b)
           \/ EnterPublication(b)
  BY <1>2 DEF ChoosePaths, Cancel, Fail, Embed, Verify, EnterPublication
<1>3. CASE CreateDocs(b) \/ FinishDocs(b) \/ CreateIndex(b) \/ FinishIndex(b)
  BY <1>3 DEF CreateDocs, FinishDocs, CreateIndex, FinishIndex, CreateTmp, FinishTmp
<1>4. CASE ProbeIndex(b) \/ ProbeDocs(b) \/ ProbeDocsFails(b) \/ InstallFails(b)
  BY <1>4 DEF ProbeIndex, ProbeDocs, ProbeDocsFails, Probe, InstallFails
<1>5. CASE BackupIndex(b) \/ BackupDocs(b)
  BY <1>5 DEF BackupIndex, BackupDocs, Backup, Rename, Accounted, Ended
<1>6. CASE InstallDocs(b) \/ InstallIndex(b)
  BY <1>6 DEF InstallDocs, InstallIndex, Rename
<1>7. CASE WithdrawDocs(b) \/ DiscardDocs(b)
  BY <1>7 DEF WithdrawDocs, DiscardDocs, Rename, Remove
<1>8. CASE RestoreDocs(b)
  BY <1>8 DEF RestoreDocs, Rename
<1>9. CASE RestoreIndex(b)
  <2>1. CASE UNCHANGED dir
    BY <2>1
  <2>2. CASE "index" \in saved[b] /\ Rename(Bak(b, "index"), Live("index"))
    <3>1. dir[Live("index")] = None
      BY <1>9, <2>2 DEF RestoreIndex
    <3>. QED  BY <2>2, <3>1 DEF Rename
  <2>. QED  BY <1>9, <2>1, <2>2 DEF RestoreIndex
<1>10. CASE DropTmpIndex(b) \/ DropTmpDocs(b)
  BY <1>10 DEF DropTmpIndex, DropTmpDocs, DropTmp, Remove
<1>11. CASE Disown(b) \/ Unlock(b) \/ Kill(b)
  <2>1. UNCHANGED dir
    BY <1>11 DEF Disown, Unlock, Kill
  <2>. QED  BY <2>1
<1>12. CASE CleanIndex(b) \/ CleanDocs(b)
  BY <1>12 DEF CleanIndex, CleanDocs, Clean
<1>. QED
  BY <1>1, <1>2, <1>3, <1>4, <1>5, <1>6, <1>7, <1>8, <1>9, <1>10, <1>11, <1>12
     DEF Build, Run

\* No step of a build ends with fewer complete pairs than none where there was one.
LEMMA PairKept ==
  ASSUME IInv, NEW b \in Builders, Build(b), Complete # {}
  PROVE  Complete' # {}
\* The backups go when both public files are the build's own.
<1>1. CASE pc[b] \in CleaningUp
  <2>1. \A k \in Kinds : dir[Live(k)] = b
    BY <1>1 DEF IInv, Protocol, Replaced, Kinds
  <2>2. \A k \in Kinds : dir'[Live(k)] = dir[Live(k)]
    <3> USE <1>1, PathsDistinct DEF CleaningUp, IInv, TypeOK, Kinds
    <3>1. CASE CleanIndex(b) \/ CleanDocs(b)
      BY <3>1 DEF CleanIndex, CleanDocs, Clean, Remove
    <3>2. CASE Kill(b)
      BY <3>2 DEF Kill
    <3>3. CleanIndex(b) \/ CleanDocs(b) \/ Kill(b)
      BY DEF Build, Run, Start, AcquireDocs, AcquireIndex, Acquire, RefuseDocs,
         RefuseIndex, Refuse, DescribeDocs, DescribeIndex, Describe, ChoosePaths,
         Cancel, Fail, Embed, Verify, EnterPublication, CreateDocs, CreateIndex,
         CreateTmp, FinishDocs, FinishIndex, FinishTmp, ProbeIndex, ProbeDocs, Probe,
         ProbeDocsFails, BackupIndex, BackupDocs, Backup, InstallDocs, InstallIndex,
         InstallFails, WithdrawDocs, DiscardDocs, RestoreDocs, RestoreIndex,
         DropTmpIndex, DropTmpDocs, DropTmp, Disown, Unlock, At
    <3>. QED  BY <3>1, <3>2, <3>3
  <2>3. b \in Complete'
    BY <2>1, <2>2, Distinct DEF Complete, Kept, Gens, Kinds
  <2>. QED  BY <2>3
<1>2. CASE pc[b] \notin CleaningUp
  <2>1. PICK g : /\ g \in Kept("index") /\ g \in Kept("docs")
                 /\ g # None /\ g # Partial
    BY DEF Complete
  \* An index that was never public is in no pair.
  <2>2. ~(g = b /\ pc[b] \in RollingBack)
    <3> SUFFICES ASSUME g = b, pc[b] \in RollingBack PROVE FALSE
      OBVIOUS
    <3>1. outcome[b] \in Committed
      BY <2>1 DEF IInv, IndexesCommitted, Kept
    <3>. QED  BY <3>1 DEF IInv, Residue, Ended, Committed
  <2>3. ASSUME NEW k \in Kinds, g \in Kept(k)
        PROVE  g \in Kept(k)'
    <3>1. CASE g \in {dir[Live(k)], dir[Bak(b, k)]}
      BY <3>1, <1>2, <2>1, <2>2, NothingLost DEF Kept
    <3>2. CASE \E c \in Builders \ {b} : g = dir[Bak(c, k)]
      BY <3>2, Frame DEF Kept, IInv
    <3>. QED  BY <2>3, <3>1, <3>2 DEF Kept
  <2>. QED  BY <2>1, <2>3 DEF Complete, Kinds
<1>. QED  BY <1>1, <1>2

\* Once a complete pair is on disk there always is one, for any number of builds,
\* whatever fails in them and whenever they are killed.
THEOREM PairNeverLostHolds == Spec => PairNeverLost
<1>1. IInv /\ [Next]_vars => [Complete # {} => Complete' # {}]_vars
  BY PairKept DEF Next, Terminating
<1>. QED  BY Invariance, <1>1, PTL DEF Spec, PairNeverLost

-----------------------------------------------------------------------------
\* A build that rolled back and says the previous pair is restored.
LEMMA RestoredHonest ==
  ASSUME IInv, NEW b \in Builders, RestoreIndex(b)
  PROVE  /\ outcome'[b] \in {"restored", "incomplete"}
         /\ outcome'[b] = "incomplete" => dir'[Live("index")] = None
         /\ outcome'[b] = "restored" =>
              \A k \in Kinds : /\ dir'[Live(k)] # None <=> k \in had[b]
                               /\ dir'[Live(k)] # b
                               /\ dir'[Bak(b, k)] = None
<1>1. /\ At(b, "restoreIndex") /\ outcome[b] = "running"
      /\ RolledBack(b) /\ TypeOK
      /\ ~rollbackError[b] => dir[Bak(b, "docs")] = None
      /\ dir[Bak(b, "index")] # None => "index" \in saved[b]
      /\ "index" \in saved[b] => "index" \in had[b]
  <2>1. At(b, "restoreIndex")
    BY DEF RestoreIndex
  <2>2. outcome[b] = "running"
    BY <2>1 DEF IInv, Residue, Ended, At, RollingBack
  <2>. QED
    BY <2>1, <2>2 DEF IInv, Residue, Accounted, Protocol, RolledBack, At, Kinds
\* Neither the public files nor the backup are of a build that has not committed.
<1>2. /\ dir[Live("index")] # b /\ dir[Bak(b, "index")] # b
      /\ ~rollbackError[b] => dir[Live("docs")] # b
  BY <1>1 DEF IInv, IndexesCommitted, DocsPlaced, PublicDocs, LeftDocs, Committed, At
<1>3. CASE /\ "index" \in saved[b] /\ ~rollbackError[b]
           /\ Rename(Bak(b, "index"), Live("index"))
           /\ ThrowAfterRollback(b, FALSE)
  <2>1. /\ dir'[Live("index")] = dir[Bak(b, "index")] /\ dir[Bak(b, "index")] # None
        /\ dir'[Bak(b, "index")] = None
        /\ dir'[Live("docs")] = dir[Live("docs")]
        /\ dir'[Bak(b, "docs")] = dir[Bak(b, "docs")]
    BY <1>1, <1>3, PathsDistinct DEF Rename, TypeOK, Kinds
  <2>2. outcome'[b] = "restored"
    BY <1>1, <1>3 DEF ThrowAfterRollback, End, TypeOK
  <2>. QED  BY <1>1, <1>2, <1>3, <2>1, <2>2 DEF RolledBack, At, Kinds
<1>4. CASE UNCHANGED dir /\ ThrowAfterRollback(b, TRUE)
           /\ "index" \in saved[b] /\ ~rollbackError[b]
  <2>1. outcome'[b] = "incomplete"
    BY <1>1, <1>4 DEF ThrowAfterRollback, End, TypeOK
  <2>2. dir[Live("index")] = None
    BY <1>1, <1>4 DEF RolledBack, At
  <2>. QED  BY <1>4, <2>1, <2>2
<1>5. CASE /\ ~("index" \in saved[b] /\ ~rollbackError[b])
           /\ UNCHANGED dir /\ ThrowAfterRollback(b, rollbackError[b])
  <2>1. outcome'[b] = IF rollbackError[b] THEN "incomplete" ELSE "restored"
    BY <1>1, <1>5 DEF ThrowAfterRollback, End, TypeOK
  <2>2. CASE rollbackError[b]
    BY <1>1, <1>5, <2>1, <2>2 DEF RolledBack, At
  <2>3. CASE ~rollbackError[b]
    BY <1>1, <1>2, <1>5, <2>1, <2>3 DEF RolledBack, At, Kinds
  <2>. QED  BY <2>2, <2>3
<1>. QED  BY <1>3, <1>4, <1>5 DEF RestoreIndex

\* A build that never reached the renames has left the public pair alone.
LEMMA UntouchedHonest ==
  ASSUME IInv, NEW b \in Builders, UNCHANGED dir,
         pc[b] \in Acquiring \cup Preparing \cup {"probeIndex", "probeDocs"}
  PROVE  \A k \in Kinds : dir'[Live(k)] # b /\ dir'[Bak(b, k)] = None
<1>1. outcome[b] = "running"
  BY DEF IInv, Residue, Ended, Installing
<1>2. saved[b] = {}
  BY DEF IInv, PairInv, Transaction, BeforeBackup, Acquiring, Preparing, RollingBack,
     CleaningUp
<1>3. \A k \in Kinds : dir[Bak(b, k)] = None
  BY <1>1, <1>2
     DEF IInv, Residue, Accounted, At, Acquiring, Preparing
<1>4. \A k \in Kinds : dir[Live(k)] # b
  BY <1>1 DEF IInv, IndexesCommitted, DocsPlaced, PublicDocs, LeftDocs, Committed, At,
     Acquiring, Preparing, Kinds
<1>. QED  BY <1>3, <1>4

\* A build that commits has both its files under the public names.
LEMMA CommittedHonest ==
  ASSUME IInv, NEW b \in Builders, InstallIndex(b)
  PROVE  outcome'[b] = "committed" /\ \A k \in Kinds : dir'[Live(k)] = b
<1>1. /\ dir[Live("docs")] = b /\ dir[Tmp(b, "index")] = b
  BY DEF InstallIndex, Rename, IInv, PairInv, FilesComplete, Transaction, Uncommitted, At,
     Installing
<1>. QED
  BY <1>1, PathsDistinct DEF InstallIndex, Rename, End, IInv, TypeOK, Kinds

LEMMA HonestStep ==
  ASSUME IInv, NEW b \in Builders, Build(b),
         outcome[b] = "running", outcome'[b] # "running"
  PROVE  /\ outcome'[b] = "restored" =>
              \A k \in Kinds : /\ dir'[Live(k)] # None <=> k \in had[b]
                               /\ dir'[Live(k)] # b
                               /\ dir'[Bak(b, k)] = None
         /\ outcome'[b] = "incomplete" => dir'[Live("index")] = None
         /\ outcome'[b] = "committed" => \A k \in Kinds : dir'[Live(k)] = b
         /\ outcome'[b] \in {"refused", "cancelled", "failed"} =>
              \A k \in Kinds : dir'[Live(k)] # b /\ dir'[Bak(b, k)] = None
<1> USE DEF IInv, TypeOK, At, End, ends
<1>1. CASE RefuseDocs(b) \/ RefuseIndex(b)
  <2>1. /\ outcome'[b] \in {"refused", "failed"} /\ UNCHANGED dir
        /\ pc[b] \in Acquiring
    BY <1>1 DEF RefuseDocs, RefuseIndex, Refuse, Acquiring
  <2>. QED  BY <2>1, UntouchedHonest
<1>2. CASE ChoosePaths(b) \/ Cancel(b) \/ Fail(b) \/ ProbeDocsFails(b)
  <2>1. /\ outcome'[b] \in {"cancelled", "failed"} /\ UNCHANGED dir
        /\ pc[b] \in Preparing \cup {"probeIndex", "probeDocs"}
    BY <1>2 DEF ChoosePaths, Cancel, Fail, ProbeDocsFails, Unwind, Proceed, Preparing
  <2>. QED  BY <2>1, UntouchedHonest
<1>3. CASE InstallIndex(b)
  BY <1>3, CommittedHonest
<1>4. CASE RestoreIndex(b)
  BY <1>4, RestoredHonest
<1>5. CASE Start(b) \/ AcquireDocs(b) \/ DescribeDocs(b) \/ AcquireIndex(b)
           \/ DescribeIndex(b) \/ Embed(b) \/ Verify(b) \/ EnterPublication(b)
  BY <1>5 DEF Start, AcquireDocs, AcquireIndex, Acquire, DescribeDocs,
       DescribeIndex, Describe, Embed, Verify, EnterPublication, Proceed
<1>6. CASE CreateDocs(b) \/ FinishDocs(b) \/ CreateIndex(b) \/ FinishIndex(b)
           \/ ProbeIndex(b) \/ ProbeDocs(b) \/ InstallFails(b)
  BY <1>6 DEF CreateDocs, FinishDocs, CreateIndex, FinishIndex, CreateTmp,
       FinishTmp, Proceed, ProbeIndex, ProbeDocs, Probe, InstallFails
<1>7. CASE BackupIndex(b) \/ BackupDocs(b) \/ InstallDocs(b) \/ WithdrawDocs(b)
           \/ DiscardDocs(b) \/ RestoreDocs(b)
  BY <1>7 DEF BackupIndex, BackupDocs, Backup, InstallDocs, Proceed, WithdrawDocs,
       DiscardDocs, RestoreDocs
<1>8. CASE DropTmpIndex(b) \/ DropTmpDocs(b) \/ Disown(b) \/ Kill(b)
  BY <1>8 DEF DropTmpIndex, DropTmpDocs, DropTmp, Disown, Kill
<1>9. CASE CleanIndex(b) \/ CleanDocs(b) \/ Unlock(b)
  <2>1. pc[b] \in {"cleanIndex", "cleanDocs", "unlock"}
    BY <1>9 DEF CleanIndex, CleanDocs, Clean, Unlock
  <2>2. outcome[b] # "running"
    BY <2>1 DEF Residue, Ended, Unwinding
  <2>. QED  BY <2>2
<1>. QED
  BY <1>1, <1>2, <1>3, <1>4, <1>5, <1>6, <1>7, <1>8, <1>9 DEF Build, Run

\* What a build reports of the directory is true when it decides to report it.
THEOREM OutcomeHonestHolds == Spec => OutcomeHonest
<1> DEFINE Honest ==
      \A b \in Builders : outcome[b] = "running" /\ outcome'[b] # "running" =>
       /\ outcome'[b] = "restored" =>
            \A k \in Kinds : /\ dir'[Live(k)] # None <=> k \in had[b]
                             /\ dir'[Live(k)] # b
                             /\ dir'[Bak(b, k)] = None
       /\ outcome'[b] = "incomplete" => dir'[Live("index")] = None
       /\ outcome'[b] = "committed" => \A k \in Kinds : dir'[Live(k)] = b
       /\ outcome'[b] \in {"refused", "cancelled", "failed"} =>
            \A k \in Kinds : dir'[Live(k)] # b /\ dir'[Bak(b, k)] = None
<1>1. IInv /\ [Next]_vars => [Honest]_vars
  <2> SUFFICES ASSUME IInv, Next, ~ UNCHANGED vars PROVE Honest
    OBVIOUS
  <2>1. PICK b \in Builders : Build(b)
    BY DEF Next, Terminating
  <2>2. \A c \in Builders \ {b} : outcome'[c] = outcome[c]
    BY <2>1, FrameEnds DEF IInv
  <2>. QED  BY <2>1, <2>2, HonestStep
<1>. QED  BY Invariance, <1>1, PTL DEF Spec, OutcomeHonest

-----------------------------------------------------------------------------
(***************************************************************************)
(* Publication implements ArtifactPair.                                    *)
(***************************************************************************)

LEMMA PairStarts == Init => Pair!Init
<1> SUFFICES ASSUME Init PROVE Pair!Init
  OBVIOUS
<1>1. VisiblePair \in {None, Old}
  <2>1. \A p \in Paths : dir[p] \in {None, Old}
    BY DEF Init
  <2>. QED  BY <2>1, PathsDistinct DEF VisiblePair, Kinds
<1>2. WithdrawnPair = None
  BY DEF Init, WithdrawnPair, Aside, InTransaction, RollingBack
<1>3. CommittedBuilds = {}
  BY DEF Init, CommittedBuilds, Committed
<1>. QED  BY <1>1, <1>2, <1>3 DEF Pair!Init

\* Whether b put a whole pair's index aside and may still bring it back.
HasAside(b) == InTransaction(b) /\ had[b] = Kinds /\ "index" \in saved[b]

\* While b is in the critical section nobody else has put an index aside, and what
\* its step does to the mapped state is decided by b alone.
LEMMA Mapped ==
  ASSUME IInv, NEW b \in Builders, Build(b), Critical(b)
  PROVE  /\ WithdrawnPair = IF HasAside(b) THEN dir[Bak(b, "index")] ELSE None
         /\ WithdrawnPair' = IF HasAside(b)' THEN dir'[Bak(b, "index")] ELSE None
         /\ (outcome[b] \in Committed <=> outcome'[b] \in Committed)
              => UNCHANGED CommittedBuilds
         /\ outcome[b] \notin Committed /\ outcome'[b] \in Committed
              => b \notin CommittedBuilds /\ CommittedBuilds' = CommittedBuilds \cup {b}
<1>1. \A c \in Builders \ {b} :
        /\ ~InTransaction(c) /\ ~InTransaction(c)'
        /\ outcome'[c] = outcome[c]
  BY Frame, FrameEnds, Exclusion
     DEF IInv, MutualExclusion, InTransaction, Critical, Installing
<1>2. /\ Aside = IF HasAside(b) THEN {b} ELSE {}
      /\ Aside' = IF HasAside(b)' THEN {b} ELSE {}
  BY <1>1 DEF Aside, HasAside
<1>3. (CHOOSE c \in {b} : TRUE) = b
  OBVIOUS
<1>4. /\ WithdrawnPair = IF HasAside(b) THEN dir[Bak(b, "index")] ELSE None
      /\ WithdrawnPair' = IF HasAside(b)' THEN dir'[Bak(b, "index")] ELSE None
  BY <1>2, <1>3 DEF WithdrawnPair
<1>. QED  BY <1>1, <1>4 DEF CommittedBuilds

\* Outside the critical section nothing happens to the pair.
LEMMA OutsideStutters ==
  ASSUME IInv, NEW b \in Builders, Build(b), ~Critical(b)
  PROVE  UNCHANGED <<VisiblePair, WithdrawnPair, CommittedBuilds>>
<1>1. /\ \A k \in Kinds : dir'[Live(k)] = dir[Live(k)]
      /\ ~InTransaction(b) /\ ~InTransaction(b)'
      /\ outcome[b] \in Committed <=> outcome'[b] \in Committed
  <2> USE PathsDistinct DEF IInv, TypeOK, InTransaction, Critical, At, Goto, End, locks,
      publishing, ends, Preparing, Installing, RollingBack, CleaningUp, Committed,
      Kinds
  <2>1. CASE Start(b) \/ AcquireDocs(b) \/ DescribeDocs(b) \/ AcquireIndex(b)
             \/ DescribeIndex(b)
    BY <2>1 DEF Start, AcquireDocs, AcquireIndex, Acquire, DescribeDocs,
         DescribeIndex, Describe
  <2>2. CASE RefuseDocs(b) \/ RefuseIndex(b)
    BY <2>2 DEF RefuseDocs, RefuseIndex, Refuse, Residue, Ended, Acquiring
  <2>3. CASE DropTmpIndex(b) \/ DropTmpDocs(b)
    BY <2>3 DEF DropTmpIndex, DropTmpDocs, DropTmp, Remove
  <2>4. CASE Disown(b) \/ Unlock(b) \/ Kill(b)
    BY <2>4 DEF Disown, Unlock, AfterUnlock, Kill
  <2>5. \/ Start(b) \/ AcquireDocs(b) \/ DescribeDocs(b) \/ AcquireIndex(b)
        \/ DescribeIndex(b) \/ RefuseDocs(b) \/ RefuseIndex(b)
        \/ DropTmpIndex(b) \/ DropTmpDocs(b) \/ Disown(b) \/ Unlock(b) \/ Kill(b)
    BY DEF Build, Run, ChoosePaths, Cancel, Fail, Embed, Verify, EnterPublication,
       CreateDocs, CreateIndex, CreateTmp, FinishDocs, FinishIndex, FinishTmp,
       ProbeIndex, ProbeDocs, Probe, ProbeDocsFails, BackupIndex, BackupDocs, Backup,
       InstallDocs, InstallIndex, InstallFails, WithdrawDocs, DiscardDocs,
       RestoreDocs, RestoreIndex, CleanIndex, CleanDocs, Clean
  <2>. QED  BY <2>1, <2>2, <2>3, <2>4, <2>5
<1>2. \A c \in Builders \ {b} :
        /\ InTransaction(c)' <=> InTransaction(c)
        /\ had'[c] = had[c] /\ saved'[c] = saved[c]
        /\ dir'[Bak(c, "index")] = dir[Bak(c, "index")]
        /\ outcome'[c] = outcome[c]
  BY Frame, FrameEnds DEF IInv, InTransaction, Kinds
<1>3. UNCHANGED VisiblePair
  BY <1>1 DEF VisiblePair, Kinds
<1>4. UNCHANGED CommittedBuilds
  BY <1>1, <1>2 DEF CommittedBuilds
<1>5. UNCHANGED WithdrawnPair
  <2>1. Aside' = Aside /\ b \notin Aside
    BY <1>1, <1>2 DEF Aside
  <2>2. CASE Aside = {}
    BY <2>1, <2>2 DEF WithdrawnPair
  <2>3. CASE Aside # {}
    <3>1. (CHOOSE c \in Aside : TRUE) \in Builders \ {b}
      BY <2>1, <2>3 DEF Aside
    <3>. QED  BY <2>1, <2>3, <3>1, <1>2 DEF WithdrawnPair
  <2>. QED  BY <2>2, <2>3
<1>. QED  BY <1>3, <1>4, <1>5

\* What a reader can use is decided by the two public files.
LEMMA VisibleIs ==
  /\ VisiblePair = IF dir[Live("index")] = None \/ dir[Live("docs")] = None
                   THEN None ELSE dir[Live("index")]
  /\ VisiblePair' = IF dir'[Live("index")] = None \/ dir'[Live("docs")] = None
                    THEN None ELSE dir'[Live("index")]
BY DEF VisiblePair, Kinds

\* A build inside the transaction that put an index aside has no usable pair
\* public, and is not committed.
LEMMA AsideHides ==
  ASSUME IInv, NEW b \in Builders, HasAside(b)
  PROVE  VisiblePair = None /\ outcome[b] \notin Committed
<1>1. dir[Live("index")] = None
  BY DEF HasAside, InTransaction, IInv, PairInv, Transaction, Uncommitted, Protocol,
     RolledBack, RollingBack
<1>2. outcome[b] = "running"
  BY DEF HasAside, InTransaction, IInv, Residue, Ended, Installing
<1>. QED  BY <1>1, <1>2, VisibleIs DEF Committed

\* A step inside the critical section is a step of the pair, or none.
LEMMA InsideMaps ==
  ASSUME IInv, NEW b \in Builders, Build(b), Critical(b)
  PROVE  Pair!Next \/ UNCHANGED <<VisiblePair, WithdrawnPair, CommittedBuilds>>
<1>0. /\ TypeOK /\ FilesComplete /\ BeforeBackup(b) /\ Uncommitted(b) /\ Ended(b)
      /\ Probed(b) /\ Replaced(b) /\ RolledBack(b)
      /\ outcome[b] \in Committed => pc[b] \in CleaningUp
  BY DEF IInv, PairInv, Transaction, Residue, Protocol, IndexesCommitted, Critical,
     Preparing, Installing, RollingBack, CleaningUp, Unwinding
<1>1. CASE ChoosePaths(b) \/ Cancel(b) \/ Fail(b) \/ Embed(b) \/ Verify(b)
           \/ EnterPublication(b) \/ CreateDocs(b) \/ FinishDocs(b)
           \/ CreateIndex(b) \/ FinishIndex(b)
           \/ ProbeIndex(b) \/ ProbeDocs(b) \/ ProbeDocsFails(b)
  <2> USE <1>0, PathsDistinct DEF TypeOK, At, Goto, End, ends, publishing,
      InTransaction, RollingBack, CleaningUp, Committed, Kinds
  <2>1. /\ \A k \in Kinds : dir'[Live(k)] = dir[Live(k)]
        /\ ~InTransaction(b) /\ ~InTransaction(b)'
        /\ outcome[b] \notin Committed /\ outcome'[b] \notin Committed
    <3>1. CASE ChoosePaths(b) \/ Cancel(b) \/ Fail(b) \/ Embed(b) \/ Verify(b)
               \/ EnterPublication(b)
      BY <3>1 DEF ChoosePaths, Cancel, Fail, Embed, Verify, EnterPublication, Unwind,
           Proceed
    <3>2. CASE CreateDocs(b) \/ FinishDocs(b) \/ CreateIndex(b) \/ FinishIndex(b)
      BY <3>2 DEF CreateDocs, FinishDocs, CreateIndex, FinishIndex, CreateTmp,
           FinishTmp, Proceed
    <3>3. CASE ProbeIndex(b) \/ ProbeDocs(b) \/ ProbeDocsFails(b)
      BY <3>3 DEF ProbeIndex, ProbeDocs, ProbeDocsFails, Probe
    <3>. QED  BY <1>1, <3>1, <3>2, <3>3
  <2>. QED  BY <2>1, Mapped, VisibleIs DEF HasAside
\* The previous index leaves its public name: of a pair, that withdraws the pair.
<1>2. CASE BackupIndex(b)
  <2>1. /\ outcome'[b] = outcome[b] /\ outcome[b] \notin Committed
        /\ dir'[Live("docs")] = dir[Live("docs")]
        /\ ~HasAside(b) /\ had'[b] = had[b] /\ InTransaction(b)'
        /\ saved[b] = {}
    BY <1>0, <1>2, PathsDistinct DEF BackupIndex, Backup, Rename, TypeOK, At, Goto, ends,
       HasAside, InTransaction, BeforeBackup, RollingBack, CleaningUp, Kinds
  <2>2. CASE "index" \in had[b]
    <3>1. /\ dir'[Live("index")] = None /\ dir'[Bak(b, "index")] = dir[Live("index")]
          /\ dir[Live("index")] # None /\ "index" \in saved'[b]
      BY <1>0, <1>2, <2>2, PathsDistinct DEF BackupIndex, Backup, Rename, TypeOK, Kinds
    <3>2. had[b] = Kinds <=> dir[Live("docs")] # None
      BY <1>0, <1>2, <2>2 DEF BackupIndex, Backup, At, Probed, TypeOK, Kinds
    <3>3. CASE dir[Live("docs")] # None
      <4>1. VisiblePair = dir[Live("index")] /\ VisiblePair' = None
        BY <3>1, <3>3, VisibleIs
      <4>2. WithdrawnPair' = dir[Live("index")] /\ UNCHANGED CommittedBuilds
        BY <2>1, <3>1, <3>2, <3>3, Mapped DEF HasAside
      <4>3. Pair!Withdraw
        BY <3>1, <4>1, <4>2 DEF Pair!Withdraw
      <4>. QED  BY <4>3 DEF Pair!Next
    <3>4. CASE dir[Live("docs")] = None
      <4>1. VisiblePair = None /\ VisiblePair' = None
        BY <2>1, <3>4, VisibleIs
      <4>2. WithdrawnPair = None /\ WithdrawnPair' = None /\ UNCHANGED CommittedBuilds
        BY <2>1, <3>2, <3>4, Mapped DEF HasAside
      <4>. QED  BY <4>1, <4>2
    <3>. QED  BY <3>3, <3>4
  <2>3. CASE "index" \notin had[b]
    <3>1. UNCHANGED dir
      BY <1>2, <2>3 DEF BackupIndex, Backup
    <3>. QED  BY <2>1, <2>3, <3>1, Mapped, VisibleIs DEF HasAside, Kinds
  <2>. QED  BY <2>2, <2>3
\* Until the index is renamed there is none.
<1>3. CASE BackupDocs(b) \/ InstallDocs(b) \/ WithdrawDocs(b) \/ DiscardDocs(b)
  <2>1. /\ dir[Live("index")] = None /\ dir'[Live("index")] = None
        /\ dir'[Bak(b, "index")] = dir[Bak(b, "index")]
        /\ outcome'[b] = outcome[b]
    BY <1>0, <1>3, PathsDistinct DEF BackupDocs, Backup, InstallDocs, WithdrawDocs,
       DiscardDocs, Proceed, Rename, Remove, TypeOK, At, ends, Uncommitted, Kinds
  <2>2. HasAside(b)' <=> HasAside(b)
    BY <1>0, <1>3 DEF BackupDocs, Backup, InstallDocs, WithdrawDocs, DiscardDocs, Proceed,
       TypeOK, At, Goto, publishing, HasAside, InTransaction, RollingBack, Kinds
  <2>. QED  BY <2>1, <2>2, Mapped, VisibleIs
<1>4. CASE InstallIndex(b)
  <2>1. /\ dir[Live("index")] = None /\ \A k \in Kinds : dir'[Live(k)] = b
        /\ outcome[b] = "running" /\ outcome'[b] = "committed"
        /\ pc'[b] = "cleanIndex"
    BY <1>0, <1>4, CommittedHonest
       DEF InstallIndex, TypeOK, At, Goto, Uncommitted, Ended, Installing
  <2>2. VisiblePair = None /\ VisiblePair' = b
    BY <2>1, VisibleIs, Distinct DEF Gens, Kinds
  <2>3. /\ b \notin CommittedBuilds /\ CommittedBuilds' = CommittedBuilds \cup {b}
        /\ WithdrawnPair' = None
    BY <2>1, Mapped DEF Committed, HasAside, InTransaction, RollingBack
  <2>4. Pair!Commit(b)
    BY <2>2, <2>3 DEF Pair!Commit
  <2>. QED  BY <2>4 DEF Pair!Next
<1>5. CASE InstallFails(b)
  <2>1. /\ UNCHANGED <<dir, had, saved, outcome>>
        /\ HasAside(b)' <=> HasAside(b)
    BY <1>0, <1>5 DEF InstallFails, publishing, ends, HasAside, InTransaction, TypeOK,
       Goto, BeforeBackup, RollingBack, CleaningUp
  <2>. QED  BY <2>1, Mapped, VisibleIs
<1>6. CASE RestoreDocs(b)
  <2>1. /\ dir'[Live("index")] = dir[Live("index")]
        /\ dir'[Bak(b, "index")] = dir[Bak(b, "index")]
        /\ dir'[Live("docs")] = dir[Live("docs")] \/ dir[Live("index")] = None
        /\ outcome'[b] = outcome[b]
    BY <1>0, <1>6, PathsDistinct DEF RestoreDocs, Rename, TypeOK, At, ends, RolledBack,
       Kinds
  <2>2. HasAside(b)' <=> HasAside(b)
    BY <1>0, <1>6 DEF RestoreDocs, TypeOK, At, Goto, HasAside, InTransaction, RollingBack
  <2>. QED  BY <2>1, <2>2, Mapped, VisibleIs
<1>7. CASE RestoreIndex(b)
  <2>1. /\ At(b, "restoreIndex") /\ ~HasAside(b)'
        /\ outcome[b] \notin Committed /\ outcome'[b] \notin Committed
        /\ dir'[Live("docs")] = dir[Live("docs")]
    BY <1>0, <1>7, RestoredHonest, PathsDistinct
       DEF RestoreIndex, ThrowAfterRollback, Rename, TypeOK, At, Goto, HasAside,
           InTransaction, RollingBack, CleaningUp, Committed, Kinds
  <2>2. WithdrawnPair' = None /\ UNCHANGED CommittedBuilds
    BY <2>1, Mapped
  <2>3. CASE UNCHANGED dir
    <3>1. UNCHANGED VisiblePair
      BY <2>3, VisibleIs
    <3>2. CASE HasAside(b)
      <4>1. Pair!Abandon
        BY <3>1, <3>2, <2>2, AsideHides DEF Pair!Abandon
      <4>. QED  BY <4>1 DEF Pair!Next
    <3>3. CASE ~HasAside(b)
      BY <3>1, <3>3, <2>2, Mapped
    <3>. QED  BY <3>2, <3>3
  <2>4. CASE /\ "index" \in saved[b] /\ ~rollbackError[b]
             /\ Rename(Bak(b, "index"), Live("index"))
    <3>1. /\ dir[Live("index")] = None /\ dir[Bak(b, "index")] # None
          /\ dir'[Live("index")] = dir[Bak(b, "index")]
          /\ had[b] = Kinds <=> dir[Live("docs")] # None
      BY <1>0, <2>1, <2>4, PathsDistinct DEF Rename, TypeOK, At, RolledBack, Kinds
    <3>2. CASE had[b] = Kinds
      <4>1. WithdrawnPair = dir[Bak(b, "index")]
        BY <2>1, <2>4, <3>2, Mapped DEF HasAside, InTransaction, At, RollingBack
      <4>2. VisiblePair = None /\ VisiblePair' = dir[Bak(b, "index")]
        BY <2>1, <3>1, <3>2, VisibleIs
      <4>3. Pair!Restore
        BY <2>2, <3>1, <4>1, <4>2 DEF Pair!Restore
      <4>. QED  BY <4>3 DEF Pair!Next
    <3>3. CASE had[b] # Kinds
      <4>1. VisiblePair = None /\ VisiblePair' = None
        BY <2>1, <3>1, <3>3, VisibleIs
      <4>2. WithdrawnPair = None
        BY <3>3, Mapped DEF HasAside
      <4>. QED  BY <2>2, <4>1, <4>2
    <3>. QED  BY <3>2, <3>3
  <2>. QED  BY <1>7, <2>3, <2>4 DEF RestoreIndex
<1>8. CASE CleanIndex(b) \/ CleanDocs(b)
  <2>1. \A k \in Kinds : dir'[Live(k)] = dir[Live(k)]
    BY <1>0, <1>8, PathsDistinct DEF CleanIndex, CleanDocs, Clean, Remove, TypeOK, Kinds
  <2>2. ~InTransaction(b) /\ ~InTransaction(b)'
    BY <1>0, <1>8 DEF CleanIndex, CleanDocs, Clean, TypeOK, At, Goto, InTransaction,
       RollingBack
  <2>3. outcome[b] \in Committed /\ outcome'[b] \in Committed
    BY <1>0, <1>8 DEF CleanIndex, CleanDocs, Clean, TypeOK, At, End, Ended, Committed
  <2>. QED  BY <2>1, <2>2, <2>3, Mapped, VisibleIs DEF HasAside, Kinds
<1>9. CASE Kill(b)
  <2>1. UNCHANGED <<dir, outcome>> /\ ~HasAside(b)'
    BY <1>0, <1>9 DEF Kill, TypeOK, Goto, HasAside, InTransaction, RollingBack
  <2>2. UNCHANGED VisiblePair /\ UNCHANGED CommittedBuilds /\ WithdrawnPair' = None
    BY <2>1, Mapped, VisibleIs
  <2>3. CASE HasAside(b)
    <3>1. Pair!Abandon
      BY <2>2, <2>3, AsideHides DEF Pair!Abandon
    <3>. QED  BY <3>1 DEF Pair!Next
  <2>4. CASE ~HasAside(b)
    BY <2>2, <2>4, Mapped
  <2>. QED  BY <2>3, <2>4
<1>10. ~(\/ Start(b) \/ AcquireDocs(b) \/ RefuseDocs(b) \/ DescribeDocs(b)
         \/ AcquireIndex(b) \/ RefuseIndex(b) \/ DescribeIndex(b)
         \/ DropTmpIndex(b) \/ DropTmpDocs(b) \/ Disown(b) \/ Unlock(b))
  BY DEF Start, AcquireDocs, AcquireIndex, Acquire, RefuseDocs, RefuseIndex, Refuse,
     DescribeDocs, DescribeIndex, Describe, DropTmpIndex, DropTmpDocs, DropTmp,
     Disown, Unlock, At, Critical, Preparing, Installing, RollingBack, CleaningUp
<1>. QED
  BY <1>1, <1>2, <1>3, <1>4, <1>5, <1>6, <1>7, <1>8, <1>9, <1>10 DEF Build, Run

\* Readers of the prefix see one pair at a time, replaced by a committed one or
\* brought back, for any number of builds: the refinement of ArtifactPair.
THEOREM ArtifactPairImplemented == Spec => ImplementsArtifactPair
<1>1. IInv /\ [Next]_vars => [Pair!Next]_(Pair!vars)
  <2>1. ASSUME IInv, NEW b \in Builders, Build(b)
        PROVE  Pair!Next \/ UNCHANGED <<VisiblePair, WithdrawnPair, CommittedBuilds>>
    BY <2>1, InsideMaps, OutsideStutters
  <2>2. ASSUME UNCHANGED vars
        PROVE  UNCHANGED <<VisiblePair, WithdrawnPair, CommittedBuilds>>
    BY <2>2 DEF vars, VisiblePair, WithdrawnPair, Aside, InTransaction, CommittedBuilds
  <2>. QED  BY <2>1, <2>2 DEF Next, Terminating, Pair!vars
<1>. QED
  BY PairStarts, Invariance, <1>1, PTL DEF Spec, ImplementsArtifactPair, Pair!Spec
-----------------------------------------------------------------------------
(* Search sessions next to builds.                                         *)
\* While a build may still restore an index no index is public.
LEMMA NothingToRestore ==
  ASSUME IInv, dir[Live("index")] # None, NEW b \in Builders,
         "index" \in saved[b]
  PROVE  pc[b] \in CleaningUp
BY DEF IInv, PairInv, Transaction, BeforeBackup, Uncommitted, Protocol, RolledBack,
   RollingBack

\* Where the public index and a backup come from in one step of a build: an index
\* becomes public when its build commits, or from a backup that can be restored.
LEMMA IndexOrigin ==
  ASSUME IInv, NEW b \in Builders, Build(b)
  PROVE  /\ \/ dir'[Live("index")] \in {dir[Live("index")], None}
            \/ /\ dir'[Live("index")] = dir[Bak(b, "index")]
               /\ "index" \in saved[b] /\ pc[b] \notin CleaningUp
            \/ dir'[Live("index")] = b /\ outcome[b] = "running"
         /\ "index" \in saved'[b] /\ pc'[b] \notin CleaningUp =>
              \/ dir'[Bak(b, "index")] \in {dir[Live("index")], None}
              \/ /\ dir'[Bak(b, "index")] = dir[Bak(b, "index")]
                 /\ "index" \in saved[b] /\ pc[b] \notin CleaningUp
<1>0. /\ TypeOK /\ FilesComplete /\ BeforeBackup(b) /\ Ended(b)
  BY DEF IInv, PairInv, Transaction, Residue
<1> USE <1>0, PathsDistinct DEF TypeOK, At, Goto, ends, publishing, BeforeBackup, Ended,
    Installing, RollingBack, CleaningUp, Kinds
<1>1. CASE Start(b) \/ AcquireDocs(b) \/ RefuseDocs(b) \/ DescribeDocs(b)
           \/ AcquireIndex(b) \/ RefuseIndex(b) \/ DescribeIndex(b)
  BY <1>1 DEF Start, AcquireDocs, AcquireIndex, Acquire, RefuseDocs, RefuseIndex,
       Refuse, DescribeDocs, DescribeIndex, Describe
<1>2. CASE ChoosePaths(b) \/ Cancel(b) \/ Fail(b) \/ Embed(b) \/ Verify(b)
           \/ EnterPublication(b)
  BY <1>2 DEF ChoosePaths, Cancel, Fail, Embed, Verify, EnterPublication, Unwind,
       Proceed
<1>3. CASE CreateDocs(b) \/ FinishDocs(b) \/ CreateIndex(b) \/ FinishIndex(b)
  BY <1>3 DEF CreateDocs, FinishDocs, CreateIndex, FinishIndex, CreateTmp,
       FinishTmp, Proceed
<1>4. CASE ProbeIndex(b) \/ ProbeDocs(b) \/ ProbeDocsFails(b) \/ InstallFails(b)
  BY <1>4 DEF ProbeIndex, ProbeDocs, ProbeDocsFails, Probe, InstallFails, LeavePublish
<1>5. CASE BackupIndex(b) \/ BackupDocs(b) \/ InstallDocs(b)
  BY <1>5 DEF BackupIndex, BackupDocs, Backup, InstallDocs, Rename, Proceed
<1>6. CASE InstallIndex(b)
  BY <1>6 DEF InstallIndex, Rename, FilesComplete
<1>7. CASE WithdrawDocs(b) \/ DiscardDocs(b) \/ RestoreDocs(b)
  BY <1>7 DEF WithdrawDocs, DiscardDocs, RestoreDocs, Rename, Remove
<1>8. CASE RestoreIndex(b)
  BY <1>8 DEF RestoreIndex, ThrowAfterRollback, LeavePublish, Rename
<1>9. CASE CleanIndex(b) \/ CleanDocs(b)
  BY <1>9 DEF CleanIndex, CleanDocs, Clean, LeavePublish, Remove
<1>10. CASE DropTmpIndex(b) \/ DropTmpDocs(b) \/ Disown(b) \/ Unlock(b) \/ Kill(b)
  <2>1. /\ dir'[Live("index")] = dir[Live("index")]
        /\ pc[b] \in Unwinding => "index" \notin saved'[b]
        /\ Kill(b) => "index" \notin saved'[b]
        /\ ~Kill(b) => pc[b] \in Unwinding
    BY <1>10 DEF DropTmpIndex, DropTmpDocs, DropTmp, Remove, Disown, Unlock, Kill,
         LeavePublish, Unwinding
  <2>. QED  BY <1>10, <2>1
<1>. QED
  BY <1>1, <1>2, <1>3, <1>4, <1>5, <1>6, <1>7, <1>8, <1>9, <1>10 DEF Build, Run

\* A retired index stays retired.
LEMMA RetiredStays ==
  ASSUME IInv, NEW g \in Gens, Retired(g), NEW b \in Builders, Build(b)
  PROVE  Retired(g)'
<1>1. g \in Builders => outcome'[g] \in Committed
  BY CommittedStays DEF Retired, IInv
<1>2. dir'[Live("index")] # g
  <2>1. CASE dir'[Live("index")] \in {dir[Live("index")], None}
    BY <2>1, Distinct DEF Retired
  <2>2. CASE /\ dir'[Live("index")] = dir[Bak(b, "index")]
             /\ "index" \in saved[b] /\ pc[b] \notin CleaningUp
    BY <2>2 DEF Retired
  <2>3. CASE dir'[Live("index")] = b /\ outcome[b] = "running"
    BY <2>3 DEF Retired, Committed
  <2>. QED  BY <2>1, <2>2, <2>3, IndexOrigin
<1>3. ASSUME NEW c \in Builders, "index" \in saved'[c], pc'[c] \notin CleaningUp
      PROVE  dir'[Bak(c, "index")] # g
  <2>1. CASE c = b
    BY <1>3, <2>1, IndexOrigin, Distinct DEF Retired
  <2>2. CASE c # b
    BY <1>3, <2>2, Frame DEF Retired, IInv, Kinds
  <2>. QED  BY <2>1, <2>2
<1>. QED  BY <1>1, <1>2, <1>3 DEF Retired

-----------------------------------------------------------------------------
IReader == IInv /\ ReaderInv

LEMMA ReaderStart == ReaderInit => IReader
<1> SUFFICES ASSUME ReaderInit PROVE IReader
  OBVIOUS
<1>1. IInv
  BY Starts DEF ReaderInit
<1>2. ReaderTypeOK /\ SessionsValid
  BY DEF ReaderInit, ReaderTypeOK, SessionsValid
<1>3. LoadsOnlyCommitted /\ AnswersFromOneCorpus
  BY Distinct DEF ReaderInit, LoadsOnlyCommitted, AnswersFromOneCorpus, Gens
<1>4. Superseded /\ NeverBack
  BY Distinct DEF ReaderInit, Superseded, NeverBack, Gens
<1>. QED  BY <1>1, <1>2, <1>3, <1>4 DEF IReader, ReaderInv

\* A build never touches what a session holds, and never brings a retired index
\* back.
LEMMA BuildKeepsSessions ==
  ASSUME IReader, NEW b \in Builders, Build(b), UNCHANGED sessions
  PROVE  IReader'
<1> USE DEF IReader, ReaderInv
<1>1. IInv'
  BY BuildStep
<1>2. ReaderTypeOK' /\ SessionsValid' /\ AnswersFromOneCorpus' /\ NeverBack'
  BY DEF ReaderTypeOK, SessionsValid, AnswersFromOneCorpus, NeverBack, sessions, Matches
<1>3. LoadsOnlyCommitted'
  BY CommittedStays DEF LoadsOnlyCommitted, sessions, IInv
<1>4. Superseded'
  <2> SUFFICES ASSUME NEW r \in Readers, NEW s, s = served[r][1]
               PROVE  /\ \A g \in past[r] : Retired(g)'
                      /\ s \in Builders => outcome'[s] \in Committed
                      /\ rindex[r] # None =>
                           /\ rindex[r] \notin past[r]
                           /\ s \in {None, rindex[r]} \/ Retired(s)'
    BY DEF Superseded, sessions, Retired
  <2>1. past[r] \subseteq Gens /\ s \in Gens \cup {None}
    BY DEF ReaderTypeOK
  <2>2. \A g \in past[r] : Retired(g)'
    BY <2>1, RetiredStays DEF Superseded
  <2>3. s \in Builders => outcome'[s] \in Committed
    BY CommittedStays DEF Superseded, IInv
  <2>4. rindex[r] # None =>
          /\ rindex[r] \notin past[r]
          /\ s \in {None, rindex[r]} \/ Retired(s)
    BY DEF Superseded
  <2>5. s # None /\ Retired(s) => Retired(s)'
    BY <2>1, RetiredStays
  <2>. QED  BY <2>2, <2>3, <2>4, <2>5
<1>. QED  BY <1>1, <1>2, <1>3, <1>4

\* Once an index is public every other one that was is retired.
LEMMA LoadRetires ==
  ASSUME IReader, dir[Live("index")] # None, NEW r \in Readers
  PROVE  /\ dir[Live("index")] \notin past[r]
         /\ \/ served[r][1] \in {None, dir[Live("index")]}
            \/ Retired(served[r][1])
<1>1. dir[Live("index")] \notin past[r]
  BY DEF IReader, ReaderInv, Superseded, Retired
<1>2. \A b \in Builders : "index" \in saved[b] => pc[b] \in CleaningUp
  BY NothingToRestore DEF IReader
<1>. QED  BY <1>1, <1>2 DEF IReader, ReaderInv, Superseded, Retired

\* A session never touches the directory, and keeps its own promises.
LEMMA SessionStep ==
  ASSUME IReader, NEW r \in Readers, Session(r)
  PROVE  IReader'
<1> USE DEF IReader, ReaderInv, Move
<1>1. UNCHANGED vars
  BY DEF Session, LoadIndex, OpenDocuments, OpenFails, ValidatePair, Search, Close,
     Leave
<1>2. IInv'
  BY <1>1, Stuttering
<1>3. ReaderTypeOK' /\ SessionsValid' /\ LoadsOnlyCommitted' /\ AnswersFromOneCorpus'
  <2> USE <1>1, Distinct DEF vars, ReaderTypeOK, SessionsValid, LoadsOnlyCommitted,
      AnswersFromOneCorpus, Matches
  <2>1. CASE LoadIndex(r)
    BY <2>1 DEF LoadIndex, IInv, IndexesCommitted, Gens
  <2>2. CASE OpenDocuments(r)
    BY <2>2 DEF OpenDocuments
  <2>3. CASE OpenFails(r) \/ Close(r)
    BY <2>3 DEF OpenFails, Close, Leave, Gens
  <2>4. CASE ValidatePair(r)
    BY <2>4 DEF ValidatePair
  <2>5. CASE Search(r)
    BY <2>5 DEF Search, Gens
  <2>. QED  BY <2>1, <2>2, <2>3, <2>4, <2>5 DEF Session
<1>4. Superseded' /\ NeverBack'
  <2>0. \A g : Retired(g)' <=> Retired(g)
    BY <1>1 DEF vars, Retired
  <2> USE <1>1, <2>0, Distinct DEF vars, ReaderTypeOK, Superseded, NeverBack
  <2>1. CASE LoadIndex(r)
    BY <2>1, LoadRetires DEF LoadIndex, Gens
  <2>2. CASE OpenDocuments(r) \/ ValidatePair(r)
    BY <2>2 DEF OpenDocuments, ValidatePair
  <2>3. CASE OpenFails(r) \/ Close(r)
    BY <2>3 DEF OpenFails, Close, Leave
  \* The answer is from the index the session loaded; another one that it had
  \* answers from before is in the past now.
  <2>4. CASE Search(r)
    <3>1. /\ served'[r][1] = rindex[r] /\ rindex' = rindex
          /\ past'[r] \subseteq past[r] \cup
               (IF served[r][1] \in {None, rindex[r]} THEN {} ELSE {served[r][1]})
          /\ \A q \in Readers \ {r} : served'[q] = served[q] /\ past'[q] = past[q]
      BY <2>4 DEF Search
    <3>2. rindex[r] # None /\ (rindex[r] \in Builders => outcome[rindex[r]] \in Committed)
      BY <2>4 DEF Search, SessionsValid, Matches, LoadsOnlyCommitted
    <3>. QED  BY <3>1, <3>2
  <2>. QED  BY <2>1, <2>2, <2>3, <2>4 DEF Session
<1>. QED  BY <1>2, <1>3, <1>4

-----------------------------------------------------------------------------
\* Where the operator stops the builds, all of their invariant survives the
\* doctor, and the pair it has found valid stays public while it removes backups.
StoppedInv ==
  /\ IInv
  /\ dpc # "idle" => Quiet
  /\ dpc = "openDocuments" => pairIndex = dir[Live("index")]
  /\ dpc \in {"idle", "loadIndex", "openDocuments"} => ~pairValid
  /\ pairValid => \A k \in Kinds : dir[Live(k)] # None

\* Where builds run into it, the locks and every single transaction stay as they
\* are.
IDoctor ==
  /\ TypeOK /\ LocksHeld /\ PairInv /\ DoctorTypeOK
  /\ \A p \in leftovers : p[1] \in {"tmp", "bak"}
  /\ dpc \in {"rmdirIndex", "rmdirDocs"} => "forceUnlock" \in flags
  /\ regime = "stopped" => StoppedInv

LEMMA DoctorStarts == DoctorInit => IDoctor
<1> SUFFICES ASSUME DoctorInit PROVE IDoctor
  OBVIOUS
<1>1. IInv
  BY Starts DEF DoctorInit
<1>2. DoctorTypeOK
  BY DEF DoctorInit, DoctorTypeOK, Contents, LockReports
<1>3. StoppedInv
  BY <1>1 DEF DoctorInit, StoppedInv
<1>. QED
  BY <1>1, <1>2, <1>3 DEF IDoctor, IInv, DoctorInit

\* The doctor touches nothing but temporaries, backups and, when it was told to,
\* lock directories.
LEMMA DoctorTouches ==
  ASSUME IDoctor, Doctor
  PROVE  /\ UNCHANGED <<held, pc, publishing, ends>>
         /\ TypeOK'
         /\ \A k \in Kinds : dir'[Live(k)] = dir[Live(k)]
         /\ \A p \in Paths : dir'[p] \in {dir[p], None}
         /\ \A k \in Kinds : lock'[k] \in {lock[k], None}
         /\ "forceUnlock" \in flags \/ UNCHANGED lock
         /\ dpc # "idle" \/ UNCHANGED <<dir, lock>>
<1>0. TypeOK
  BY DEF IDoctor
<1>1. CASE UNCHANGED vars
  BY <1>0, <1>1 DEF vars, publishing, ends, TypeOK
<1>2. ASSUME NEW p \in Paths, Repair(p)
      PROVE  /\ UNCHANGED <<locks, pc, publishing, ends>> /\ dpc # "idle"
             /\ dir' \in [Paths -> Contents]
             /\ \A k \in Kinds : dir'[Live(k)] = dir[Live(k)]
             /\ \A q \in Paths : dir'[q] \in {dir[q], None}
  <2>1. p[1] \in {"tmp", "bak"} /\ \A k \in Kinds : p # Live(k)
    BY <1>2 DEF IDoctor, Repair, Live
  <2>. QED
    BY <1>0, <1>2, <2>1, PathsDistinct DEF Repair, Remove, TypeOK, Contents
<1>3. ASSUME NEW k \in Kinds, NEW from, NEW to, NEW skip, from # "idle",
             RemoveDescriptor(k, from, to, skip)
      PROVE  /\ UNCHANGED <<dir, lock, held, pc, publishing, ends>>
             /\ owner' \in [Kinds -> Builders \cup {None}] /\ dpc # "idle"
  BY <1>0, <1>3 DEF RemoveDescriptor, TypeOK
<1>4. ASSUME NEW k \in Kinds, NEW from, NEW to, from \in {"rmdirIndex", "rmdirDocs"},
             RemoveLock(k, from, to)
      PROVE  /\ UNCHANGED <<dir, owner, held, pc, publishing, ends>>
             /\ lock' \in [Kinds -> Builders \cup {None}]
             /\ \A l \in Kinds : lock'[l] \in {lock[l], None}
             /\ "forceUnlock" \in flags /\ dpc # "idle"
  BY <1>0, <1>4 DEF RemoveLock, Step, IDoctor, TypeOK
<1>5. CASE UnlockIndex \/ UnlockDocs
  <2>1. CASE \/ RemoveDescriptor("index", "unlockIndex", "rmdirIndex", "unlockDocs")
             \/ RemoveDescriptor("docs", "unlockDocs", "rmdirDocs", "return")
    <3>1. /\ UNCHANGED <<dir, lock, held, pc, publishing, ends>>
          /\ owner' \in [Kinds -> Builders \cup {None}]
      BY <2>1, <1>3 DEF Kinds
    <3>. QED  BY <1>0, <3>1 DEF TypeOK, publishing, ends
  <2>2. CASE \/ RemoveLock("index", "rmdirIndex", "unlockDocs")
             \/ RemoveLock("docs", "rmdirDocs", "return")
    <3>1. /\ UNCHANGED <<dir, owner, held, pc, publishing, ends>>
          /\ lock' \in [Kinds -> Builders \cup {None}]
          /\ \A l \in Kinds : lock'[l] \in {lock[l], None}
          /\ "forceUnlock" \in flags /\ dpc # "idle"
      BY <2>2, <1>4 DEF Kinds
    <3>. QED  BY <1>0, <3>1 DEF TypeOK, publishing, ends
  <2>. QED  BY <1>5, <2>1, <2>2 DEF UnlockIndex, UnlockDocs
<1>6. CASE \E p \in Paths : Repair(p)
  <2>1. /\ UNCHANGED <<locks, pc, publishing, ends>> /\ dpc # "idle"
        /\ dir' \in [Paths -> Contents]
        /\ \A k \in Kinds : dir'[Live(k)] = dir[Live(k)]
        /\ \A q \in Paths : dir'[q] \in {dir[q], None}
    BY <1>2, <1>6
  <2>. QED  BY <1>0, <2>1 DEF TypeOK, locks, publishing, ends
<1>7. \/ UNCHANGED vars \/ UnlockIndex \/ UnlockDocs \/ \E p \in Paths : Repair(p)
  BY DEF Doctor, Begin, LoadLiveIndex, OpenLiveDocuments, InspectIndexLock,
     InspectDocsLock, Inspect, CollectLeftovers, Decide, RepairDone, Return, Killed,
     Forget
<1>. QED  BY <1>1, <1>5, <1>6, <1>7

\* The doctor's own variables: it looks only at leftovers, and comes to a lock
\* directory only with --force-unlock.
LEMMA DoctorTyped ==
  ASSUME IDoctor, Doctor, UNCHANGED regime
  PROVE  /\ DoctorTypeOK'
         /\ \A p \in leftovers' : p[1] \in {"tmp", "bak"}
         /\ dpc' \in {"rmdirIndex", "rmdirDocs"} => "forceUnlock" \in flags'
<1>0. /\ DoctorTypeOK
      /\ \A p \in leftovers : p[1] \in {"tmp", "bak"}
      /\ dpc \in {"rmdirIndex", "rmdirDocs"} => "forceUnlock" \in flags
      /\ \A k \in Kinds : dir[Live(k)] \in Contents
  BY PathsDistinct DEF IDoctor, TypeOK
<1> USE <1>0 DEF DoctorTypeOK, Step
<1>1. CASE Begin
  BY <1>1, OptionsAssumption DEF Begin
<1>2. CASE LoadLiveIndex
  BY <1>2 DEF LoadLiveIndex, Kinds
<1>3. CASE OpenLiveDocuments
  <2>1. pairValid' \in BOOLEAN
    BY <1>3 DEF OpenLiveDocuments, Matches
  <2>. QED  BY <1>3, <2>1 DEF OpenLiveDocuments, Contents
<1>4. CASE InspectIndexLock \/ InspectDocsLock
  <2>1. report' \in [Kinds -> LockReports]
    BY <1>4 DEF InspectIndexLock, InspectDocsLock, Inspect, LockReports, Kinds
  <2>. QED  BY <1>4, <2>1 DEF InspectIndexLock, InspectDocsLock, Inspect
<1>5. CASE CollectLeftovers
  BY <1>5 DEF CollectLeftovers, IsLeftover
<1>6. CASE Decide
  BY <1>6 DEF Decide
<1>7. CASE \E p \in Paths : Repair(p)
  BY <1>7 DEF Repair
<1>8. CASE RepairDone
  BY <1>8 DEF RepairDone
<1>9. CASE UnlockIndex
  BY <1>9 DEF UnlockIndex, RemoveDescriptor, RemoveLock, Unlocks
<1>10. CASE UnlockDocs
  BY <1>10 DEF UnlockDocs, RemoveDescriptor, RemoveLock, Unlocks
<1>11. CASE Return \/ Killed
  BY <1>11 DEF Return, Killed, Forget, Contents, LockReports
<1>. QED
  BY <1>1, <1>2, <1>3, <1>4, <1>5, <1>6, <1>7, <1>8, <1>9, <1>10, <1>11 DEF Doctor

\* What the doctor takes away is never what the invariant of a transaction needs:
\* a rename of a file that is gone fails.
LEMMA DoctorKeepsPair ==
  ASSUME IDoctor, Doctor
  PROVE  PairInv'
<1>1. /\ UNCHANGED <<held, pc, publishing, ends>>
      /\ \A k \in Kinds : dir'[Live(k)] = dir[Live(k)]
      /\ \A b \in Builders, k \in Kinds :
           /\ dir'[Tmp(b, k)] \in {dir[Tmp(b, k)], None}
           /\ dir'[Bak(b, k)] \in {dir[Bak(b, k)], None}
  BY DoctorTouches, PathsDistinct
<1>2. FilesComplete' /\ OfOneBuild(dir[Live("index")], dir[Live("docs")])'
  BY <1>1 DEF IDoctor, PairInv, FilesComplete, OfOneBuild, Kinds
<1>3. Transaction'
  <2> SUFFICES ASSUME NEW b \in Builders
               PROVE  (BeforeBackup(b) /\ Uncommitted(b) /\ Restorable(b))'
    BY DEF Transaction
  <2>1. BeforeBackup(b) /\ Uncommitted(b) /\ Restorable(b)
    BY DEF IDoctor, PairInv, Transaction
  <2>2. BeforeBackup(b)'
    BY <1>1, <2>1 DEF BeforeBackup, publishing, Kinds
  <2>3. Uncommitted(b)'
    BY <1>1, <2>1 DEF Uncommitted, OfOneBuild, publishing, Kinds
  <2>4. Restorable(b)'
    BY <1>1, <2>1 DEF Restorable, OfOneBuild, publishing, Kinds
  <2>. QED  BY <2>2, <2>3, <2>4
<1>. QED  BY <1>2, <1>3 DEF PairInv

\* While the builds are stopped nobody holds a lock.
LEMMA QuietHoldsNone ==
  ASSUME LocksHeld, Residue, Quiet, NEW b \in Builders
  PROVE  held[b] = {} /\ pc[b] \in {"idle", "done", "killed"}
BY DEF LocksHeld, Residue, Quiet, ProcessExists, At

\* A lock directory is removed only while the builds are stopped, unless the
\* operator forces it against a running build.
LEMMA DoctorKeepsLocks ==
  ASSUME IDoctor, Doctor, regime = "racing" => "forceUnlock" \notin flags
  PROVE  LocksHeld'
<1>1. /\ UNCHANGED <<held, pc, publishing, ends>>
      /\ "forceUnlock" \in flags \/ UNCHANGED lock
      /\ dpc # "idle" \/ UNCHANGED lock
  BY DoctorTouches
<1>2. CASE UNCHANGED lock
  BY <1>1, <1>2 DEF IDoctor, LocksHeld, Critical
<1>3. CASE regime = "stopped" /\ Quiet
  BY <1>1, <1>3, QuietHoldsNone
     DEF IDoctor, StoppedInv, IInv, LocksHeld, Critical, Preparing, Installing,
         RollingBack, CleaningUp
<1>. QED
  BY <1>1, <1>2, <1>3, RegimesAssumption DEF IDoctor, StoppedInv, DoctorTypeOK

\* While the builds are stopped the doctor keeps the rest of their invariant.
LEMMA DoctorKeepsBuilds ==
  ASSUME IDoctor, Doctor, regime = "stopped", Quiet
  PROVE  IInv'
<1>1. /\ UNCHANGED <<held, pc, publishing, ends>>
      /\ \A k \in Kinds : /\ dir'[Live(k)] = dir[Live(k)]
                          /\ lock'[k] \in {lock[k], None}
      /\ \A b \in Builders, k \in Kinds :
           /\ dir'[Tmp(b, k)] \in {dir[Tmp(b, k)], None}
           /\ dir'[Bak(b, k)] \in {dir[Bak(b, k)], None}
  BY DoctorTouches, PathsDistinct
<1>2. IInv /\ \A b \in Builders : held[b] = {} /\ pc[b] \in {"idle", "done", "killed"}
  BY QuietHoldsNone DEF IDoctor, StoppedInv, IInv
<1>3. TypeOK' /\ LocksHeld' /\ PairInv'
  BY DoctorTouches, DoctorKeepsLocks, DoctorKeepsPair
<1>4. Residue'
  BY <1>1, <1>2, Distinct
     DEF IInv, Residue, Ended, Accounted, At, publishing, ends, CleaningUp, Kinds, Gens
<1>5. Contention'
  BY <1>1, <1>2, Distinct DEF IInv, Contention, Contends, ends, Kinds, Gens
<1>6. IndexesCommitted'
  BY <1>1, <1>2, Distinct DEF IInv, IndexesCommitted, ends, Kinds, Gens
<1>7. DocsPlaced'
  BY <1>1, <1>2, Distinct
     DEF IInv, DocsPlaced, PublicDocs, LeftDocs, At, publishing, ends, Kinds, Gens
<1>8. Protocol'
  BY <1>1, <1>2
     DEF IInv, Protocol, Probed, Replaced, RolledBack, At, publishing, Installing,
         RollingBack, CleaningUp, Kinds
<1>. QED  BY <1>3, <1>4, <1>5, <1>6, <1>7, <1>8 DEF IInv

\* What the doctor has seen of the live pair is still so when it acts on it.
LEMMA DoctorKeepsStopped ==
  ASSUME IDoctor, Doctor, UNCHANGED regime, regime = "stopped"
  PROVE  StoppedInv'
<1>0. /\ StoppedInv
      /\ \A k \in Kinds : dir'[Live(k)] = dir[Live(k)]
      /\ UNCHANGED pc
  BY DoctorTouches DEF IDoctor
<1>1. Quiet /\ Quiet'
  <2>1. dpc # "idle" \/ Begin
    BY DEF Doctor, LoadLiveIndex, OpenLiveDocuments, InspectIndexLock, InspectDocsLock,
       Inspect, CollectLeftovers, Decide, Repair, RepairDone, UnlockIndex, UnlockDocs,
       RemoveDescriptor, RemoveLock, Return, Killed, Step
  <2>2. Quiet
    BY <1>0, <2>1 DEF StoppedInv, Begin
  <2>. QED  BY <1>0, <2>2 DEF Quiet, ProcessExists
<1>2. IInv'
  BY <1>1, DoctorKeepsBuilds
<1>3. dpc' = "openDocuments" => pairIndex' = dir'[Live("index")]
  BY <1>0 DEF Doctor, Begin, LoadLiveIndex, OpenLiveDocuments, InspectIndexLock,
     InspectDocsLock, Inspect, CollectLeftovers, Decide, Repair, RepairDone,
     UnlockIndex, UnlockDocs, RemoveDescriptor, RemoveLock, Return, Killed, Forget,
     Step, Kinds
<1>4. CASE OpenLiveDocuments
  BY <1>0, <1>1, <1>2, <1>3, <1>4, Distinct
     DEF OpenLiveDocuments, Step, StoppedInv, Matches, Gens, Kinds
<1>5. CASE ~OpenLiveDocuments
  <2>1. \/ ~pairValid'
        \/ /\ pairValid' = pairValid
           /\ dpc' \notin {"idle", "loadIndex", "openDocuments"}
    BY <1>0, <1>5 DEF StoppedInv, Doctor, Begin, LoadLiveIndex, InspectIndexLock,
       InspectDocsLock, Inspect, CollectLeftovers, Decide, Repair, RepairDone,
       UnlockIndex, UnlockDocs, RemoveDescriptor, RemoveLock, Return, Killed, Forget,
       Step
  <2>. QED  BY <1>0, <1>1, <1>2, <1>3, <2>1 DEF StoppedInv
<1>. QED  BY <1>4, <1>5

LEMMA DoctorStep ==
  ASSUME IDoctor, regime = "racing" => "forceUnlock" \notin flags, DoctorNext
  PROVE  IDoctor'
<1>1. CASE Doctor
  BY <1>1, DoctorTouches, DoctorTyped, DoctorKeepsPair, DoctorKeepsLocks,
     DoctorKeepsStopped DEF IDoctor, DoctorNext
<1>2. ASSUME NEW b \in Builders, Build(b), regime = "stopped" => dpc = "idle",
             UNCHANGED doctor, UNCHANGED regime
      PROVE  IDoctor'
  <2>1. TypeOK' /\ LocksHeld' /\ PairInv'
    BY <1>2, TypeStep, LocksStep, PairStep DEF IDoctor
  <2>2. regime = "stopped" => StoppedInv'
    BY <1>2, BuildStep DEF IDoctor, StoppedInv, doctor
  <2>3. UNCHANGED <<dpc, flags, pairIndex, pairValid, report, leftovers, regime>>
    BY <1>2 DEF doctor
  <2>4. DoctorTypeOK'
    BY <2>3 DEF IDoctor, DoctorTypeOK
  <2>. QED  BY <2>1, <2>2, <2>3, <2>4 DEF IDoctor
<1>. QED  BY <1>1, <1>2 DEF DoctorNext

\* A backup is removed only next to a public pair, both files of which are of one
\* build.
LEMMA StoppedKeepsPair ==
  ASSUME IDoctor, DoctorNext, regime = "stopped", Complete # {}
  PROVE  Complete' # {}
<1>1. ASSUME NEW b \in Builders, Build(b) PROVE Complete' # {}
  BY <1>1, PairKept DEF IDoctor, StoppedInv
<1>2. CASE UNCHANGED dir
  BY <1>2 DEF Complete, Kept
<1>3. ASSUME NEW p \in Paths, Repair(p), Removable(p), Remove(p)
      PROVE  Complete' # {}
  <2>1. /\ \A k \in Kinds : dir'[Live(k)] = dir[Live(k)]
        /\ p[1] \in {"tmp", "bak"}
    BY <1>3, DoctorTouches DEF Doctor, Repair, IDoctor
  <2>2. CASE p[1] = "tmp"
    <3>1. \A b \in Builders, k \in Kinds : dir'[Bak(b, k)] = dir[Bak(b, k)]
      <4>1. \A b \in Builders, k \in Kinds : p # Bak(b, k)
        BY <2>2 DEF Bak
      <4>2. dir \in [Paths -> Contents]
        BY DEF IDoctor, TypeOK
      <4>. QED  BY <1>3, <4>1, <4>2, PathsDistinct DEF Remove
    <3>. QED  BY <2>1, <3>1 DEF Complete, Kept, Kinds
  <2>3. CASE p[1] = "bak"
    <3>1. \A k \in Kinds : dir[Live(k)] \in Gens
      BY <1>3, <2>3 DEF Removable, IDoctor, StoppedInv, PairInv, FilesComplete
    <3>2. dir[Live("index")] = dir[Live("docs")]
      BY <3>1, Distinct DEF IDoctor, PairInv, OfOneBuild, Kinds
    <3>3. dir[Live("index")] \in Complete'
      BY <2>1, <3>1, <3>2, Distinct DEF Complete, Kept, Kinds
    <3>. QED  BY <3>3
  <2>. QED  BY <2>1, <2>2, <2>3
<1>4. CASE Doctor /\ ~ \E p \in Paths : Repair(p)
  BY <1>2, <1>4 DEF Doctor, Begin, LoadLiveIndex, OpenLiveDocuments, InspectIndexLock,
     InspectDocsLock, Inspect, CollectLeftovers, Decide, RepairDone, UnlockIndex,
     UnlockDocs, RemoveDescriptor, RemoveLock, Return, Killed, Forget, vars
<1>. QED  BY <1>1, <1>2, <1>3, <1>4 DEF DoctorNext, Repair

LEMMA DoctorStutters == IDoctor /\ UNCHANGED doctorVars => IDoctor'
<1> SUFFICES ASSUME IDoctor, UNCHANGED doctorVars PROVE IDoctor'
  OBVIOUS
<1>1. UNCHANGED vars /\ UNCHANGED doctor /\ UNCHANGED regime
  BY DEF doctorVars
<1>2. TypeOK' /\ LocksHeld'
  BY <1>1 DEF IDoctor, vars, TypeOK, LocksHeld, Critical
<1>3. PairInv'
  BY <1>1 DEF IDoctor, vars, PairInv, FilesComplete, Transaction, BeforeBackup,
     Uncommitted, Restorable, OfOneBuild
<1>4. regime = "stopped" => StoppedInv'
  BY <1>1, Stuttering DEF IDoctor, StoppedInv, doctor, vars, Quiet, ProcessExists
<1>. QED  BY <1>1, <1>2, <1>3, <1>4 DEF IDoctor, DoctorTypeOK, doctor

-----------------------------------------------------------------------------
(* The prefix: sessions and the doctor together.                             *)

LEMMA SessionKeepsOthers ==
  ASSUME NEW r \in Readers, Session(r)
  PROVE  UNCHANGED vars
BY DEF Session, LoadIndex, OpenDocuments, OpenFails, ValidatePair, Search, Close, Leave

\* What happens at a prefix is, for the doctor, builds or nothing.
LEMMA PrefixIsDoctor == PrefixSpec => DoctorSpec
<1>1. PrefixInit => DoctorInit
  BY DEF PrefixInit
<1>2. [PrefixNext]_prefixVars => [DoctorNext]_doctorVars
  BY SessionKeepsOthers DEF PrefixNext, prefixVars, doctorVars
<1>. QED  BY <1>1, <1>2, PTL DEF PrefixSpec, DoctorSpec

\* `leann doctor' loses no complete pair where the operator stops the builds first,
\* with any flags; next to running builds it may lose one, but neither a repair nor
\* a look ever makes a mixed pair public, unless it forces locks meanwhile.
THEOREM RepairIsSafeHolds ==
  PrefixSpec /\ [](regime = "racing" => "forceUnlock" \notin flags) => RepairIsSafe
<1> DEFINE Unforced == regime = "racing" => "forceUnlock" \notin flags
           Survives == regime = "stopped" /\ Complete # {} => Complete' # {}
<1>1. IDoctor /\ Unforced /\ [DoctorNext]_doctorVars => IDoctor'
  BY DoctorStep, DoctorStutters
<1>2. IDoctor /\ [DoctorNext]_doctorVars => [Survives]_doctorVars
  BY StoppedKeepsPair
<1>3. IDoctor => LivePairMatches /\ DoctorTypeOK
  BY OneBuildMatches DEF IDoctor
<1> HIDE DEF Unforced, Survives
<1>4. DoctorSpec /\ []Unforced => [][Survives]_doctorVars /\ [](LivePairMatches /\ DoctorTypeOK)
  BY DoctorStarts, <1>1, <1>2, <1>3, PTL DEF DoctorSpec
<1>. QED  BY <1>4, PrefixIsDoctor DEF RepairIsSafe, Unforced, Survives

\* No answer joins the ids of one corpus with the texts of another, whatever
\* builds and doctor do to the files meanwhile, forced unlocks included.
THEOREM AnswersHold == PrefixSpec => []AnswersFromOneCorpus
<1> DEFINE Own == ReaderTypeOK /\ SessionsValid /\ AnswersFromOneCorpus
<1>1. PrefixInit => Own
  BY Distinct DEF PrefixInit, ReaderInit, ReaderTypeOK, SessionsValid,
     AnswersFromOneCorpus, Gens
<1>2. Own /\ UNCHANGED sessions => Own'
  BY DEF sessions, ReaderTypeOK, SessionsValid, AnswersFromOneCorpus, Matches
<1>3. ASSUME Own, NEW r \in Readers, Session(r) PROVE Own'
  <2> USE <1>3, Distinct DEF Move, ReaderTypeOK, SessionsValid, AnswersFromOneCorpus, Matches
  <2>1. CASE LoadIndex(r)
    BY <2>1 DEF LoadIndex
  <2>2. CASE OpenDocuments(r)
    BY <2>2 DEF OpenDocuments
  <2>3. CASE OpenFails(r) \/ Close(r)
    BY <2>3 DEF OpenFails, Close, Leave, Gens
  <2>4. CASE ValidatePair(r)
    BY <2>4 DEF ValidatePair
  <2>5. CASE Search(r)
    BY <2>5 DEF Search, Gens
  <2>. QED  BY <2>1, <2>2, <2>3, <2>4, <2>5 DEF Session
<1>4. Own /\ [PrefixNext]_prefixVars => Own'
  BY <1>2, <1>3 DEF PrefixNext, prefixVars
<1>. QED  BY <1>1, <1>4, PTL DEF PrefixSpec

\* Where builds are stopped for the doctor, its removals bring nothing back.
LEMMA DoctorKeepsSessions ==
  ASSUME IDoctor, IReader, Doctor, UNCHANGED regime, UNCHANGED sessions, regime = "stopped"
  PROVE  IReader'
<1>1. IInv'
  BY DoctorKeepsStopped DEF StoppedInv
<1>2. /\ UNCHANGED <<pc, saved, outcome>>
      /\ \A k \in Kinds : dir'[Live(k)] = dir[Live(k)]
      /\ \A b \in Builders, k \in Kinds : dir'[Bak(b, k)] \in {dir[Bak(b, k)], None}
  BY DoctorTouches, PathsDistinct DEF publishing, ends
<1>3. \A g \in Gens : Retired(g) => Retired(g)'
  BY <1>2, Distinct DEF Retired, Kinds, Gens
<1>4. \A r \in Readers : past[r] \subseteq Gens /\ served[r][1] \in Gens \cup {None}
  BY DEF IReader, ReaderInv, ReaderTypeOK
<1>5. Superseded'
  BY <1>2, <1>3, <1>4 DEF IReader, ReaderInv, Superseded, sessions
<1>. QED
  BY <1>1, <1>2, <1>5 DEF IReader, ReaderInv, sessions, ReaderTypeOK, SessionsValid,
     LoadsOnlyCommitted, AnswersFromOneCorpus, NeverBack, Matches

LEMMA StoppedPrefix == PrefixSpec /\ [](regime = "stopped") => []IReader
<1> DEFINE Both == IDoctor /\ IReader
           Stopped == regime = "stopped"
<1>1. PrefixInit => Both
  BY DoctorStarts, ReaderStart DEF PrefixInit
<1>2. Both /\ Stopped /\ [PrefixNext]_prefixVars => Both'
  <2> SUFFICES ASSUME IDoctor, IReader, Stopped, [PrefixNext]_prefixVars
               PROVE  IDoctor' /\ IReader'
    OBVIOUS
  <2>1. [DoctorNext]_doctorVars
    BY SessionKeepsOthers DEF PrefixNext, prefixVars, doctorVars
  <2>2. IDoctor'
    BY <2>1, DoctorStep, DoctorStutters
  <2>3. ASSUME NEW r \in Readers, Session(r) PROVE IReader'
    BY <2>3, SessionStep
  <2>4. ASSUME DoctorNext, UNCHANGED sessions PROVE IReader'
    BY <2>4, DoctorKeepsSessions, BuildKeepsSessions DEF DoctorNext
  <2>5. ASSUME UNCHANGED prefixVars PROVE IReader'
    <3>1. UNCHANGED vars /\ UNCHANGED sessions
      BY <2>5 DEF prefixVars, doctorVars
    <3>2. IInv'
      BY <3>1, Stuttering DEF IReader
    <3>. QED
      BY <3>1, <3>2 DEF IReader, ReaderInv, sessions, vars, ReaderTypeOK,
         SessionsValid, Superseded, Retired, LoadsOnlyCommitted, AnswersFromOneCorpus,
         NeverBack, Matches
  <2>. QED  BY <2>2, <2>3, <2>4, <2>5 DEF PrefixNext
<1> HIDE DEF Stopped
<1>3. PrefixSpec /\ []Stopped => []Both
  BY <1>1, <1>2, PTL DEF PrefixSpec
<1>4. Both => IReader
  OBVIOUS
<1>. QED  BY <1>3, <1>4, PTL DEF Stopped

\* No session ever loads an index whose build did not commit: next to builds that
\* fail, roll back or are killed, and to a doctor for which they are stopped.
THEOREM LoadsHold == PrefixSpec /\ [](regime = "stopped") => []LoadsOnlyCommitted
<1>1. IReader => LoadsOnlyCommitted
  BY DEF IReader, ReaderInv
<1>. QED  BY StoppedPrefix, <1>1, PTL

\* A client that has had answers from a newer index never gets one from an older
\* index again, under the same conditions.
THEOREM NeverBackHolds == PrefixSpec /\ [](regime = "stopped") => []NeverBack
<1>1. IReader => NeverBack
  BY DEF IReader, ReaderInv
<1>. QED  BY StoppedPrefix, <1>1, PTL
=============================================================================
