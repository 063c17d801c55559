---------------------------- MODULE ArtifactPair ----------------------------
(***************************************************************************)
(* What publication promises to whoever opens an artifact prefix: there    *)
(* is one usable pair, or none.  A publication withdraws the pair; then    *)
(* either the new pair takes its place or the withdrawn one comes back, and *)
(* nothing else ever becomes visible (DESIGN.md, "Publication protocol").  *)
(* When neither can be done the prefix stays without a pair, to be         *)
(* recovered by hand or replaced by a later build.                         *)
(***************************************************************************)
CONSTANTS Builders, Old, None

VARIABLES visible,    \* the generation readers can use, or None
          withdrawn,  \* the generation a running publication put aside
          committed   \* the builds whose pair was published

vars == <<visible, withdrawn, committed>>

Init ==
  /\ visible \in {None, Old}
  /\ withdrawn = None
  /\ committed = {}

Withdraw ==
  /\ visible # None
  /\ visible' = None
  /\ withdrawn' = visible
  /\ UNCHANGED committed

Commit(b) ==
  /\ visible = None
  /\ b \notin committed
  /\ visible' = b
  /\ withdrawn' = None
  /\ committed' = committed \cup {b}

Restore ==
  /\ visible = None
  /\ withdrawn # None
  /\ visible' = withdrawn
  /\ withdrawn' = None
  /\ UNCHANGED committed

\* A rollback that could not be completed.
Abandon ==
  /\ visible = None
  /\ withdrawn' = None
  /\ UNCHANGED <<visible, committed>>

Next == Withdraw \/ (\E b \in Builders : Commit(b)) \/ Restore \/ Abandon

Spec == Init /\ [][Next]_vars
=============================================================================
