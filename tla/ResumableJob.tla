---------------------------- MODULE ResumableJob ----------------------------
(***************************************************************************)
(* What a checkpointed job of the benchmark pipeline promises: its work is  *)
(* claimed for one set of inputs, grows from the first row to the last in   *)
(* order, survives whatever happens to the process once it is committed,    *)
(* and is published once, whole.                                           *)
(***************************************************************************)
EXTENDS Naturals

CONSTANTS Inputs, Total, None

VARIABLES claimed,    \* the inputs the committed work belongs to
          committed,  \* how many rows of it will not be done again
          published

vars == <<claimed, committed, published>>

Init ==
  /\ claimed = None
  /\ committed = 0
  /\ published = FALSE

\* Work may start with rows taken over from an earlier, smaller job.
Claim(i) ==
  /\ claimed = None
  /\ claimed' = i
  /\ committed' \in 0 .. Total
  /\ UNCHANGED published

Commit ==
  /\ claimed # None
  /\ committed' \in committed + 1 .. Total
  /\ UNCHANGED <<claimed, published>>

Publish ==
  /\ claimed # None
  /\ committed = Total
  /\ published' = TRUE
  /\ UNCHANGED <<claimed, committed>>

Next == (\E i \in Inputs : Claim(i)) \/ Commit \/ Publish

Spec == Init /\ [][Next]_vars
=============================================================================
