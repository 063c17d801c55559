---------------------------- MODULE IndexPrefix ----------------------------
(***************************************************************************)
(* All that happens to one index prefix: builds publish there, sessions    *)
(* search it, the doctor repairs it.  Only builds wait for one another, by *)
(* their locks, so any two calls may follow each other; a session and the  *)
(* doctor leave each other's state alone.                                  *)
(***************************************************************************)
EXTENDS Reader, Doctor

prefixVars == <<doctorVars, sessions>>

PrefixInit == ReaderInit /\ DoctorInit

PrefixNext ==
  \/ DoctorNext /\ UNCHANGED sessions
  \/ \E r \in Readers : Session(r) /\ UNCHANGED <<doctor, regime>>

PrefixSpec == PrefixInit /\ [][PrefixNext]_prefixVars
=============================================================================
