--------------------------- MODULE EmbeddingParity ---------------------------
(***************************************************************************)
(* select_document_sample of scripts/validate_embedding_parity.py: the rows *)
(* of a corpus whose vectors are computed again, chosen in one pass over    *)
(* its texts.  Rows are numbered from 0; a text is abstracted to its size.  *)
(***************************************************************************)
EXTENDS Integers, FiniteSets, SequencesExt

\* evenly_spaced_indices: integer arithmetic that contains both ends.
EvenlySpaced(count, requested) ==
  CASE requested >= count -> 0 .. count - 1
    [] requested <= 0     -> {}
    [] requested = 1      -> {0}
    [] OTHER -> {(p * (count - 1)) \div (requested - 1) : p \in 0 .. requested - 1}

\* The heap's order: shorter texts first, later rows first among equals.
Worse(a, b, size) == size[a] < size[b] \/ (size[a] = size[b] /\ a > b)

\* Mutant of Retained: the new row is not compared with the worst one kept.
RetainedAlways(heap, row, longest, size) ==
  IF Cardinality(heap) < longest THEN heap \cup {row}
  ELSE (heap \ {CHOOSE r \in heap : \A o \in heap \ {r} : Worse(r, o, size)}) \cup {row}

\* One row of the pass: it is kept if there is room or it beats the worst one,
\* which it replaces.
Retained(heap, row, longest, size) ==
  IF Cardinality(heap) < longest THEN heap \cup {row}
  ELSE LET worst == CHOOSE r \in heap : \A o \in heap \ {r} : Worse(r, o, size)
       IN  IF Worse(worst, row, size) THEN (heap \ {worst}) \cup {row} ELSE heap

Longest(count, longest, size) ==
  IF longest = 0 THEN {}
  ELSE FoldLeft(LAMBDA heap, row : Retained(heap, row, longest, size), {},
                [n \in 1 .. count |-> n - 1])

\* The union of the three categories.
Sample(count, wanted, size) ==
  EvenlySpaced(count, wanted.spaced) \cup Longest(count, wanted.longest, size)
    \cup wanted.truncated

\* select_document_sample and verify_document_origins raise otherwise.
SampleAccepted(count, wanted, size, truncated) ==
  /\ wanted.truncated \subseteq 0 .. count - 1
  /\ Sample(count, wanted, size) \cap truncated # {}
=============================================================================
