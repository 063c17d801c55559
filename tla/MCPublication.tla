--------------------------- MODULE MCPublication ---------------------------
EXTENDS Publication

CONSTANTS b1, b2, corpusA, corpusB

\* b1 rebuilds the corpus the prefix already holds, b2 brings a new one.
MCCorpusOf == [g \in Builders \cup {Old} |->
                 IF g \in {Old, b1} THEN corpusA ELSE corpusB]
=============================================================================
