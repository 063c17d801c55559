--------------------------- MODULE MCIndexPrefix ---------------------------
EXTENDS IndexPrefix

CONSTANTS b1, b2, r1, corpusA, corpusB

\* b1 rebuilds the corpus the prefix already holds, b2 brings a new one.
MCCorpusOf == [g \in Builders \cup {Old} |->
                 IF g \in {Old, b1} THEN corpusA ELSE corpusB]

EitherFlag == {{"repair"}, {"forceUnlock"}}
Both       == {"stopped", "racing"}

NoSession == \A r \in Readers : rpc[r] = "closed" /\ served[r] = <<None, None>>

\* Bounds of the run.  An error met by a destructor is not followed further
\* (MCPublication follows it; a kill leaves the same files).  Stopped: no sessions;
\* repairs at any time, unlocks as long as a build is still to come.  Racing:
\* sessions next to both builds; a doctor that repairs, next to one build, before
\* the first session, and sessions after it.
Followed ==
  /\ \A b \in Builders : ~swallowed[b]
  /\ IF regime = "stopped"
       THEN NoSession /\ ("forceUnlock" \in flags => \E b \in Builders : pc[b] = "idle")
       ELSE dpc # "idle" => pc[b1] = "idle" /\ "forceUnlock" \notin flags /\ NoSession
=============================================================================
