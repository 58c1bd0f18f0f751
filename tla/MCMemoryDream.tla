----------------------------- MODULE MCMemoryDream -----------------------------
(* Instances of MemoryDream for TLC.                                         *)
EXTENDS MemoryDream

CONSTANTS a1, a2, a3, r, b, acme, other, topic

\* Three memories of one company in a chain of near-duplicates, an insight
\* their topic may yield, and a near-duplicate in another company.
All   == {a1, a2, a3, r, b}
First == {a1, a2, b}

Owner == [m \in All |-> IF m = b THEN other ELSE acme]
Community   == [m \in All |-> IF m = b THEN NoTopic ELSE topic]
Created   == [m \in All |-> IF m \in {a1, a2, b} THEN 0 ELSE 1]
Unranked  == [m \in All |-> 0]
Touches   == [m \in All |-> IF m = a1 THEN 1 ELSE 0]

Both(R)  == R \cup {<<p[2], p[1]>> : p \in R} \cup {<<m, m>> : m \in All}
Chain    == Both({<<a1, a2>>, <<a2, a3>>, <<a3, b>>})
Likeness == Chain \cup Both({<<a1, a3>>})
=============================================================================
