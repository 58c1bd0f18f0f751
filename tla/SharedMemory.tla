------------------------------ MODULE SharedMemory ------------------------------
(***************************************************************************)
(* agent/memory.py: the :Memory nodes of the shared store and what agents  *)
(* do to them.  A memory is named by its scope_key, which stands for a     *)
(* company and a text; its tags and its agent play no part here.           *)
(***************************************************************************)
EXTENDS Naturals, FiniteSets, Sequences

CONSTANTS
  Memories,  \* the scope keys
  Company,   \* the company of each; Global is the tier everyone reads
  Global,
  Ts,        \* the creation time each memory has once it exists
  MaxTouch,  \* where the model stops counting the accesses of each
  Existing,  \* the memories of the store when the model starts
  Unembedded,   \* ... and those among them that were written without an embedder
  EmbedderUp    \* whether the embedder answers: {TRUE}, or BOOLEAN when it may not

ASSUME MemoryAssumption ==
  /\ IsFiniteSet(Memories) /\ Existing \subseteq Memories
  /\ Ts \in [Memories -> Nat] /\ MaxTouch \in [Memories -> Nat]
  /\ EmbedderUp \subseteq BOOLEAN /\ EmbedderUp # {}

VARIABLES
  stored,    \* the nodes that exist
  embedded,  \* those with an embedding, which the vector index can find
  kind,      \* m.kind
  archived,  \* m.archived_reason, "no" while the memory is not archived
  accessed   \* m.access_count

storeVars == <<stored, embedded, kind, archived, accessed>>

Kinds   == {"episodic", "reflection"}
Reasons == {"no", "dedup", "superseded", "decayed"}
Visible == {m \in stored : archived[m] = "no"}

StoreInit ==
  /\ stored = Existing /\ embedded = Existing \ Unembedded
  /\ kind = [m \in Memories |-> "episodic"]
  /\ archived = [m \in Memories |-> "no"]
  /\ accessed = [m \in Memories |-> 0]

\* _store: MERGE creates the node or finds it, archived or not.  The kind is
\* written on creation only, the embedding every time: _embed returns None when
\* its server does not answer.
Store(m, k) ==
  /\ m \in stored \/ \A x \in stored : Ts[x] <= Ts[m]
  /\ stored' = stored \cup {m}
  /\ kind' = IF m \in stored THEN kind ELSE [kind EXCEPT ![m] = k]
  /\ \E up \in EmbedderUp : embedded' = IF up THEN embedded \cup {m} ELSE embedded \ {m}
  /\ UNCHANGED <<archived, accessed>>

\* _touch: a write of its own after the search, so a memory may have been
\* archived since it was found.
Touch(m) ==
  /\ m \in stored /\ accessed[m] < MaxTouch[m]
  /\ accessed' = [accessed EXCEPT ![m] = @ + 1]
  /\ UNCHANGED <<stored, embedded, kind, archived>>

StoreTypeOK ==
  /\ stored \in SUBSET Memories /\ embedded \in SUBSET stored
  /\ kind \in [Memories -> Kinds] /\ archived \in [Memories -> Reasons]
  /\ accessed \in [Memories -> Nat]
=============================================================================
