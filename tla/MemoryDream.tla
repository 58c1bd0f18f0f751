------------------------------- MODULE MemoryDream -------------------------------
(***************************************************************************)
(* agent/memory_dream.py: one consolidation pass over the shared store,    *)
(* stage by stage, beside agents that remember and recall.  Every          *)
(* session.run is a transaction; between two of them anything may happen.  *)
(* Texts, vectors and scores are abstracted to the two similarity          *)
(* relations the stages ask about.                                         *)
(***************************************************************************)
EXTENDS SharedMemory

CONSTANTS
  Importance,   \* m.importance; 0 stands for DREAM_FORGET_IMPORTANCE_MAX and below
  Topic,        \* m.topic as memory_graph derives it
  NoTopic,      \* ... and before it has
  Twins,        \* pairs whose similarity reaches DREAM_DEDUP_SIM
  Close,        \* pairs whose similarity reaches DREAM_CONTRADICT_SIM
  User,         \* memories whose source is 'user'
  Statable,     \* memories that agents may remember in the run
  Sayable,      \* memories whose text the model may produce as an insight
  DedupMax, MinMembers, MaxInsights, MaxForget,  \* the knobs of those names
  FailAt,       \* where in the pass a query or a call may raise
  MayKill,      \* the pass may be killed
  NoMemory

Symmetric(R) == \A p \in R : <<p[2], p[1]>> \in R

Stages ==
  { "idle", "backfill", "decay", "scan", "dedup", "merge", "clusters", "reflect",
    "insights", "link", "nodes", "query", "judge", "forget" }

ASSUME DreamAssumption ==
  /\ Importance \in [Memories -> Nat]
  /\ Twins \subseteq Close /\ Close \subseteq Memories \X Memories
  /\ Symmetric(Twins) /\ Symmetric(Close)
  /\ User \cup Statable \cup Sayable \subseteq Memories /\ NoMemory \notin Memories
  /\ FailAt \subseteq Stages \ {"idle"} /\ MayKill \in BOOLEAN
  /\ {DedupMax, MinMembers, MaxInsights, MaxForget} \subseteq Nat

VARIABLES
  graphed,   \* memories that the last rebuild of the graph has seen
  edges,     \* the CONSOLIDATES relationships, <<kind, from, to>>
  scored,    \* memories with a decay_score
  from,      \* r.consolidated_from
  stage,     \* where the pass is
  scanned,   \* dedup: the candidates read at the start
  seen,      \* ... the access_count of each as the scan read it
  nearSeen,  \* ... and as the query around the head read it
  done,      \* ... the candidates whose neighbours have been asked for
  head,      \* ... the candidate whose neighbours are being merged
  near,      \* ... its neighbours still to do
  dropped,   \* ... the local set `archived`
  clusters,  \* reflect: the topic clusters still to do
  insights,  \* ... the insights of the current one still to be stored, <<key, evidence>>
  current,   \* ... the insight that is stored and not linked yet
  nodes,     \* contradict: the memories whose neighbours are still to be read
  pairs      \* ... and the pairs to adjudicate

graphVars   == <<graphed, edges, scored, from>>
dedupVars   == <<scanned, seen, nearSeen, done, head, near, dropped>>
reflectVars == <<clusters, insights, current>>
pairVars    == <<nodes, pairs>>
vars == <<storeVars, graphVars, stage, dedupVars, reflectVars, pairVars>>

\* Where a stage hands over when it fails (_safe).
Following ==
  [s \in Stages |->
    CASE s \in {"idle", "forget"} -> "idle"
      [] s = "backfill" -> "decay"
      [] s = "decay" -> "scan"
      [] s \in {"scan", "dedup", "merge"} -> "clusters"
      [] s \in {"clusters", "reflect", "insights", "link"} -> "nodes"
      [] s \in {"nodes", "query", "judge"} -> "forget"]

\* The local variables of the stages before and after they run.
NoLocals ==
  /\ scanned = {} /\ done = {} /\ head = NoMemory /\ near = {} /\ dropped = {}
  /\ seen = [m \in Memories |-> 0] /\ nearSeen = [m \in Memories |-> 0]
  /\ clusters = {} /\ insights = <<>> /\ current = <<>>
  /\ nodes = {} /\ pairs = {}

Init ==
  /\ StoreInit
  /\ graphed = {} /\ edges = {} /\ scored = {} /\ from = [m \in Memories |-> {}]
  /\ stage = "idle" /\ NoLocals

\* A stage function returns or raises.
Returned ==
  /\ scanned' = {} /\ done' = {} /\ head' = NoMemory /\ near' = {} /\ dropped' = {}
  /\ seen' = [m \in Memories |-> 0] /\ nearSeen' = [m \in Memories |-> 0]
  /\ clusters' = {} /\ insights' = <<>> /\ current' = <<>>
  /\ nodes' = {} /\ pairs' = {}
  /\ UNCHANGED <<storeVars, graphVars>>

Goto(a, b) == stage = a /\ stage' = b

-----------------------------------------------------------------------------
(* Agents                                                                  *)

Remember(m) == Store(m, "episodic") /\ UNCHANGED <<graphVars, stage, dedupVars, reflectVars, pairVars>>
Recall(m)   == Touch(m) /\ UNCHANGED <<graphVars, stage, dedupVars, reflectVars, pairVars>>

TopicOf(m)      == IF m \in graphed THEN Topic[m] ELSE NoTopic
ImportanceOf(m) == IF m \in graphed THEN Importance[m] ELSE 0

\* `make memory-graph`, which the nightly unit runs before the pass and never
\* beside it, reduced to what the pass reads of it.
Rebuild ==
  /\ stage = "idle"
  /\ graphed' = stored
  /\ UNCHANGED <<storeVars, edges, scored, from, stage, dedupVars, reflectVars, pairVars>>

-----------------------------------------------------------------------------
(* Start, backfill and decay                                               *)

Dream ==
  /\ Goto("idle", "backfill")
  /\ UNCHANGED <<storeVars, graphVars, dedupVars, reflectVars, pairVars>>

Backfill ==
  /\ Goto("backfill", "decay")
  /\ \E ms \in SUBSET (stored \ embedded) :
       /\ FALSE \in EmbedderUp \/ ms = stored \ embedded
       /\ embedded' = embedded \cup ms
  /\ UNCHANGED <<stored, kind, archived, accessed, graphVars, dedupVars, reflectVars, pairVars>>

Decay ==
  /\ Goto("decay", "scan")
  /\ scored' = scored \cup Visible
  /\ UNCHANGED <<storeVars, graphed, edges, from, dedupVars, reflectVars, pairVars>>

-----------------------------------------------------------------------------
(* Stage 2: dedup                                                          *)

AsRead(ms) == [m \in Memories |-> IF m \in ms THEN accessed[m] ELSE 0]

Scan ==
  /\ Goto("scan", "dedup")
  /\ scanned' = Visible \cap embedded
  /\ seen' = AsRead(scanned')
  /\ UNCHANGED <<storeVars, graphVars, nearSeen, done, head, near, dropped, reflectVars, pairVars>>

\* Slip: the neighbours are not restricted to the company of the candidate.
NeighboursAnywhere(c) == {n \in Visible \cap embedded : n # c /\ <<c, n>> \in Twins}

\* The vector query around c.  The index returns the six nearest.
Neighbours(c) ==
  {n \in Visible \cap embedded : n # c /\ <<c, n>> \in Twins /\ Company[n] = Company[c]}

\* Slip: a candidate that has been dropped takes its turn all the same.
OpenAgain == scanned \ done

Open == scanned \ (done \cup dropped)
Full == Cardinality(dropped) >= DedupMax

\* The next candidate in the order of importance that nothing has dropped.
DedupHead(c) ==
  /\ Goto("dedup", "merge") /\ ~Full
  /\ c \in Open /\ \A d \in Open : ImportanceOf(d) <= ImportanceOf(c)
  /\ done' = done \cup {c} /\ head' = c
  /\ near' = Neighbours(c) /\ nearSeen' = AsRead(near')
  /\ UNCHANGED <<storeVars, graphVars, scanned, seen, dropped, reflectVars, pairVars>>

\* _rank_keep: the head is kept before its neighbour by (importance,
\* access_count, ts), the counts as they were read.
HeadOutranks(n) ==
  \/ ImportanceOf(head) > ImportanceOf(n)
  \/ ImportanceOf(head) = ImportanceOf(n) /\ seen[head] > nearSeen[n]
  \/ ImportanceOf(head) = ImportanceOf(n) /\ seen[head] = nearSeen[n] /\ Ts[head] >= Ts[n]

\* One transaction archives the duplicate and links it to the one kept; the
\* edge carries the reason (the code calls that of a superseded one 'supersedes').
Archive(why, keep, drop) ==
  /\ archived' = [archived EXCEPT ![drop] = why]
  /\ edges' = edges \cup {<<why, keep, drop>>}

Drop(keep, drop) ==
  IF Full \/ drop \in dropped \/ (keep # head /\ keep \in dropped)
  THEN UNCHANGED <<archived, edges, dropped>>
  ELSE Archive("dedup", keep, drop) /\ dropped' = dropped \cup {drop}

\* The next neighbour of the head, even when the head was dropped meanwhile.
Merge(n) ==
  /\ stage = "merge" /\ n \in near /\ near' = near \ {n}
  /\ IF HeadOutranks(n) THEN Drop(head, n) ELSE Drop(n, head)
  /\ UNCHANGED <<stored, embedded, kind, accessed, graphed, scored, from, stage, scanned, seen, nearSeen, done, head, reflectVars, pairVars>>

\* Slip: the first merge ends the turn of the head.
HeadDoneEarly ==
  /\ Goto("merge", "dedup") /\ near' = {}
  /\ head' = NoMemory /\ nearSeen' = AsRead({})
  /\ UNCHANGED <<storeVars, graphVars, scanned, seen, done, dropped, reflectVars, pairVars>>

HeadDone ==
  /\ Goto("merge", "dedup") /\ near = {}
  /\ head' = NoMemory /\ nearSeen' = AsRead({})
  /\ UNCHANGED <<storeVars, graphVars, scanned, seen, done, near, dropped, reflectVars, pairVars>>

DedupDone ==
  /\ Goto("dedup", "clusters") /\ (Open = {} \/ Full)
  /\ Returned

-----------------------------------------------------------------------------
(* Stage 3: reflection                                                     *)

\* Slip: insights count as members.
MembersOfAnyKind(cl) == {m \in Visible : <<TopicOf(m), Company[m]>> = cl}

Members(cl) == {m \in Visible : <<TopicOf(m), Company[m]>> = cl /\ kind[m] = "episodic"}

\* Which of the big enough clusters are important enough, and within the
\* limit of the run, is left open.
ReflectScan ==
  /\ Goto("clusters", "reflect")
  /\ \E cls \in SUBSET {<<TopicOf(m), Company[m]>> : m \in {x \in Visible : TopicOf(x) # NoTopic}} :
       /\ \A cl \in cls : Cardinality(Members(cl)) >= MinMembers
       /\ clusters' = cls
  /\ UNCHANGED <<storeVars, graphVars, dedupVars, insights, current, pairVars>>

\* A reflection that cites 80 % of the members and is as new as the newest.
Covered(ms, co) ==
  \E r \in stored :
    /\ kind[r] = "reflection" /\ Company[r] = co
    /\ 5 * Cardinality(from[r] \cap ms) >= 4 * Cardinality(ms)
    /\ \A m \in ms : Ts[r] >= Ts[m]

\* The scope keys of what the model may say of a company.
Texts(co) == {m \in Sayable : Company[m] = co}

\* Slip: the cluster stays on the list.
ReflectAgain(cl) ==
  /\ Goto("reflect", "insights") /\ cl \in clusters
  /\ clusters' = clusters
  /\ LET ms == Members(cl) IN
       \E n \in 0..MaxInsights : \E is \in [1..n -> Texts(cl[2]) \X (SUBSET ms \ {{}})] :
         /\ Cardinality(ms) < MinMembers \/ Covered(ms, cl[2]) => n = 0
         /\ insights' = is
  /\ UNCHANGED <<storeVars, graphVars, dedupVars, current, pairVars>>

\* The model answers with insights and the members each one cites, or with
\* nothing usable.
Reflect(cl) ==
  /\ Goto("reflect", "insights") /\ cl \in clusters
  /\ clusters' = clusters \ {cl}
  /\ LET ms == Members(cl) IN
       \E n \in 0..MaxInsights : \E is \in [1..n -> Texts(cl[2]) \X (SUBSET ms \ {{}})] :
         /\ Cardinality(ms) < MinMembers \/ Covered(ms, cl[2]) => n = 0
         /\ insights' = is
  /\ UNCHANGED <<storeVars, graphVars, dedupVars, current, pairVars>>

\* Slip: the result of _store is not looked at.
InsightUnchecked ==
  /\ Goto("insights", "link") /\ insights # <<>>
  /\ insights' = Tail(insights) /\ current' = Head(insights)
  /\ UNCHANGED <<storeVars, graphVars, dedupVars, clusters, pairVars>>

\* _store of one insight, whose text may be one the company has already ...
StoreInsight ==
  /\ Goto("insights", "link") /\ insights # <<>>
  /\ Store(Head(insights)[1], "reflection")
  /\ insights' = Tail(insights) /\ current' = Head(insights)
  /\ UNCHANGED <<graphVars, dedupVars, clusters, pairVars>>

\* ... or its failure, which skips it.
InsightUnstored ==
  /\ "insights" \in FailAt
  /\ stage = "insights" /\ stage' = stage /\ insights # <<>>
  /\ insights' = Tail(insights)
  /\ UNCHANGED <<storeVars, graphVars, dedupVars, clusters, current, pairVars>>

\* ... and its provenance, in a transaction of its own.
Link ==
  /\ Goto("link", "insights")
  /\ from' = [from EXCEPT ![current[1]] = current[2]]
  /\ edges' = edges \cup {<<"reflection", current[1], e>> : e \in current[2]}
  /\ current' = <<>>
  /\ UNCHANGED <<storeVars, graphed, scored, dedupVars, clusters, insights, pairVars>>

ClusterDone ==
  /\ Goto("insights", "reflect") /\ insights = <<>>
  /\ UNCHANGED <<storeVars, graphVars, dedupVars, reflectVars, pairVars>>

ReflectDone ==
  /\ Goto("reflect", "nodes") /\ clusters = {}
  /\ Returned

-----------------------------------------------------------------------------
(* Stage 4: contradiction                                                  *)

NodesScan ==
  /\ Goto("nodes", "query")
  /\ nodes' = {m \in Visible \cap embedded : TopicOf(m) # NoTopic} /\ pairs' = {}
  /\ UNCHANGED <<storeVars, graphVars, dedupVars, reflectVars>>

Linked(a, b) == \E e \in edges : {e[2], e[3]} = {a, b}

\* The neighbours of one node become pairs, unless they are consolidated.
Query(m) ==
  /\ stage = "query" /\ stage' = stage /\ m \in nodes /\ nodes' = nodes \ {m}
  /\ pairs' = pairs \cup
       {{m, n} : n \in {x \in Visible \cap embedded :
          /\ x # m /\ <<m, x>> \in Close /\ ~Linked(m, x)
          /\ Company[x] = Company[m] /\ TopicOf(x) = TopicOf(m)}}
  /\ UNCHANGED <<storeVars, graphVars, dedupVars, reflectVars>>

QueryDone ==
  /\ Goto("query", "judge") /\ nodes = {}
  /\ UNCHANGED <<storeVars, graphVars, dedupVars, reflectVars, pairVars>>

\* The model's verdict on one pair, whatever has been archived since it was
\* found: a winner, or none (which is also the fate of pairs beyond the limit).
Judge(p) ==
  /\ stage = "judge" /\ stage' = stage /\ p \in pairs /\ pairs' = pairs \ {p}
  /\ \/ \E w, l \in p : w # l /\ l \notin User /\ Archive("superseded", w, l)
     \/ UNCHANGED <<archived, edges>>
  /\ UNCHANGED <<stored, embedded, kind, accessed, graphed, scored, from, dedupVars, reflectVars, nodes>>

JudgeDone ==
  /\ Goto("judge", "forget") /\ pairs = {}
  /\ Returned

-----------------------------------------------------------------------------
(* Stage 5: forgetting, and the end of the pass                            *)

\* Whether a decay_score is low and the memory old enough is left open.
Forgettable ==
  {m \in Visible \cap scored :
     /\ Company[m] # Global /\ m \notin User
     /\ kind[m] = "episodic" /\ ImportanceOf(m) = 0 /\ accessed[m] = 0}

\* One transaction; none is chosen when the stage is disabled.  The enrichment
\* that follows writes only related_keys, which rank a recall's extra hits.
Forget ==
  /\ Goto("forget", "idle")
  /\ \E ms \in SUBSET Forgettable :
       /\ Cardinality(ms) <= MaxForget
       /\ archived' = [m \in Memories |-> IF m \in ms THEN "decayed" ELSE archived[m]]
  /\ UNCHANGED <<stored, embedded, kind, accessed, graphVars, dedupVars, reflectVars, pairVars>>

\* _safe: the exception ends the stage and not the pass.
StageFails ==
  /\ stage \in FailAt
  /\ stage' = Following[stage]
  /\ Returned

\* systemd ends a pass that takes longer than TimeoutStartSec, between any two of
\* its transactions.
Killed ==
  /\ MayKill /\ stage # "idle" /\ stage' = "idle"
  /\ Returned

-----------------------------------------------------------------------------
Dedup == Scan \/ (\E c \in scanned : DedupHead(c)) \/ (\E n \in near : Merge(n)) \/ HeadDone \/ DedupDone
Reflection ==
  \/ ReflectScan \/ (\E cl \in clusters : Reflect(cl))
  \/ StoreInsight \/ InsightUnstored \/ Link \/ ClusterDone \/ ReflectDone
Contradiction ==
  NodesScan \/ (\E m \in nodes : Query(m)) \/ QueryDone \/ (\E p \in pairs : Judge(p)) \/ JudgeDone

Pass == Backfill \/ Decay \/ Dedup \/ Reflection \/ Contradiction \/ Forget

Next ==
  \/ \E m \in Statable : Remember(m)
  \/ \E m \in stored : Recall(m)
  \/ Rebuild \/ Dream \/ Pass \/ StageFails \/ Killed

Spec == Init /\ [][Next]_vars

\* The pass runs on; nobody has to start one, and agents owe nothing.
FairSpec == Spec /\ WF_vars(Pass)
-----------------------------------------------------------------------------
(* Properties                                                              *)

\* Every variable keeps its type.
TypeOK ==
  /\ StoreTypeOK
  /\ graphed \in SUBSET stored /\ edges \subseteq (Reasons \cup Kinds) \X stored \X stored
  /\ scored \in SUBSET stored /\ from \in [Memories -> SUBSET Memories]
  /\ stage \in Stages
  /\ scanned \in SUBSET stored /\ done \in SUBSET stored
  /\ seen \in [Memories -> Nat] /\ nearSeen \in [Memories -> Nat]
  /\ head \in (IF stage = "merge" THEN stored ELSE {NoMemory}) /\ near \in SUBSET stored /\ dropped \in SUBSET stored
  /\ insights \in Seq(Memories \X SUBSET Memories)
  /\ current \in (Memories \X SUBSET Memories) \cup {<<>>}
  /\ nodes \in SUBSET stored /\ pairs \in SUBSET SUBSET stored

Duplicates == {m \in stored : archived[m] = "dedup"}
Keepers(m) == {k \in Memories : <<"dedup", k, m>> \in edges}

\* Deduplication keeps one of a cluster ("keeping the richest as canonical"):
\* there is no group of duplicates that were only ever merged into each other,
\* so from every archived duplicate the CONSOLIDATES edges lead to a memory
\* that no deduplication archived.
DuplicatesKept ==
  \A ms \in SUBSET Duplicates : (\A m \in ms : Keepers(m) \subseteq ms) => ms = {}

\* Once every candidate has had its turn, and below the limit of the run, no two
\* of them are still visible and near-duplicates of one company, whatever agents
\* did between the queries (for clusters that fit into the six nearest).
TwinsMerged ==
  stage = "dedup" /\ Open = {} /\ ~Full =>
    \A a, b \in scanned \cap Visible :
      a # b /\ Company[a] = Company[b] => <<a, b>> \notin Twins

\* "all merges/contradictions stay within one company", and so do reflections.
EdgesWithinCompany == \A e \in edges : Company[e[2]] = Company[e[3]]

\* Evidence is episodic: no insight is built on another insight, however often
\* passes run.
EvidenceEpisodic == \A e \in edges : e[1] = "reflection" => kind[e[3]] = "episodic"

\* "The shared global tier and user-sourced facts are never touched": no pass
\* archives one.
ProtectedUntouched ==
  \A m \in stored : m \in User \/ Company[m] = Global => archived[m] = "no"

\* A pass ends, whatever fails in it and whatever agents do meanwhile.
PassEnds == stage # "idle" ~> stage = "idle"
=============================================================================
