--------------------------- MODULE MemoryDreamProofs ---------------------------
(***************************************************************************)
(* What a consolidation pass keeps, for any store, any similarities and    *)
(* any knobs, while agents use the store and stages fail.                  *)
(***************************************************************************)
EXTENDS MemoryDream, FiniteSetTheorems, SequenceTheorems, TLAPS

\* An insight cites episodic memories of the company it is about.
Sound(i) ==
  /\ i \in Memories \X SUBSET stored
  /\ \A e \in i[2] : kind[e] = "episodic" /\ Company[e] = Company[i[1]]

EvidenceSound ==
  /\ \A j \in 1..Len(insights) : Sound(insights[j])
  /\ stage = "link" => current[1] \in stored /\ Sound(current)

Inside == {"dedup", "merge"}

\* What the stage knows while it merges: the neighbours left are visible and of
\* the head's company, and a head that lost to one of its neighbours lost to a
\* memory that nothing will drop in the rest of its turn.
DedupSound ==
  /\ stage \notin Inside => scanned = {} /\ done = {} /\ dropped = {} /\ near = {}
  /\ \A m \in scanned \ dropped : archived[m] = "no"
  /\ stage = "merge" =>
       /\ head \in scanned /\ head \notin near
       /\ \A n \in near : archived[n] = "no" /\ Company[n] = Company[head]
       /\ archived[head] # "no" =>
            \E k \in Keepers(head) : archived[k] = "no" /\ k \notin near

\* What is archived exists, and a pair to adjudicate is of one company.
RestSound ==
  /\ \A m \in Memories \ stored : archived[m] = "no"
  /\ \A p \in pairs : \A a, b \in p : Company[a] = Company[b]

IInv ==
  /\ TypeOK /\ EvidenceSound /\ DedupSound /\ RestSound
  /\ DuplicatesKept /\ EdgesWithinCompany /\ EvidenceEpisodic

-----------------------------------------------------------------------------
\* _store adds a node at most, and changes no kind and no archived flag.
LEMMA StoreKeeps ==
  ASSUME StoreTypeOK, NEW m \in Memories, NEW k \in Kinds, Store(m, k)
  PROVE  /\ StoreTypeOK' /\ m \in stored' /\ stored \subseteq stored'
         /\ archived' = archived /\ accessed' = accessed
         /\ \A x \in stored : kind'[x] = kind[x]
  BY DEF StoreTypeOK, Store

\* _touch changes counts only.
LEMMA TouchKeeps ==
  ASSUME StoreTypeOK, NEW m \in Memories, Touch(m)
  PROVE  StoreTypeOK' /\ stored' = stored /\ archived' = archived /\ kind' = kind
  BY DEF StoreTypeOK, Touch

\* A stage that ends leaves the store alone and clears the locals.
LEMMA ReturnedTyped ==
  ASSUME TypeOK, Returned, stage' \in Stages \ {"merge"}
  PROVE  TypeOK'
<1>1. <<>> \in Seq(Memories \X SUBSET Memories)
  BY EmptySeq
<1> QED BY <1>1 DEF TypeOK, StoreTypeOK, Returned, storeVars, graphVars

\* The memories the prover needs to see around _store and _touch.
LEMMA AgentsTyped ==
  ASSUME TypeOK, StoreTypeOK', stored \subseteq stored',
         UNCHANGED <<graphVars, stage, dedupVars, reflectVars, pairVars>>
  PROVE  TypeOK'
  BY DEF TypeOK, graphVars, dedupVars, reflectVars, pairVars

\* The initial state of the store and the pass is typed.
LEMMA TypeInit == Init => TypeOK
<1>1. <<>> \in Seq(Memories \X SUBSET Memories)
  BY EmptySeq
<1> QED BY <1>1, MemoryAssumption DEF Init, StoreInit, NoLocals, TypeOK, StoreTypeOK, Kinds, Reasons, Stages

\* Next, disjunct by disjunct.
LEMMA NextCases ==
  ASSUME Next
  PROVE  \/ \E m \in Statable : Remember(m)
         \/ \E m \in stored : Recall(m)
         \/ Rebuild \/ Dream \/ Backfill \/ Decay
         \/ Scan \/ (\E c \in scanned : DedupHead(c)) \/ (\E n \in near : Merge(n)) \/ HeadDone \/ DedupDone
         \/ ReflectScan \/ (\E cl \in clusters : Reflect(cl)) \/ StoreInsight \/ InsightUnstored \/ Link
         \/ ClusterDone \/ ReflectDone
         \/ NodesScan \/ (\E m \in nodes : Query(m)) \/ QueryDone \/ (\E p \in pairs : Judge(p)) \/ JudgeDone
         \/ Forget \/ StageFails \/ Killed
  BY DEF Next, Pass, Dedup, Reflection, Contradiction

\* The first insight of a list and the rest of it.
LEMMA FirstInsight ==
  ASSUME insights \in Seq(Memories \X SUBSET Memories), insights # <<>>
  PROVE  /\ Head(insights) = insights[1] /\ 1 \in 1..Len(insights)
         /\ Head(insights) \in Memories \X SUBSET Memories
         /\ Tail(insights) \in Seq(Memories \X SUBSET Memories)
         /\ \A j \in 1..Len(Tail(insights)) : j + 1 \in 1..Len(insights) /\ Tail(insights)[j] = insights[j + 1]
  OBVIOUS

\* One archiving transaction.
LEMMA ArchiveTyped ==
  ASSUME TypeOK, NEW why \in Reasons, NEW keep \in stored, NEW drop \in stored, Archive(why, keep, drop)
  PROVE  /\ archived' \in [Memories -> Reasons]
         /\ edges' \subseteq (Reasons \cup Kinds) \X stored \X stored
  BY DEF TypeOK, StoreTypeOK, Archive

\* Every step keeps the types; what Link writes is typed because its insight is
\* sound.
LEMMA TypeStep ==
  ASSUME TypeOK, EvidenceSound, [Next]_vars
  PROVE  TypeOK'
<1> USE MemoryAssumption, DreamAssumption
<1>1. CASE \E m \in Statable : Remember(m)
  <2> PICK m \in Statable : Remember(m) BY <1>1
  <2>1. StoreTypeOK' /\ stored \subseteq stored'
    BY StoreKeeps DEF Remember, TypeOK, Kinds
  <2> QED BY <2>1, AgentsTyped DEF Remember
<1>2. CASE \E m \in stored : Recall(m)
  <2> PICK m \in stored : Recall(m) BY <1>2
  <2>1. StoreTypeOK' /\ stored' = stored
    BY TouchKeeps DEF Recall, TypeOK, StoreTypeOK
  <2> QED BY <2>1, AgentsTyped DEF Recall
<1>3. CASE Rebuild
  BY <1>3 DEF Rebuild, TypeOK, StoreTypeOK, storeVars, dedupVars, reflectVars, pairVars
<1>4. CASE Dream
  BY <1>4 DEF Dream, Goto, Stages, TypeOK, StoreTypeOK, storeVars, graphVars, dedupVars, reflectVars, pairVars
<1>5. CASE Backfill
  BY <1>5 DEF Backfill, Goto, Stages, TypeOK, StoreTypeOK, graphVars, dedupVars, reflectVars, pairVars
<1>6. CASE Decay
  BY <1>6 DEF Decay, Goto, Stages, Visible, TypeOK, StoreTypeOK, storeVars, dedupVars, reflectVars, pairVars
<1>7. CASE Scan
  <2>1. seen' \in [Memories -> Nat] /\ scanned' \in SUBSET stored
    BY <1>7 DEF Scan, AsRead, Visible, TypeOK, StoreTypeOK
  <2> QED BY <1>7, <2>1 DEF Scan, Goto, Stages, TypeOK, StoreTypeOK, storeVars, graphVars, reflectVars, pairVars
<1>8. CASE \E c \in scanned : DedupHead(c)
  <2> PICK c \in scanned : DedupHead(c) BY <1>8
  <2>1. nearSeen' \in [Memories -> Nat] /\ near' \in SUBSET stored /\ done' \in SUBSET stored
    BY DEF DedupHead, AsRead, Neighbours, Visible, TypeOK, StoreTypeOK
  <2> QED BY <2>1 DEF DedupHead, Goto, Stages, TypeOK, StoreTypeOK, storeVars, graphVars, reflectVars, pairVars
<1>9. CASE \E n \in near : Merge(n)
  <2> PICK n \in near : Merge(n) BY <1>9
  <2>1. CASE UNCHANGED <<archived, edges, dropped>>
    BY <2>1 DEF Merge, TypeOK, StoreTypeOK, reflectVars, pairVars
  <2>2. CASE head \in stored /\ \E keep, drop \in {head, n} : Archive("dedup", keep, drop) /\ dropped' = dropped \cup {drop}
    <3>1. PICK keep \in {head, n}, drop \in {head, n} : Archive("dedup", keep, drop) /\ dropped' = dropped \cup {drop}
      BY <2>2
    <3>2. keep \in stored /\ drop \in stored
      BY <2>2 DEF TypeOK
    <3>3. archived' \in [Memories -> Reasons] /\ edges' \subseteq (Reasons \cup Kinds) \X stored \X stored
      BY <3>1, <3>2, ArchiveTyped DEF Reasons
    <3> QED BY <3>1, <3>2, <3>3 DEF Merge, TypeOK, StoreTypeOK, reflectVars, pairVars
  <2>3. head \in stored
    BY DEF Merge, TypeOK
  <2> QED BY <2>1, <2>2, <2>3 DEF Merge, Drop
<1>10. CASE HeadDone
  BY <1>10 DEF HeadDone, AsRead, Goto, Stages, TypeOK, StoreTypeOK, storeVars, graphVars, reflectVars, pairVars
<1>11. CASE DedupDone
  BY <1>11, ReturnedTyped DEF DedupDone, Goto, Stages
<1>12. CASE ReflectScan
  BY <1>12 DEF ReflectScan, Goto, Stages, TypeOK, StoreTypeOK, storeVars, graphVars, dedupVars, pairVars
<1>13. CASE \E cl \in clusters : Reflect(cl)
  <2> PICK cl \in clusters : Reflect(cl) BY <1>13
  <2>1. PICK k \in 0..MaxInsights : insights' \in [1..k -> Texts(cl[2]) \X (SUBSET Members(cl) \ {{}})]
    BY DEF Reflect
  <2>2. Texts(cl[2]) \X (SUBSET Members(cl) \ {{}}) \subseteq Memories \X SUBSET Memories
    BY DEF Texts, Members, Visible, TypeOK, StoreTypeOK
  <2>3. insights' \in Seq(Memories \X SUBSET Memories)
    <3>1. insights' \in [1..k -> Memories \X SUBSET Memories]
      BY <2>1, <2>2
    <3> QED BY <3>1
  <2> QED BY <2>3 DEF Reflect, Goto, Stages, TypeOK, StoreTypeOK, storeVars, graphVars, dedupVars, pairVars
<1>14. CASE StoreInsight
  <2>1. Head(insights) \in Memories \X SUBSET Memories /\ Tail(insights) \in Seq(Memories \X SUBSET Memories)
    BY <1>14, FirstInsight DEF StoreInsight, TypeOK
  <2>2. StoreTypeOK' /\ stored \subseteq stored'
    BY <1>14, <2>1, StoreKeeps DEF StoreInsight, TypeOK, Kinds
  <2>3. current' \in Memories \X SUBSET Memories /\ insights' \in Seq(Memories \X SUBSET Memories)
    BY <1>14, <2>1 DEF StoreInsight
  <2> QED BY <1>14, <2>2, <2>3 DEF StoreInsight, Goto, Stages, TypeOK, graphVars, dedupVars, pairVars
<1>15. CASE InsightUnstored
  <2>1. insights' \in Seq(Memories \X SUBSET Memories)
    BY <1>15, FirstInsight DEF InsightUnstored, TypeOK
  <2> QED BY <1>15, <2>1 DEF InsightUnstored, TypeOK, StoreTypeOK, storeVars, graphVars, dedupVars, pairVars
<1>16. CASE Link
  <2>1. current[1] \in stored /\ current[2] \in SUBSET stored
    BY <1>16 DEF Link, Goto, EvidenceSound, Sound
  <2>2. edges' \subseteq (Reasons \cup Kinds) \X stored \X stored
    BY <1>16, <2>1 DEF Link, TypeOK, Kinds
  <2>3. from' \in [Memories -> SUBSET Memories]
    BY <1>16, <2>1 DEF Link, TypeOK, StoreTypeOK
  <2> QED BY <1>16, <2>2, <2>3 DEF Link, Goto, Stages, TypeOK, StoreTypeOK, storeVars, dedupVars, pairVars
<1>17. CASE ClusterDone
  BY <1>17 DEF ClusterDone, Goto, Stages, TypeOK, StoreTypeOK, storeVars, graphVars, dedupVars, reflectVars, pairVars
<1>18. CASE ReflectDone
  BY <1>18, ReturnedTyped DEF ReflectDone, Goto, Stages
<1>19. CASE NodesScan
  BY <1>19 DEF NodesScan, Goto, Stages, Visible, TypeOK, StoreTypeOK, storeVars, graphVars, dedupVars, reflectVars
<1>20. CASE \E m \in nodes : Query(m)
  <2> PICK m \in nodes : Query(m) BY <1>20
  <2>1. m \in stored /\ Visible \subseteq stored
    BY DEF Visible, TypeOK
  <2>2. {{m, n} : n \in {x \in Visible \cap embedded :
          /\ x # m /\ <<m, x>> \in Close /\ ~Linked(m, x)
          /\ Company[x] = Company[m] /\ TopicOf(x) = TopicOf(m)}} \subseteq SUBSET stored
    BY <2>1
  <2>3. pairs' \in SUBSET SUBSET stored
    BY <2>2 DEF Query, TypeOK
  <2> QED BY <2>3 DEF Query, TypeOK, StoreTypeOK, storeVars, graphVars, dedupVars, reflectVars
<1>21. CASE QueryDone
  BY <1>21 DEF QueryDone, Goto, Stages, TypeOK, StoreTypeOK, storeVars, graphVars, dedupVars, reflectVars, pairVars
<1>22. CASE \E p \in pairs : Judge(p)
  <2> PICK p \in pairs : Judge(p) BY <1>22
  <2>1. CASE UNCHANGED <<archived, edges>>
    BY <2>1 DEF Judge, TypeOK, StoreTypeOK, dedupVars, reflectVars
  <2>2. CASE \E w, l \in p : Archive("superseded", w, l)
    <3>1. PICK w \in p, l \in p : Archive("superseded", w, l)
      BY <2>2
    <3>2. w \in stored /\ l \in stored
      BY DEF TypeOK
    <3>3. archived' \in [Memories -> Reasons] /\ edges' \subseteq (Reasons \cup Kinds) \X stored \X stored
      BY <3>1, <3>2, ArchiveTyped DEF Reasons
    <3> QED BY <3>3 DEF Judge, TypeOK, StoreTypeOK, dedupVars, reflectVars
  <2> QED BY <2>1, <2>2 DEF Judge
<1>23. CASE JudgeDone
  BY <1>23, ReturnedTyped DEF JudgeDone, Goto, Stages
<1>24. CASE Forget
  BY <1>24 DEF Forget, Goto, Stages, Reasons, TypeOK, StoreTypeOK, graphVars, dedupVars, reflectVars, pairVars
<1>25. CASE StageFails
  <2>1. stage' \in Stages \ {"merge"}
    BY <1>25 DEF StageFails, Following, Stages, TypeOK
  <2> QED BY <1>25, <2>1, ReturnedTyped DEF StageFails
<1>26. CASE Killed
  BY <1>26, ReturnedTyped DEF Killed, Stages
<1>27. CASE UNCHANGED vars
  BY <1>27 DEF vars, TypeOK, StoreTypeOK, storeVars, graphVars, dedupVars, reflectVars, pairVars
<1> QED
  BY <1>1, <1>2, <1>3, <1>4, <1>5, <1>6, <1>7, <1>8, <1>9, <1>10, <1>11, <1>12, <1>13, <1>14, <1>15,
     <1>16, <1>17, <1>18, <1>19, <1>20, <1>21, <1>22, <1>23, <1>24, <1>25, <1>26, <1>27, NextCases

-----------------------------------------------------------------------------
(* Steps sorted by what they write                                         *)

\* Only the dedup stage touches its own locals.
DedupAside ==
  /\ UNCHANGED dedupVars
  /\ stage' = stage \/ (stage \notin Inside /\ stage' \notin Inside)

Ends == Returned /\ stage' \in Stages \ Inside

\* Every step is one of the dedup stage, the end of a stage, or none of its
\* business.
LEMMA DedupSteps ==
  ASSUME TypeOK, [Next]_vars
  PROVE  \/ Scan \/ (\E c \in scanned : DedupHead(c)) \/ (\E n \in near : Merge(n)) \/ HeadDone
         \/ Ends \/ DedupAside
<1>1. CASE Next
  <2>1. (Rebuild \/ Dream \/ Backfill \/ Decay) => DedupAside
    BY DEF Rebuild, Dream, Backfill, Decay, Goto, DedupAside, Inside
  <2>2. ((\E m \in Statable : Remember(m)) \/ (\E m \in stored : Recall(m))) => DedupAside
    BY DEF Remember, Recall, DedupAside
  <2>3. (ReflectScan \/ (\E cl \in clusters : Reflect(cl)) \/ StoreInsight \/ InsightUnstored \/ Link \/ ClusterDone)
          => DedupAside
    BY DEF ReflectScan, Reflect, StoreInsight, InsightUnstored, Link, ClusterDone, Goto, DedupAside, Inside
  <2>4. (NodesScan \/ (\E m \in nodes : Query(m)) \/ QueryDone \/ (\E p \in pairs : Judge(p)) \/ Forget)
          => DedupAside
    BY DEF NodesScan, Query, QueryDone, Judge, Forget, Goto, DedupAside, Inside
  <2>5. (DedupDone \/ ReflectDone \/ JudgeDone) => Ends
    BY DEF DedupDone, ReflectDone, JudgeDone, Goto, Ends, Stages, Inside
  <2>6. StageFails \/ Killed => Ends
    BY DEF StageFails, Killed, Ends, Following, Stages, Inside, TypeOK
  <2> QED BY <1>1, <2>1, <2>2, <2>3, <2>4, <2>5, <2>6, NextCases
<1>2. CASE UNCHANGED vars
  BY <1>2 DEF vars, DedupAside
<1> QED BY <1>1, <1>2

\* Memories are never deleted and never change kind, and what a recall or a
\* reflection adds is not archived.
LEMMA StoreSteps ==
  ASSUME TypeOK, EvidenceSound, [Next]_vars
  PROVE  stored \subseteq stored' /\ \A x \in stored : kind'[x] = kind[x]
<1> USE DreamAssumption DEF TypeOK
<1>1. CASE \E m \in Statable : Remember(m)
  BY <1>1, StoreKeeps DEF Remember, Kinds
<1>2. CASE \E m \in stored : Recall(m)
  BY <1>2 DEF Recall, Touch
<1>3. CASE StoreInsight
  <2>1. Head(insights)[1] \in Memories
    BY <1>3, FirstInsight DEF StoreInsight
  <2> QED BY <1>3, <2>1, StoreKeeps DEF StoreInsight, Kinds
<1>4. CASE Rebuild \/ Dream \/ Backfill \/ Decay \/ Scan \/ (\E c \in scanned : DedupHead(c)) \/ HeadDone
  BY <1>4 DEF Rebuild, Dream, Backfill, Decay, Scan, DedupHead, HeadDone, storeVars
<1>5. CASE (\E n \in near : Merge(n)) \/ (\E p \in pairs : Judge(p)) \/ Forget
  BY <1>5 DEF Merge, Judge, Forget
<1>6. CASE ReflectScan \/ (\E cl \in clusters : Reflect(cl)) \/ InsightUnstored \/ Link \/ ClusterDone
  BY <1>6 DEF ReflectScan, Reflect, InsightUnstored, Link, ClusterDone, storeVars
<1>7. CASE NodesScan \/ (\E m \in nodes : Query(m)) \/ QueryDone
  BY <1>7 DEF NodesScan, Query, QueryDone, storeVars
<1>8. CASE DedupDone \/ ReflectDone \/ JudgeDone \/ StageFails \/ Killed
  BY <1>8 DEF DedupDone, ReflectDone, JudgeDone, StageFails, Killed, Returned, storeVars
<1>9. CASE UNCHANGED vars
  BY <1>9 DEF vars, storeVars
<1> QED BY <1>1, <1>2, <1>3, <1>4, <1>5, <1>6, <1>7, <1>8, <1>9, NextCases

Unlinked == archived' = archived /\ edges' = edges

\* The transactions that archive or link.
LEMMA ArchiveSteps ==
  ASSUME TypeOK, EvidenceSound, [Next]_vars
  PROVE  (\E n \in near : Merge(n)) \/ Link \/ (\E p \in pairs : Judge(p)) \/ Forget \/ Unlinked
<1> USE DEF Unlinked
<1>1. (\E m \in Statable : Remember(m)) => Unlinked
  BY DEF Remember, Store, graphVars
<1>2. (\E m \in stored : Recall(m)) => Unlinked
  BY DEF Recall, Touch, graphVars
<1>3. StoreInsight => Unlinked
  BY DEF StoreInsight, Store, graphVars
<1>4. Rebuild \/ Dream \/ Backfill \/ Decay \/ Scan \/ (\E c \in scanned : DedupHead(c)) \/ HeadDone => Unlinked
  BY DEF Rebuild, Dream, Backfill, Decay, Scan, DedupHead, HeadDone, storeVars, graphVars
<1>5. ReflectScan \/ (\E cl \in clusters : Reflect(cl)) \/ InsightUnstored \/ ClusterDone => Unlinked
  BY DEF ReflectScan, Reflect, InsightUnstored, ClusterDone, storeVars, graphVars
<1>6. NodesScan \/ (\E m \in nodes : Query(m)) \/ QueryDone => Unlinked
  BY DEF NodesScan, Query, QueryDone, storeVars, graphVars
<1>7. DedupDone \/ ReflectDone \/ JudgeDone \/ StageFails \/ Killed => Unlinked
  BY DEF DedupDone, ReflectDone, JudgeDone, StageFails, Killed, Returned, storeVars, graphVars
<1>8. UNCHANGED vars => Unlinked
  BY DEF vars, storeVars, graphVars
<1> QED BY <1>1, <1>2, <1>3, <1>4, <1>5, <1>6, <1>7, <1>8, NextCases

-----------------------------------------------------------------------------
(* What the archiving transactions do                                      *)

\* A step of the merge loop drops nobody, or the head or its neighbour, which
\* were both visible.
LEMMA MergeSteps ==
  ASSUME TypeOK, DedupSound, NEW n \in near, Merge(n)
  PROVE  /\ near' = near \ {n} /\ head' = head /\ scanned' = scanned /\ stage = "merge" /\ stage' = "merge"
         /\ archived[n] = "no" /\ n # head /\ head \in scanned /\ Company[n] = Company[head]
         /\ \/ Unlinked /\ dropped' = dropped
            \/ Archive("dedup", head, n) /\ dropped' = dropped \cup {n}
            \/ /\ archived[head] = "no" /\ Archive("dedup", n, head)
               /\ dropped' = dropped \cup {head}
<1>1. stage = "merge" /\ stage' = stage /\ near' = near \ {n} /\ head' = head /\ scanned' = scanned
  BY DEF Merge
<1>2. archived[n] = "no" /\ n # head /\ head \in scanned /\ Company[n] = Company[head]
  BY <1>1 DEF DedupSound
<1>3. CASE HeadOutranks(n)
  BY <1>1, <1>2, <1>3 DEF Merge, Drop, Unlinked
<1>4. CASE ~HeadOutranks(n) /\ head \in dropped
  BY <1>1, <1>2, <1>4 DEF Merge, Drop, Unlinked
<1>5. CASE ~HeadOutranks(n) /\ head \notin dropped
  <2>1. archived[head] = "no"
    BY <1>2, <1>5 DEF DedupSound
  <2> QED BY <1>1, <1>2, <1>5, <2>1 DEF Merge, Drop, Unlinked
<1> QED BY <1>1, <1>2, <1>3, <1>4, <1>5

\* The stage keeps its knowledge: while the head has its turn its keeper, if it
\* has one, is not among the neighbours that are left.
LEMMA DedupStep ==
  ASSUME TypeOK, TypeOK', EvidenceSound, DedupSound, RestSound, [Next]_vars
  PROVE  DedupSound'
<1>1. CASE Scan
  BY <1>1 DEF Scan, Goto, Visible, DedupSound, Inside, storeVars
<1>2. CASE \E c \in scanned : DedupHead(c)
  <2> PICK c \in scanned : DedupHead(c) BY <1>2
  <2>1. /\ stage' = "merge" /\ head' = c /\ scanned' = scanned /\ dropped' = dropped /\ archived' = archived
        /\ c \in scanned \ dropped
    BY DEF DedupHead, Goto, Open, storeVars
  <2>2. c \notin near' /\ \A n \in near' : archived[n] = "no" /\ Company[n] = Company[c]
    BY DEF DedupHead, Neighbours, Visible
  <2> QED BY <2>1, <2>2 DEF DedupSound, Inside
<1>3. CASE \E n \in near : Merge(n)
  <2> PICK n \in near : Merge(n) BY <1>3
  <2> USE MergeSteps DEF Inside
  <2>t. near \subseteq Memories /\ scanned \subseteq Memories /\ archived \in [Memories -> Reasons]
    BY DEF TypeOK, StoreTypeOK
  <2>1. CASE Unlinked /\ dropped' = dropped
    BY <2>1 DEF DedupSound, Unlinked, Keepers
  <2>2. CASE Archive("dedup", head, n) /\ dropped' = dropped \cup {n}
    <3>1. archived' = [archived EXCEPT ![n] = "dedup"] /\ \A m : Keepers(m) \subseteq Keepers(m)'
      BY <2>2 DEF Archive, Keepers
    <3>2. \A m \in scanned \ dropped' : archived'[m] = "no"
      BY <2>2, <2>t, <3>1 DEF DedupSound
    <3>3. head \notin near' /\ \A x \in near' : archived'[x] = "no" /\ Company[x] = Company[head]
      BY <2>t, <3>1 DEF DedupSound
    <3>4. ASSUME archived'[head] # "no"
          PROVE  \E k \in Keepers(head)' : archived'[k] = "no" /\ k \notin near'
      <4>1. archived[head] # "no"
        BY <2>t, <3>1, <3>4
      <4>2. PICK k \in Keepers(head) : archived[k] = "no" /\ k \notin near
        BY <4>1 DEF DedupSound
      <4>3. k # n /\ k \in Memories
        BY <4>2 DEF Keepers
      <4> QED BY <2>t, <3>1, <4>2, <4>3
    <3> QED BY <3>2, <3>3, <3>4 DEF DedupSound
  <2>3. CASE archived[head] = "no" /\ Archive("dedup", n, head) /\ dropped' = dropped \cup {head}
    <3>1. n \in Keepers(head)' /\ archived'[n] = "no" /\ n \notin near'
      BY <2>3, <2>t DEF Archive, Keepers
    <3>2. \A m \in scanned \ dropped' : archived'[m] = "no"
      BY <2>3, <2>t DEF Archive, DedupSound
    <3>3. head \notin near' /\ \A x \in near' : archived'[x] = "no" /\ Company[x] = Company[head]
      BY <2>3, <2>t DEF Archive, DedupSound
    <3> QED BY <3>1, <3>2, <3>3 DEF DedupSound
  <2> QED BY <2>1, <2>2, <2>3
<1>4. CASE HeadDone
  BY <1>4 DEF HeadDone, Goto, DedupSound, Inside, storeVars
<1>5. CASE Ends
  BY <1>5 DEF Ends, Returned, DedupSound, Inside
<1>6. CASE DedupAside
  <2>1. CASE stage' \notin Inside
    BY <1>6, <2>1 DEF DedupAside, dedupVars, DedupSound, Inside
  <2>2. CASE stage' = stage /\ stage \in Inside /\ Unlinked
    <3>1. \A m : Keepers(m)' = Keepers(m)
      BY <2>2 DEF Unlinked, Keepers
    <3> QED BY <1>6, <2>2, <3>1 DEF DedupAside, dedupVars, DedupSound, Inside, Unlinked
  <2>3. CASE \E n \in near : Merge(n)
    BY <1>3, <2>3
  <2>4. CASE stage \in Inside /\ (Link \/ (\E p \in pairs : Judge(p)) \/ Forget)
    BY <2>4 DEF Link, Judge, Forget, Goto, Inside
  <2> QED BY <1>6, <2>1, <2>2, <2>3, <2>4, ArchiveSteps DEF DedupAside
<1> QED BY <1>1, <1>2, <1>3, <1>4, <1>5, <1>6, DedupSteps

\* A list of insights that all cite sound evidence.
LEMMA EvidenceStep ==
  ASSUME TypeOK, TypeOK', EvidenceSound, [Next]_vars
  PROVE  EvidenceSound'
<1>0. stored \subseteq stored' /\ (\A x \in stored : kind'[x] = kind[x])
  BY StoreSteps
<1> DEFINE SoundThen(i) ==
             /\ i \in Memories \X SUBSET stored'
             /\ \A e \in i[2] : kind'[e] = "episodic" /\ Company[e] = Company[i[1]]
<1>1. \A i : Sound(i) => SoundThen(i)
  BY <1>0 DEF Sound
<1>t. ASSUME \A j \in 1..Len(insights') : SoundThen(insights'[j]),
             stage' = "link" => current'[1] \in stored' /\ SoundThen(current')
      PROVE  EvidenceSound'
  BY <1>t DEF EvidenceSound, Sound
<1> HIDE DEF SoundThen
<1>2. CASE \E cl \in clusters : Reflect(cl)
  <2> PICK cl \in clusters : Reflect(cl) BY <1>2
  <2>1. PICK k \in 0..MaxInsights : insights' \in [1..k -> Texts(cl[2]) \X (SUBSET Members(cl) \ {{}})]
    BY DEF Reflect
  <2>2. \A i \in Texts(cl[2]) \X (SUBSET Members(cl) \ {{}}) : Sound(i)
    BY DreamAssumption DEF Texts, Members, Visible, Sound
  <2>3. Len(insights') = k
    BY <2>1, DreamAssumption
  <2>4. \A j \in 1..Len(insights') : SoundThen(insights'[j])
    BY <1>1, <2>1, <2>2, <2>3
  <2>5. stage' # "link"
    BY DEF Reflect, Goto
  <2> QED BY <1>t, <2>4, <2>5
<1>3. CASE StoreInsight
  <2>1. /\ Head(insights) = insights[1] /\ 1 \in 1..Len(insights)
        /\ \A j \in 1..Len(Tail(insights)) : j + 1 \in 1..Len(insights) /\ Tail(insights)[j] = insights[j + 1]
    BY <1>3, FirstInsight DEF StoreInsight, TypeOK
  <2>2. insights' = Tail(insights) /\ current' = Head(insights) /\ current'[1] \in stored'
    BY <1>3 DEF StoreInsight, Store
  <2> QED BY <1>1, <1>t, <2>1, <2>2 DEF EvidenceSound
<1>4. CASE InsightUnstored
  <2>1. \A j \in 1..Len(Tail(insights)) : j + 1 \in 1..Len(insights) /\ Tail(insights)[j] = insights[j + 1]
    BY <1>4, FirstInsight DEF InsightUnstored, TypeOK
  <2>2. insights' = Tail(insights) /\ stage' # "link"
    BY <1>4 DEF InsightUnstored
  <2> QED BY <1>1, <1>t, <2>1, <2>2 DEF EvidenceSound
<1>5. CASE insights' = <<>> /\ stage' # "link"
  BY <1>5, <1>t
<1>6. CASE insights' = insights /\ (stage' # "link" \/ (stage' = stage /\ current' = current))
  BY <1>0, <1>1, <1>6, <1>t DEF EvidenceSound
<1>7. ((\E m \in Statable : Remember(m)) \/ (\E m \in stored : Recall(m)) \/ Rebuild) =>
        insights' = insights /\ stage' = stage /\ current' = current
  BY DEF Remember, Recall, Rebuild, reflectVars
<1>8. (Dream \/ Backfill \/ Decay \/ Scan \/ (\E c \in scanned : DedupHead(c)) \/ HeadDone \/ ClusterDone
        \/ ReflectScan \/ Link \/ NodesScan \/ QueryDone \/ Forget) => insights' = insights /\ stage' # "link"
  BY DEF Dream, Backfill, Decay, Scan, DedupHead, HeadDone, ClusterDone, ReflectScan, Link, NodesScan, QueryDone, Forget,
         Goto, reflectVars
<1>9. ((\E n \in near : Merge(n)) \/ (\E m \in nodes : Query(m)) \/ (\E p \in pairs : Judge(p))) =>
        insights' = insights /\ stage' # "link"
  BY DEF Merge, Query, Judge, reflectVars
<1>10. (DedupDone \/ ReflectDone \/ JudgeDone \/ StageFails \/ Killed) => insights' = <<>> /\ stage' # "link"
  BY DEF DedupDone, ReflectDone, JudgeDone, StageFails, Killed, Returned, Goto, Following, TypeOK, Stages
<1>11. UNCHANGED vars => insights' = insights /\ stage' = stage /\ current' = current
  BY DEF vars, reflectVars
<1> QED BY <1>2, <1>3, <1>4, <1>5, <1>6, <1>7, <1>8, <1>9, <1>10, <1>11, NextCases

\* Pairs are of one company, and what does not exist is not archived.
LEMMA RestStep ==
  ASSUME TypeOK, TypeOK', EvidenceSound, DedupSound, RestSound, [Next]_vars
  PROVE  RestSound'
<1>1. \A p \in pairs' : \A a, b \in p : Company[a] = Company[b]
  <2>1. CASE \E m \in nodes : Query(m)
    BY <2>1 DEF Query, RestSound
  <2>2. CASE pairs' \subseteq pairs
    BY <2>2 DEF RestSound
  <2>3. ((\E m \in Statable : Remember(m)) \/ (\E m \in stored : Recall(m)) \/ Rebuild \/ Dream \/ Backfill \/ Decay
          \/ Scan \/ (\E c \in scanned : DedupHead(c)) \/ (\E n \in near : Merge(n)) \/ HeadDone) => pairs' \subseteq pairs
    BY DEF Remember, Recall, Rebuild, Dream, Backfill, Decay, Scan, DedupHead, Merge, HeadDone, pairVars
  <2>4. (ReflectScan \/ (\E cl \in clusters : Reflect(cl)) \/ StoreInsight \/ InsightUnstored \/ Link \/ ClusterDone)
          => pairs' \subseteq pairs
    BY DEF ReflectScan, Reflect, StoreInsight, InsightUnstored, Link, ClusterDone, pairVars
  <2>5. (NodesScan \/ QueryDone \/ (\E p \in pairs : Judge(p)) \/ Forget) => pairs' \subseteq pairs
    BY DEF NodesScan, QueryDone, Judge, Forget, pairVars
  <2>6. (DedupDone \/ ReflectDone \/ JudgeDone \/ StageFails \/ Killed) => pairs' \subseteq pairs
    BY DEF DedupDone, ReflectDone, JudgeDone, StageFails, Killed, Returned
  <2>7. UNCHANGED vars => pairs' \subseteq pairs
    BY DEF vars, pairVars
  <2> QED BY <2>1, <2>2, <2>3, <2>4, <2>5, <2>6, <2>7, NextCases
<1>2. \A m \in Memories \ stored' : archived'[m] = "no"
  <2>1. stored \subseteq stored'
    BY StoreSteps
  <2>2. CASE Unlinked \/ Link
    BY <2>1, <2>2 DEF Unlinked, Link, storeVars, RestSound
  <2>3. CASE \E n \in near : Merge(n)
    <3> PICK n \in near : Merge(n) BY <2>3
    <3>1. n \in stored /\ head \in stored
      BY MergeSteps DEF TypeOK
    <3>2. archived' = archived \/ \E m \in stored : archived' = [archived EXCEPT ![m] = "dedup"]
      BY <3>1, MergeSteps DEF Unlinked, Archive
    <3> QED BY <2>1, <3>2 DEF RestSound, TypeOK, StoreTypeOK
  <2>4. CASE \E p \in pairs : Judge(p)
    <3> PICK p \in pairs : Judge(p) BY <2>4
    <3>1. p \subseteq stored
      BY DEF TypeOK
    <3> QED BY <2>1, <3>1 DEF Judge, Archive, RestSound, TypeOK, StoreTypeOK
  <2>5. CASE Forget
    BY <2>5 DEF Forget, Forgettable, Visible, RestSound
  <2> QED BY <2>2, <2>3, <2>4, <2>5, ArchiveSteps
<1> QED BY <1>1, <1>2 DEF RestSound

-----------------------------------------------------------------------------
(* The properties                                                          *)

\* A step that archives no further duplicate orphans none.
LEMMA NoNewDuplicate ==
  ASSUME DuplicatesKept, Duplicates' \subseteq Duplicates, \A m : Keepers(m) \subseteq Keepers(m)'
  PROVE  DuplicatesKept'
  BY DEF DuplicatesKept

\* Archiving a duplicate beside a keeper that is visible, or whose own keeper
\* is, leaves no group of duplicates that only have each other.
LEMMA NewDuplicate ==
  ASSUME DuplicatesKept, RestSound, StoreTypeOK, stored' = stored,
         NEW keep \in Memories, NEW drop \in Memories, archived[drop] = "no",
         Archive("dedup", keep, drop),
         keep # drop,
         archived[keep] # "no" => \E k \in Keepers(keep) : archived[k] = "no" /\ k # drop
  PROVE  DuplicatesKept'
<1> SUFFICES ASSUME NEW ms \in SUBSET Duplicates', \A m \in ms : Keepers(m)' \subseteq ms
             PROVE  ms = {}
  BY DEF DuplicatesKept
<1>1. archived' = [archived EXCEPT ![drop] = "dedup"] /\ \A m : Keepers(m) \subseteq Keepers(m)'
  BY DEF Archive, Keepers
<1>2. archived \in [Memories -> Reasons] /\ stored \subseteq Memories
  BY DEF StoreTypeOK
<1>3. \A m \in ms : m \in stored /\ archived'[m] = "dedup"
  BY DEF Duplicates
<1>4. drop \notin ms
  <2> SUFFICES ASSUME drop \in ms PROVE FALSE
    OBVIOUS
  <2>1. keep \in Keepers(drop)'
    BY DEF Archive, Keepers
  <2>2. keep \in ms /\ archived[keep] # "no"
    BY <1>1, <1>2, <1>3, <2>1
  <2>3. PICK k \in Keepers(keep) : archived[k] = "no" /\ k # drop
    BY <2>2
  <2>4. k \in ms
    BY <1>1, <2>2, <2>3
  <2> QED BY <1>1, <1>2, <1>3, <2>3, <2>4
<1>5. ms \subseteq Duplicates
  BY <1>1, <1>2, <1>3, <1>4 DEF Duplicates
<1>6. \A m \in ms : Keepers(m) \subseteq ms
  BY <1>1
<1> QED BY <1>5, <1>6 DEF DuplicatesKept

\* No step orphans a duplicate: of the steps that archive, only a merge makes one.
LEMMA DuplicatesStep ==
  ASSUME IInv, [Next]_vars
  PROVE  DuplicatesKept'
<1> USE DEF IInv
<1>1. CASE Unlinked \/ Link
  <2>1. archived' = archived /\ \A m : Keepers(m) \subseteq Keepers(m)'
    BY <1>1 DEF Unlinked, Link, storeVars, Keepers
  <2>2. stored' \subseteq Memories
    BY TypeStep DEF TypeOK, StoreTypeOK
  <2>3. Duplicates' \subseteq Duplicates
    BY <2>1, <2>2 DEF Duplicates, RestSound
  <2> QED BY <2>1, <2>3, NoNewDuplicate
<1>2. CASE \E n \in near : Merge(n)
  <2> PICK n \in near : Merge(n) BY <1>2
  <2>1. n \in Memories /\ head \in Memories /\ StoreTypeOK /\ stored' = stored
    BY MergeSteps DEF Merge, TypeOK, StoreTypeOK
  <2>2. CASE Unlinked
    BY <1>1, <2>2
  <2>3. CASE Archive("dedup", head, n)
    <3>1. archived[head] # "no" => \E k \in Keepers(head) : archived[k] = "no" /\ k # n
      BY MergeSteps DEF DedupSound
    <3> QED BY <2>1, <2>3, <3>1, MergeSteps, NewDuplicate
  <2>4. CASE archived[head] = "no" /\ Archive("dedup", n, head)
    BY <2>1, <2>4, MergeSteps, NewDuplicate
  <2> QED BY <2>2, <2>3, <2>4, MergeSteps
<1>3. CASE \E p \in pairs : Judge(p)
  <2> PICK p \in pairs : Judge(p) BY <1>3
  <2>1. stored' = stored /\ (Unlinked \/ \E w, l \in p : Archive("superseded", w, l))
    BY DEF Judge, Unlinked
  <2>2. CASE \E w, l \in p : Archive("superseded", w, l)
    <3> PICK w \in p, l \in p : Archive("superseded", w, l) BY <2>2
    <3>1. Duplicates' \subseteq Duplicates
      BY <2>1 DEF Archive, Duplicates, TypeOK, StoreTypeOK
    <3>2. \A m : Keepers(m) \subseteq Keepers(m)'
      BY DEF Archive, Keepers
    <3> QED BY <3>1, <3>2, NoNewDuplicate
  <2> QED BY <1>1, <2>1, <2>2
<1>4. CASE Forget
  <2>1. Duplicates' \subseteq Duplicates
    BY <1>4 DEF Forget, Duplicates, TypeOK, StoreTypeOK
  <2>2. \A m : Keepers(m) \subseteq Keepers(m)'
    BY <1>4 DEF Forget, graphVars, Keepers
  <2> QED BY <2>1, <2>2, NoNewDuplicate
<1> QED BY <1>1, <1>2, <1>3, <1>4, ArchiveSteps

\* Whatever is linked is of one company, and what an insight cites is episodic.
LEMMA EdgesStep ==
  ASSUME IInv, [Next]_vars
  PROVE  EdgesWithinCompany' /\ EvidenceEpisodic'
<1> USE DEF IInv
<1>0. \A x \in stored : kind'[x] = kind[x]
  BY StoreSteps
<1>1. \A e \in edges : /\ Company[e[2]] = Company[e[3]]
                       /\ e[1] = "reflection" => kind'[e[3]] = "episodic"
  <2>1. \A e \in edges : e[3] \in stored
    BY DEF TypeOK
  <2> QED BY <1>0, <2>1 DEF EdgesWithinCompany, EvidenceEpisodic
<1>2. \A e \in edges' \ edges : /\ Company[e[2]] = Company[e[3]]
                                /\ e[1] = "reflection" => kind'[e[3]] = "episodic"
  <2>1. CASE \E n \in near : Merge(n)
    <3> PICK n \in near : Merge(n) BY <2>1
    <3> QED BY MergeSteps DEF Unlinked, Archive
  <2>2. CASE Link
    <3>1. stage = "link" /\ Sound(current) /\ edges' = edges \cup {<<"reflection", current[1], e>> : e \in current[2]}
      BY <2>2 DEF Link, Goto, EvidenceSound
    <3> QED BY <1>0, <3>1 DEF Sound
  <2>3. CASE \E p \in pairs : Judge(p)
    <3> PICK p \in pairs : Judge(p) BY <2>3
    <3>1. edges' = edges \/ \E w, l \in p : edges' = edges \cup {<<"superseded", w, l>>}
      BY DEF Judge, Archive
    <3> QED BY <3>1 DEF RestSound
  <2>4. CASE Forget \/ Unlinked
    BY <2>4 DEF Forget, graphVars, Unlinked
  <2> QED BY <2>1, <2>2, <2>3, <2>4, ArchiveSteps
<1>3. \A e \in edges' : /\ Company[e[2]] = Company[e[3]]
                        /\ e[1] = "reflection" => kind'[e[3]] = "episodic"
  BY <1>1, <1>2
<1>4. EdgesWithinCompany'
  BY <1>3 DEF EdgesWithinCompany
<1>5. EvidenceEpisodic'
  BY <1>3 DEF EvidenceEpisodic
<1> QED BY <1>4, <1>5

\* Every step keeps the invariant.
LEMMA Inductive == IInv /\ [Next]_vars => IInv'
<1> SUFFICES ASSUME IInv, [Next]_vars PROVE IInv'
  OBVIOUS
<1>1. TypeOK'
  BY TypeStep DEF IInv
<1>2. EvidenceSound' /\ DedupSound' /\ RestSound'
  BY <1>1, EvidenceStep, DedupStep, RestStep DEF IInv
<1> QED BY <1>1, <1>2, DuplicatesStep, EdgesStep DEF IInv

\* The invariant holds at first.
LEMMA Initial == Init => IInv
<1> SUFFICES ASSUME Init PROVE IInv
  OBVIOUS
<1>1. TypeOK
  BY TypeInit
<1>2. EvidenceSound
  BY DEF Init, NoLocals, EvidenceSound
<1>3. DedupSound /\ RestSound
  BY DEF Init, StoreInit, NoLocals, DedupSound, RestSound, Inside
<1>4. DuplicatesKept
  BY <1>1 DEF Init, StoreInit, DuplicatesKept, Duplicates, TypeOK, StoreTypeOK
<1>5. EdgesWithinCompany /\ EvidenceEpisodic
  BY DEF Init, EdgesWithinCompany, EvidenceEpisodic
<1> QED BY <1>1, <1>2, <1>3, <1>4, <1>5 DEF IInv

\* The inductive invariant holds throughout.
THEOREM DreamInvariant == Spec => []IInv
  BY Initial, Inductive, PTL DEF Spec

\* Every variable of the store and of the pass keeps its type.
THEOREM DreamTypeCorrect == Spec => []TypeOK
<1>1. IInv => TypeOK
  BY DEF IInv
<1> QED BY <1>1, DreamInvariant, PTL

\* Deduplication (_stage_dedup with its candidates read once, its neighbours
\* read per candidate and its local set of dropped ones) always keeps a memory
\* of a cluster, whatever agents do between its queries and wherever it fails.
THEOREM DuplicateAlwaysKept == Spec => []DuplicatesKept
<1>1. IInv => DuplicatesKept
  BY DEF IInv
<1> QED BY <1>1, DreamInvariant, PTL

\* No stage links memories of two companies.
THEOREM CompaniesApart == Spec => []EdgesWithinCompany
<1>1. IInv => EdgesWithinCompany
  BY DEF IInv
<1> QED BY <1>1, DreamInvariant, PTL

\* The evidence of every insight is episodic: _store keeps the kind of a memory
\* it finds, so an insight whose text an agent also remembers stays one.
THEOREM EvidenceIsEpisodic == Spec => []EvidenceEpisodic
<1>1. IInv => EvidenceEpisodic
  BY DEF IInv
<1> QED BY <1>1, DreamInvariant, PTL

-----------------------------------------------------------------------------
(* With an embedder that answers, deduplication misses no pair             *)

\* Of two near-duplicate candidates that are both visible still, one that had
\* its turn is having it, or the limit of the run is reached.
TurnsTaken ==
  stage \in Inside =>
    /\ scanned \subseteq embedded
    /\ \A m \in dropped : archived[m] # "no"
    /\ \A a \in done, b \in scanned :
         a \in scanned /\ a # b /\ Company[a] = Company[b] /\ <<a, b>> \in Twins /\ archived[a] = "no" /\ archived[b] = "no"
           => Full \/ (stage = "merge" /\ a = head /\ b \in near)

\* The limit of the run, once reached, stays reached.
LEMMA FullStays ==
  ASSUME TypeOK, TypeOK', dropped \subseteq dropped', Full
  PROVE  Full'
<1>1. IsFiniteSet(dropped')
  BY MemoryAssumption, FS_Subset DEF TypeOK, StoreTypeOK
<1>2. IsFiniteSet(dropped) /\ Cardinality(dropped) <= Cardinality(dropped')
  BY <1>1, FS_Subset
<1>3. Cardinality(dropped) \in Nat /\ Cardinality(dropped') \in Nat /\ DedupMax \in Nat
  BY <1>1, <1>2, FS_CardinalityType, DreamAssumption
<1> QED BY <1>2, <1>3 DEF Full

\* An embedding is only ever overwritten with nothing when the embedder is down.
LEMMA EmbeddedStays ==
  ASSUME EmbedderUp = {TRUE}, TypeOK, [Next]_vars
  PROVE  embedded \subseteq embedded'
<1>1. (\E m \in Statable : Remember(m)) \/ (\E m \in stored : Recall(m)) \/ StoreInsight \/ Backfill => embedded \subseteq embedded'
  BY DEF Remember, Recall, StoreInsight, Backfill, Store, Touch
<1>2. Rebuild \/ Dream \/ Decay \/ Scan \/ (\E c \in scanned : DedupHead(c)) \/ HeadDone => embedded' = embedded
  BY DEF Rebuild, Dream, Decay, Scan, DedupHead, HeadDone, storeVars
<1>3. (\E n \in near : Merge(n)) \/ (\E p \in pairs : Judge(p)) \/ Forget => embedded' = embedded
  BY DEF Merge, Judge, Forget
<1>4. ReflectScan \/ (\E cl \in clusters : Reflect(cl)) \/ InsightUnstored \/ Link \/ ClusterDone => embedded' = embedded
  BY DEF ReflectScan, Reflect, InsightUnstored, Link, ClusterDone, storeVars
<1>5. NodesScan \/ (\E m \in nodes : Query(m)) \/ QueryDone => embedded' = embedded
  BY DEF NodesScan, Query, QueryDone, storeVars
<1>6. DedupDone \/ ReflectDone \/ JudgeDone \/ StageFails \/ Killed => embedded' = embedded
  BY DEF DedupDone, ReflectDone, JudgeDone, StageFails, Killed, Returned, storeVars
<1>7. UNCHANGED vars => embedded' = embedded
  BY DEF vars, storeVars
<1> QED BY <1>1, <1>2, <1>3, <1>4, <1>5, <1>6, <1>7, NextCases

\* One comparison settles its pair: one of the two is archived, or the limit is
\* reached.
LEMMA PairSettled ==
  ASSUME TypeOK, DedupSound, \A m \in dropped : archived[m] # "no", NEW n \in near, Merge(n)
  PROVE  Full \/ archived'[n] # "no" \/ archived'[head] # "no"
<1>1. archived[n] = "no" /\ n # head /\ n \in Memories /\ head \in Memories
  BY MergeSteps DEF TypeOK, StoreTypeOK
<1>2. archived \in [Memories -> Reasons] /\ n \notin dropped
  BY <1>1 DEF TypeOK, StoreTypeOK
<1>3. CASE UNCHANGED <<archived, edges, dropped>> /\ head \in dropped
  BY <1>3
<1>4. CASE HeadOutranks(n) \/ head \notin dropped
  BY <1>1, <1>2, <1>4 DEF Merge, Drop, Archive
<1> QED BY <1>3, <1>4 DEF Merge, Drop

\* Every step keeps the account of the turns.
LEMMA TurnsStep ==
  ASSUME EmbedderUp = {TRUE}, IInv, TypeOK', TurnsTaken, [Next]_vars
  PROVE  TurnsTaken'
<1> USE DEF IInv
<1>1. CASE Scan
  <2>1. done' = {} /\ dropped' = {} /\ scanned' \subseteq embedded'
    BY <1>1 DEF Scan, Goto, DedupSound, Inside, storeVars
  <2> QED BY <2>1 DEF TurnsTaken
<1>2. CASE \E c \in scanned : DedupHead(c)
  <2> PICK c \in scanned : DedupHead(c) BY <1>2
  <2>1. /\ stage = "dedup" /\ stage' = "merge" /\ ~Full /\ head' = c /\ done' = done \cup {c}
        /\ scanned' = scanned /\ dropped' = dropped /\ archived' = archived /\ embedded' = embedded
    BY DEF DedupHead, Goto, storeVars
  <2>2. \A b \in scanned :
          c # b /\ Company[c] = Company[b] /\ <<c, b>> \in Twins /\ archived[b] = "no" => b \in near'
    BY <2>1 DEF DedupHead, Neighbours, Visible, TurnsTaken, Inside, TypeOK
  <2> QED BY <2>1, <2>2 DEF TurnsTaken, Inside
<1>3. CASE \E n \in near : Merge(n)
  <2> PICK n \in near : Merge(n) BY <1>3
  <2>1. /\ stage = "merge" /\ stage' = "merge" /\ head' = head /\ near' = near \ {n}
        /\ scanned' = scanned /\ done' = done /\ embedded' = embedded /\ dropped \subseteq dropped'
    BY MergeSteps DEF Merge
  <2>2. \A m \in Memories : archived'[m] = "no" => archived[m] = "no"
    BY MergeSteps DEF Unlinked, Archive, TypeOK, StoreTypeOK
  <2>3. \A m \in dropped' : archived'[m] # "no"
    <3>1. \A m \in dropped : archived'[m] # "no"
      BY <2>1, <2>2 DEF TurnsTaken, Inside, TypeOK, StoreTypeOK
    <3>2. n \in Memories /\ head \in Memories /\ archived \in [Memories -> Reasons]
      BY MergeSteps DEF TypeOK, StoreTypeOK
    <3> QED BY <3>1, <3>2, MergeSteps DEF Archive
  <2>4. Full => Full'
    BY <2>1, FullStays
  <2>5. Full \/ archived'[n] # "no" \/ archived'[head] # "no"
    BY <2>1, PairSettled DEF TurnsTaken, Inside
  <2>6. scanned \subseteq Memories
    BY DEF TypeOK, StoreTypeOK
  <2> QED BY <2>1, <2>2, <2>3, <2>4, <2>5, <2>6 DEF TurnsTaken, Inside
<1>4. CASE HeadDone
  <2>1. /\ stage = "merge" /\ stage' = "dedup" /\ near = {} /\ embedded' = embedded /\ archived' = archived
        /\ scanned' = scanned /\ done' = done /\ dropped' = dropped
    BY <1>4 DEF HeadDone, Goto, storeVars
  <2>2. Full' <=> Full
    BY <2>1 DEF Full
  <2> QED BY <2>1, <2>2 DEF TurnsTaken, Inside
<1>5. CASE Ends
  BY <1>5 DEF Ends, TurnsTaken
<1>6. CASE DedupAside
  <2>1. CASE stage' \notin Inside
    BY <2>1 DEF TurnsTaken
  <2>2. CASE stage' = stage /\ stage \in Inside /\ Unlinked
    <3>1. embedded \subseteq embedded' /\ archived' = archived
      BY <2>2, EmbeddedStays DEF Unlinked
    <3>2. scanned' = scanned /\ done' = done /\ dropped' = dropped /\ head' = head /\ near' = near
      BY <1>6 DEF DedupAside, dedupVars
    <3>3. Full' <=> Full
      BY <3>2 DEF Full
    <3> QED BY <2>2, <3>1, <3>2, <3>3 DEF TurnsTaken
  <2>3. CASE \E n \in near : Merge(n)
    BY <1>3, <2>3
  <2>4. CASE stage \in Inside /\ (Link \/ (\E p \in pairs : Judge(p)) \/ Forget)
    BY <2>4 DEF Link, Judge, Forget, Goto, Inside
  <2> QED BY <1>6, <2>1, <2>2, <2>3, <2>4, ArchiveSteps DEF DedupAside
<1> QED BY <1>1, <1>2, <1>3, <1>4, <1>5, <1>6, DedupSteps

\* When the turns are over the account leaves no pair.
LEMMA TurnsMerge == TurnsTaken => TwinsMerged
<1> SUFFICES ASSUME TurnsTaken, stage = "dedup", Open = {}, ~Full,
                    NEW a \in scanned \cap Visible, NEW b \in scanned \cap Visible, a # b, Company[a] = Company[b]
             PROVE  <<a, b>> \notin Twins
  BY DEF TwinsMerged
<1>1. a \in done
  BY DEF TurnsTaken, Inside, Open, Visible
<1> QED BY <1>1 DEF TurnsTaken, Inside, Visible

\* Below its limit, and with an embedder that answers, a deduplication that runs
\* to its end leaves no two near-duplicates of its candidates visible, whatever
\* agents do between its queries: reading the neighbours of each candidate at
\* its turn, and dropping the loser of each pair at once, is enough.
THEOREM TwinsAreMerged == EmbedderUp = {TRUE} => (Spec => []TwinsMerged)
<1> SUFFICES ASSUME EmbedderUp = {TRUE} PROVE Spec => []TwinsMerged
  OBVIOUS
<1>1. Init => TurnsTaken
  BY DEF Init, TurnsTaken, Inside
<1>2. IInv /\ TurnsTaken /\ IInv' /\ [Next]_vars => TurnsTaken'
  BY TurnsStep DEF IInv
<1>3. TurnsTaken => TwinsMerged
  BY TurnsMerge
<1> QED BY <1>1, <1>2, <1>3, DreamInvariant, PTL DEF Spec
=============================================================================
