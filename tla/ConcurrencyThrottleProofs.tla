----------------------- MODULE ConcurrencyThrottleProofs -----------------------
(***************************************************************************)
(* The throttle's cap for every number of calls and permits and every      *)
(* nesting of calls.  Permits are conserved whatever the framework does;   *)
(* what the cap needs besides is that no call returns a permit it did not  *)
(* take.                                                                   *)
(***************************************************************************)
EXTENDS ConcurrencyThrottle, FifoSemaphoreProofs

\* Inductive whatever goes wrong with the pairing.
ThrottleInvariant ==
  /\ TypeOK /\ SemInv
  /\ Waiters = Waiting
  /\ Free + held = Max

-----------------------------------------------------------------------------
\* What a move of one call does to the two sets.
LEMMA MoveSets ==
  ASSUME TypeOK, NEW c \in Calls, NEW from, NEW to \in {"idle", "waiting", "tool"}, Move(c, from, to)
  PROVE  /\ at' \in [Calls -> {"idle", "waiting", "tool"}]
         /\ Waiting' = (IF to = "waiting" THEN Waiting \cup {c} ELSE Waiting \ {c})
         /\ Active' = (IF to = "tool" THEN Active \cup {c} ELSE Active \ {c})
         /\ (c \in Waiting <=> from = "waiting") /\ (c \in Active <=> from = "tool")
  BY DEF TypeOK, Move, Waiting, Active

\* A step that leaves the semaphore alone.
LEMMA SemSame ==
  ASSUME SemInv, UNCHANGED semVars
  PROVE  SemInv' /\ Free' = Free /\ Waiters' = Waiters
  BY DEF SemInv, SemTypeOK, NoLostWakeup, Free, Waiters, Queued, semVars

\* The numbers the invariant speaks of are numbers.
LEMMA Counts ==
  ASSUME ThrottleInvariant
  PROVE  /\ Free \in Nat /\ held \in Nat /\ Max \in Nat /\ Free = Max - held
         /\ Cardinality(woken) \in Nat /\ value \in Nat
         /\ Active \in SUBSET Calls /\ Cardinality(Active) \in Nat
<1>1. value \in Nat /\ Cardinality(woken) \in Nat /\ held \in Nat /\ Max \in Nat
  BY WokenCounts, SemaphoreAssumption DEF ThrottleInvariant, TypeOK, SemTypeOK
<1>2. Active \in SUBSET Calls /\ Cardinality(Active) \in Nat
  BY WokenCounts DEF Active
<1> QED BY <1>1, <1>2 DEF ThrottleInvariant, Free

\* Returning a permit: counted down, handed on; or nothing when nothing is held.
LEMMA ReturnKeeps ==
  ASSUME ThrottleInvariant, Return
  PROVE  /\ SemInv' /\ Waiters' = Waiters /\ held' \in Nat /\ Free' + held' = Max
         /\ held' = IF held > 0 THEN held - 1 ELSE held
<1>1. CASE held > 0
  <2>1. value + Cardinality(woken) < Max /\ woken \in SUBSET woken
    BY <1>1, Counts DEF Free
  <2>2. held' = held - 1 /\ HandOn(woken)
    BY <1>1 DEF Return, Release
  <2>3. SemInv' /\ Free' = Free + 1 /\ Waiters' = Waiters
    BY <2>1, <2>2, HandOnKeeps DEF ThrottleInvariant, Free, Waiters
  <2> QED BY <1>1, <2>2, <2>3, Counts
<1>2. CASE ~(held > 0)
  BY <1>2, SemSame, Counts DEF Return, ThrottleInvariant
<1> QED BY <1>1, <1>2

\* The initial state satisfies the invariant.
LEMMA ThrottleInit == Init => ThrottleInvariant /\ Active = {}
  BY SemaphoreAssumption, FS_EmptySet
  DEF Init, SemInit, ThrottleInvariant, TypeOK, SemInv, SemTypeOK, NoLostWakeup, Waiters, Queued,
      Waiting, Active, Free

\* Every step preserves it.
LEMMA ThrottleStep == ThrottleInvariant /\ [Next]_vars => ThrottleInvariant'
<1> SUFFICES ASSUME ThrottleInvariant, [Next]_vars PROVE ThrottleInvariant'
  OBVIOUS
<1>0. TypeOK /\ SemInv /\ Waiters = Waiting /\ Free + held = Max
  BY DEF ThrottleInvariant
<1>t. SemInv' /\ held' \in Nat /\ at' \in [Calls -> {"idle", "waiting", "tool"}] => TypeOK'
  BY DEF TypeOK, SemInv
<1>1. ASSUME NEW c \in Calls, BeforeTool(c) PROVE ThrottleInvariant'
  <2>1. CASE Move(c, "idle", "tool") /\ Take /\ held' = held + 1
    <3>1. SemInv' /\ Free' = Free - 1 /\ Waiters' = Waiters
      BY <1>0, <2>1, TakeKeeps
    <3>2. at' \in [Calls -> {"idle", "waiting", "tool"}] /\ Waiting' = Waiting
      BY <1>0, <2>1, MoveSets
    <3>3. held' \in Nat /\ Free' + held' = Max
      BY <2>1, <3>1, Counts
    <3> QED BY <1>0, <1>t, <3>1, <3>2, <3>3 DEF ThrottleInvariant
  <2>2. CASE Move(c, "idle", "waiting") /\ Enqueue(c) /\ held' = held
    <3>1. c \notin Waiters
      BY <1>0, <2>2, MoveSets
    <3> QED BY <1>0, <1>t, <2>2, <3>1, EnqueueKeeps, MoveSets, Counts DEF ThrottleInvariant
  <2> QED BY <1>1, <2>1, <2>2 DEF BeforeTool
<1>2. ASSUME NEW c \in Calls, Proceed(c) PROVE ThrottleInvariant'
  <2>1. SemInv' /\ Free' = Free - 1 /\ Waiters' = Waiters \ {c}
    BY <1>0, <1>2, ResumeKeeps DEF Proceed
  <2>2. at' \in [Calls -> {"idle", "waiting", "tool"}] /\ Waiting' = Waiting \ {c}
    BY <1>0, <1>2, MoveSets DEF Proceed
  <2>3. held' \in Nat /\ Free' + held' = Max
    BY <1>2, <2>1, Counts DEF Proceed
  <2> QED BY <1>0, <1>t, <2>1, <2>2, <2>3 DEF ThrottleInvariant
<1>3. ASSUME NEW c \in Calls, AfterTool(c) PROVE ThrottleInvariant'
  <2>1. SemInv' /\ Waiters' = Waiters /\ held' \in Nat /\ Free' + held' = Max
    BY <1>3, ReturnKeeps DEF AfterTool
  <2>2. at' \in [Calls -> {"idle", "waiting", "tool"}] /\ Waiting' = Waiting
    BY <1>0, <1>3, MoveSets DEF AfterTool
  <2> QED BY <1>0, <1>t, <2>1, <2>2 DEF ThrottleInvariant
<1>4. ASSUME NEW c \in Calls, Cancelled(c) PROVE ThrottleInvariant'
  <2>1. Free <= Max
    BY Counts
  <2> QED BY <1>0, <1>t, <1>4, <2>1, WithdrawKeeps, MoveSets, Counts DEF ThrottleInvariant, Cancelled
<1>5. ASSUME NEW c \in Calls, AfterLost(c) PROVE ThrottleInvariant'
  BY <1>0, <1>t, <1>5, SemSame, MoveSets, Counts DEF ThrottleInvariant, AfterLost
<1>6. ASSUME NEW c \in Calls, AfterUnpaired(c) PROVE ThrottleInvariant'
  BY <1>0, <1>t, <1>6, ReturnKeeps DEF ThrottleInvariant, AfterUnpaired, TypeOK, Waiting
<1>7. CASE UNCHANGED vars
  BY <1>0, <1>t, <1>7, SemSame, Counts DEF vars, ThrottleInvariant, TypeOK, Waiting
<1> QED BY <1>1, <1>2, <1>3, <1>4, <1>5, <1>6, <1>7 DEF Next

-----------------------------------------------------------------------------
\* At first nobody is in the tool.
LEMMA CountedInit == Init => LossOnlyShrinks
  BY ThrottleInit, FS_EmptySet DEF Init, LossOnlyShrinks

\* Without unpaired callbacks every call in the tool stays counted ...
LEMMA CountedStep ==
  ThrottleInvariant /\ LossOnlyShrinks /\ "unpaired" \notin Faults /\ [Next]_vars => LossOnlyShrinks'
<1> SUFFICES ASSUME ThrottleInvariant, LossOnlyShrinks, "unpaired" \notin Faults, [Next]_vars PROVE LossOnlyShrinks'
  OBVIOUS
<1>0. /\ TypeOK /\ held \in Nat /\ Active \in SUBSET Calls /\ Cardinality(Active) \in Nat
      /\ Cardinality(Active) <= held
  BY Counts DEF ThrottleInvariant, LossOnlyShrinks
<1>1. ASSUME NEW c \in Calls, BeforeTool(c) \/ Proceed(c) PROVE LossOnlyShrinks'
  <2>1. CASE \E from \in {"idle", "waiting"} : Move(c, from, "tool") /\ held' = held + 1
    <3>1. Active' = Active \cup {c} /\ c \notin Active
      BY <1>0, <2>1, MoveSets
    <3>2. Cardinality(Active') = Cardinality(Active) + 1
      BY <1>0, <3>1, WokenCounts
    <3> QED BY <1>0, <2>1, <3>2 DEF LossOnlyShrinks
  <2>2. CASE Move(c, "idle", "waiting") /\ held' = held
    <3>1. Active' = Active
      BY <1>0, <2>2, MoveSets
    <3> QED BY <1>0, <2>2, <3>1 DEF LossOnlyShrinks
  <2> QED BY <1>1, <2>1, <2>2 DEF BeforeTool, Proceed
<1>2. ASSUME NEW c \in Calls, AfterTool(c) \/ AfterLost(c) PROVE LossOnlyShrinks'
  <2>1. Active' = Active \ {c} /\ c \in Active
    BY <1>0, <1>2, MoveSets DEF AfterTool, AfterLost
  <2>2. Cardinality(Active') = Cardinality(Active) - 1 /\ Cardinality(Active') \in Nat
    <3>1. Cardinality(Active \ {c}) = Cardinality(Active) - 1
      BY <1>0, <2>1, WokenCounts
    <3>2. Active \ {c} \in SUBSET Calls
      BY <1>0
    <3> QED BY <2>1, <3>1, <3>2, WokenCounts
  <2>3. held' = held - 1 \/ held' = held
    BY <1>2, ReturnKeeps DEF AfterTool, AfterLost
  <2> QED BY <1>0, <2>2, <2>3 DEF LossOnlyShrinks
<1>3. ASSUME NEW c \in Calls, Cancelled(c) PROVE LossOnlyShrinks'
  <2>1. Active' = Active /\ held' = held
    BY <1>0, <1>3, MoveSets DEF Cancelled
  <2> QED BY <1>0, <2>1 DEF LossOnlyShrinks
<1>4. ASSUME NEW c \in Calls, AfterUnpaired(c) PROVE LossOnlyShrinks'
  BY <1>4 DEF AfterUnpaired
<1>5. CASE UNCHANGED vars
  BY <1>0, <1>5 DEF vars, LossOnlyShrinks, Active
<1> QED BY <1>1, <1>2, <1>3, <1>4, <1>5 DEF Next

\* ... and if no after-callback is lost either, nothing else is counted.
LEMMA ExactStep ==
  ThrottleInvariant /\ held = Cardinality(Active) /\ Faults \subseteq {"cancel"} /\ [Next]_vars
    => held' = Cardinality(Active')
<1> SUFFICES ASSUME ThrottleInvariant, held = Cardinality(Active), Faults \subseteq {"cancel"}, [Next]_vars
             PROVE  held' = Cardinality(Active')
  OBVIOUS
<1>0. TypeOK /\ held \in Nat /\ Active \in SUBSET Calls /\ Cardinality(Active) \in Nat
  BY Counts DEF ThrottleInvariant
<1>1. ASSUME NEW c \in Calls, BeforeTool(c) \/ Proceed(c) PROVE held' = Cardinality(Active')
  <2>1. CASE \E from \in {"idle", "waiting"} : Move(c, from, "tool") /\ held' = held + 1
    <3>1. Active' = Active \cup {c} /\ c \notin Active
      BY <1>0, <2>1, MoveSets
    <3> QED BY <1>0, <2>1, <3>1, WokenCounts
  <2>2. CASE Move(c, "idle", "waiting") /\ held' = held
    BY <1>0, <2>2, MoveSets
  <2> QED BY <1>1, <2>1, <2>2 DEF BeforeTool, Proceed
<1>2. ASSUME NEW c \in Calls, AfterTool(c) PROVE held' = Cardinality(Active')
  <2>1. Active' = Active \ {c} /\ c \in Active
    BY <1>0, <1>2, MoveSets DEF AfterTool
  <2>2. Cardinality(Active \ {c}) = Cardinality(Active) - 1 /\ Cardinality(Active \ {c}) \in Nat
    <3>1. Active \ {c} \in SUBSET Calls
      BY <1>0
    <3> QED BY <1>0, <2>1, <3>1, WokenCounts
  <2>3. held' = IF held > 0 THEN held - 1 ELSE held
    BY <1>2, ReturnKeeps DEF AfterTool
  <2> QED BY <1>0, <2>1, <2>2, <2>3
<1>3. ASSUME NEW c \in Calls, Cancelled(c) PROVE held' = Cardinality(Active')
  BY <1>0, <1>3, MoveSets DEF Cancelled
<1>4. ASSUME NEW c \in Calls, AfterLost(c) \/ AfterUnpaired(c) PROVE FALSE
  BY <1>4 DEF AfterLost, AfterUnpaired
<1>5. CASE UNCHANGED vars
  BY <1>5 DEF vars, Active
<1> QED BY <1>1, <1>2, <1>3, <1>4, <1>5 DEF Next

-----------------------------------------------------------------------------
\* Every variable keeps its type.
THEOREM ThrottleTypeCorrect == Spec => []TypeOK
<1>1. ThrottleInvariant => TypeOK
  BY DEF ThrottleInvariant
<1> QED BY <1>1, ThrottleInit, ThrottleStep, PTL DEF Spec

\* No waiter sleeps through a release, whatever is cancelled, lost or unpaired.
THEOREM ThrottleWakes == Spec => []NoLostWakeup
<1>1. ThrottleInvariant => NoLostWakeup
  BY DEF ThrottleInvariant, SemInv
<1> QED BY <1>1, ThrottleInit, ThrottleStep, PTL DEF Spec

\* The cap, as long as after_tool_callback fires only for calls let in here;
\* lost callbacks and cancelled waiters cannot break it.
THEOREM CapKept == "unpaired" \notin Faults => (Spec => []CapHolds)
<1> SUFFICES ASSUME "unpaired" \notin Faults PROVE Spec => []CapHolds
  OBVIOUS
<1>2. ThrottleInvariant /\ LossOnlyShrinks => CapHolds
  <2> SUFFICES ASSUME ThrottleInvariant, LossOnlyShrinks PROVE CapHolds
    OBVIOUS
  <2>1. IsFiniteSet(Active) /\ IsFiniteSet(woken)
    BY WokenCounts, Counts DEF ThrottleInvariant, TypeOK, SemTypeOK
  <2>2. /\ Cardinality(Active \cup woken) = Cardinality(Active) + Cardinality(woken) - Cardinality(Active \cap woken)
        /\ Cardinality(Active \cap woken) \in Nat
    <3>1. Active \cap woken \in SUBSET Calls
      BY Counts
    <3> QED BY <2>1, <3>1, FS_Union, WokenCounts
  <2> QED BY <2>2, Counts DEF CapHolds, LossOnlyShrinks, Free
<1>3. ThrottleInvariant /\ LossOnlyShrinks /\ [Next]_vars => LossOnlyShrinks'
  BY CountedStep
<1> QED BY <1>2, CountedInit, ThrottleInit, ThrottleStep, <1>3, PTL DEF Spec

\* A lost after-callback costs its own permit only.
THEOREM LossKept == "unpaired" \notin Faults => (Spec => []LossOnlyShrinks)
<1> SUFFICES ASSUME "unpaired" \notin Faults PROVE Spec => []LossOnlyShrinks
  OBVIOUS
<1>3. ThrottleInvariant /\ LossOnlyShrinks /\ [Next]_vars => LossOnlyShrinks'
  BY CountedStep
<1> QED BY CountedInit, ThrottleInit, ThrottleStep, <1>3, PTL DEF Spec

\* No permit is lost or made, whatever is cancelled, lost or unpaired.
THEOREM PermitsKept == Spec => []PermitsConserved
<1>1. ThrottleInvariant => PermitsConserved
  BY DEF ThrottleInvariant, PermitsConserved, Free
<1> QED BY <1>1, ThrottleInit, ThrottleStep, PTL DEF Spec

\* With paired callbacks _held counts the calls in the tool, cancelled waiters
\* notwithstanding.
THEOREM HeldKept == Faults \subseteq {"cancel"} => (Spec => []HeldExact)
<1> SUFFICES ASSUME Faults \subseteq {"cancel"} PROVE Spec => []HeldExact
  OBVIOUS
<1>1. Init => HeldExact
  BY ThrottleInit, FS_EmptySet DEF Init, HeldExact
<1>2. ThrottleInvariant /\ HeldExact /\ [Next]_vars => HeldExact'
  BY ExactStep DEF HeldExact
<1> QED BY <1>1, <1>2, ThrottleInit, ThrottleStep, PTL DEF Spec

\* "extra calls just queue": permits go to the calls in the order in which they
\* came, whatever is cancelled, lost or unpaired.
THEOREM ThrottleInTurn == Spec => FirstComeFirstServed
<1>1. ThrottleInvariant /\ [Next]_vars => [InTurn]_semVars
  <2> SUFFICES ASSUME ThrottleInvariant, Next PROVE [InTurn]_semVars
    BY DEF vars
  <2>1. SemInv /\ Waiters = Waiting
    BY DEF ThrottleInvariant
  <2>2. PICK c \in Calls : BeforeTool(c) \/ Proceed(c) \/ AfterTool(c)
                          \/ Cancelled(c) \/ AfterLost(c) \/ AfterUnpaired(c)
    BY DEF Next
  <2>3. at[c] = "idle" => c \notin Waiters
    BY <2>1 DEF Waiting
  <2> QED BY <2>1, <2>2, <2>3, ServedInTurn
          DEF BeforeTool, Proceed, AfterTool, Cancelled, AfterLost, AfterUnpaired, Return, Move, semVars
<1> QED BY <1>1, ThrottleInit, ThrottleStep, PTL DEF Spec, FirstComeFirstServed

-----------------------------------------------------------------------------
(* Who a queued call waits for.                                            *)

\* A queued call that nothing is on its way to has found every permit taken.
LEMMA WaitsWhenFull ==
  ThrottleInvariant /\ Waiting # {} /\ woken = {} => held = Max
<1> SUFFICES ASSUME ThrottleInvariant, Waiting # {}, woken = {} PROVE held = Max
  OBVIOUS
<1>1. queue # <<>>
  BY DEF ThrottleInvariant, Waiters, Queued
<1>2. ~(value > 0)
  BY <1>1 DEF ThrottleInvariant, SemInv, NoLostWakeup
<1>3. Cardinality(woken) = 0
  BY FS_EmptySet
<1> QED BY <1>2, <1>3, Counts DEF ThrottleInvariant, Free

\* A call in the tool that cannot end has made a call.
LEMMA BusyDispatches ==
  ASSUME ThrottleInvariant, NEW c \in Active, ~MayEnd(c)
  PROVE  c \in Dispatchers
  BY ThrottleAssumption DEF MayEnd, Dispatchers, Active

\* With nothing lost or unpaired, calls wait for one another only when every
\* permit is with a dispatcher.
LEMMA StallMeans == ThrottleInvariant /\ HeldExact => StallIsNested
<1> SUFFICES ASSUME ThrottleInvariant, HeldExact, Waiting # {}, woken = {}, \A c \in Active : ~MayEnd(c)
             PROVE  Active \subseteq Dispatchers /\ Cardinality(Active) = Max
  BY DEF StallIsNested
<1>1. Active \subseteq Dispatchers
  BY BusyDispatches
<1>2. Cardinality(Active) = Max
  BY WaitsWhenFull DEF HeldExact
<1> QED BY <1>1, <1>2

\* The throttle stalls only by nesting, whatever is cancelled in the queue.
THEOREM StallKept == Faults \subseteq {"cancel"} => (Spec => []StallIsNested)
<1> SUFFICES ASSUME Faults \subseteq {"cancel"} PROVE Spec => []StallIsNested
  OBVIOUS
<1>1. Init => HeldExact
  BY ThrottleInit, FS_EmptySet DEF Init, HeldExact
<1>2. ThrottleInvariant /\ HeldExact /\ [Next]_vars => HeldExact'
  BY ExactStep DEF HeldExact
<1> QED BY <1>1, <1>2, StallMeans, ThrottleInit, ThrottleStep, PTL DEF Spec

\* Fewer dispatchers than permits: the throttle never stalls.
THEOREM NeverStalls ==
  ASSUME Faults \subseteq {"cancel"}, Cardinality(Dispatchers) < Max PROVE Spec => []NoStall
<1>1. StallIsNested => NoStall
  <2> SUFFICES ASSUME Active \subseteq Dispatchers, Cardinality(Active) = Max PROVE FALSE
    BY DEF StallIsNested, NoStall
  <2>1. IsFiniteSet(Dispatchers)
    <3>1. Dispatchers \in SUBSET Calls
      BY ThrottleAssumption DEF Dispatchers
    <3> QED BY <3>1, SemaphoreAssumption, FS_Subset
  <2>2. Cardinality(Active) <= Cardinality(Dispatchers) /\ Cardinality(Dispatchers) \in Nat
    BY <2>1, FS_Subset, FS_CardinalityType
  <2> QED BY <2>2, SemaphoreAssumption
<1> QED BY <1>1, StallKept, PTL

-----------------------------------------------------------------------------
\* Every step of the throttle is a step of the bounded pool.
LEMMA PoolStep ==
  ThrottleInvariant /\ LossOnlyShrinks /\ "unpaired" \notin Faults /\ [Next]_vars => [Pool!Next]_(Pool!vars)
<1> SUFFICES ASSUME ThrottleInvariant, LossOnlyShrinks, "unpaired" \notin Faults, [Next]_vars
             PROVE  [Pool!Next]_(Pool!vars)
  OBVIOUS
<1>0. TypeOK /\ SemInv
  BY DEF ThrottleInvariant
<1> USE DEF Pool!Next, Pool!vars
<1>1. ASSUME NEW c \in Calls, Take \/ Resume(c), Move(c, "idle", "tool") \/ Move(c, "waiting", "tool")
      PROVE  Pool!Enter(c)
  <2>1. Waiting' = Waiting \ {c} /\ Active' = Active \cup {c} /\ c \notin Active
    BY <1>0, <1>1, MoveSets
  <2>2. Free > 0
    BY <1>0, <1>1, TakeKeeps, ResumeKeeps, Counts
  <2>3. Cardinality(Active) < Max
    BY <2>2, Counts DEF LossOnlyShrinks
  <2>4. Active' = Active \cup {c} /\ Waiting' = Waiting \ {c} /\ c \notin Active
    BY <2>1
  <2> QED BY <2>3, <2>4 DEF Pool!Enter, Pool!Cardinality, Cardinality
<1>2. ASSUME NEW c \in Calls, BeforeTool(c) PROVE Pool!Next
  <2>1. CASE Move(c, "idle", "tool") /\ Take
    BY <1>1, <2>1
  <2>2. CASE Move(c, "idle", "waiting")
    BY <1>0, <2>2, MoveSets DEF Pool!Join
  <2> QED BY <1>2, <2>1, <2>2 DEF BeforeTool
<1>3. ASSUME NEW c \in Calls, Proceed(c) PROVE Pool!Next
  BY <1>1, <1>3 DEF Proceed
<1>4. ASSUME NEW c \in Calls, AfterTool(c) \/ AfterLost(c) PROVE Pool!Next
  BY <1>0, <1>4, MoveSets DEF AfterTool, AfterLost, Pool!Leave
<1>5. ASSUME NEW c \in Calls, Cancelled(c) PROVE Pool!Next
  BY <1>0, <1>5, MoveSets DEF Cancelled, Pool!GiveUp
<1>6. ASSUME NEW c \in Calls, AfterUnpaired(c) PROVE FALSE
  BY <1>6 DEF AfterUnpaired
<1>7. CASE UNCHANGED vars
  BY <1>7 DEF vars, Waiting, Active
<1> QED BY <1>2, <1>3, <1>4, <1>5, <1>6, <1>7 DEF Next

\* The throttle implements the bounded pool.
THEOREM PoolImplemented == "unpaired" \notin Faults => (Spec => ImplementsPool)
<1> SUFFICES ASSUME "unpaired" \notin Faults PROVE Spec => ImplementsPool
  OBVIOUS
<1>2. Init => Pool!Init
  BY DEF Init, Pool!Init, Waiting, Active
<1>3. ThrottleInvariant /\ LossOnlyShrinks /\ [Next]_vars => LossOnlyShrinks'
  BY CountedStep
<1>4. ThrottleInvariant /\ LossOnlyShrinks /\ [Next]_vars => [Pool!Next]_(Pool!vars)
  BY PoolStep
<1> QED
  BY <1>2, CountedInit, ThrottleInit, ThrottleStep, <1>3, <1>4, PTL DEF Spec, ImplementsPool, Pool!Spec
=============================================================================

