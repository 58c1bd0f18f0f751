------------------------ MODULE OpencodeExecutorProofs ------------------------
(***************************************************************************)
(* The executor's permits for every number of runs and permits, however    *)
(* runs are cancelled, and its bound on processes when none is.            *)
(***************************************************************************)
EXTENDS OpencodeExecutor, FifoSemaphoreProofs, FunctionTheorems

Waiting == {c \in Calls : at[c] = "waiting"}

\* Inductive whether or not runs are cancelled.
ExecutorInvariant ==
  /\ TypeOK /\ SemInv
  /\ Waiters = Waiting
  /\ Free + Cardinality(Holding) = Max

-----------------------------------------------------------------------------
\* What a move of one run does to the two sets.
LEMMA MoveSets ==
  ASSUME TypeOK, NEW c \in Calls, NEW from, NEW to \in Places, Move(c, from, to)
  PROVE  /\ at' \in [Calls -> Places]
         /\ Waiting' = (IF to = "waiting" THEN Waiting \cup {c} ELSE Waiting \ {c})
         /\ Holding' = (IF to \in {"spawning", "communicate", "killed"} THEN Holding \cup {c} ELSE Holding \ {c})
         /\ (c \in Waiting <=> from = "waiting")
         /\ (c \in Holding <=> from \in {"spawning", "communicate", "killed"})
  BY DEF TypeOK, Move, Waiting, Holding, Places, Awaits

\* A step that leaves the semaphore alone.
LEMMA SemSame ==
  ASSUME SemInv, UNCHANGED semVars
  PROVE  SemInv' /\ Free' = Free /\ Waiters' = Waiters
  BY DEF SemInv, SemTypeOK, NoLostWakeup, Free, Waiters, Queued, semVars

\* The numbers the invariant speaks of are numbers.
LEMMA Counts ==
  ASSUME ExecutorInvariant
  PROVE  /\ Max \in Nat /\ value \in Nat /\ Cardinality(woken) \in Nat /\ Free \in Nat
         /\ Holding \in SUBSET Calls /\ Cardinality(Holding) \in Nat
         /\ Free + Cardinality(Holding) = Max
         /\ \A c : c \in Holding => Cardinality(Holding \ {c}) = Cardinality(Holding) - 1
         /\ \A c : c \notin Holding => Cardinality(Holding \cup {c}) = Cardinality(Holding) + 1
<1>1. value \in Nat /\ Cardinality(woken) \in Nat /\ Max \in Nat
  BY WokenCounts, SemaphoreAssumption DEF ExecutorInvariant, TypeOK, SemTypeOK
<1>2. Holding \in SUBSET Calls
  BY DEF Holding
<1> QED BY <1>1, <1>2, WokenCounts DEF ExecutorInvariant, Free

\* Leaving the critical section gives back exactly the permit of that run.
LEMMA ExitKeeps ==
  ASSUME ExecutorInvariant, NEW c \in Calls, NEW from \in {"spawning", "communicate", "killed"}, Exit(c, from)
  PROVE  /\ SemInv' /\ Waiters' = Waiting'
         /\ Free' + Cardinality(Holding') = Max
         /\ Holding' = Holding \ {c} /\ c \in Holding /\ Waiting' = Waiting
         /\ at' \in [Calls -> Places] /\ proc' \in [Calls -> Procs \cup {NoProc}]
<1>1. TypeOK /\ SemInv /\ Waiters = Waiting /\ Move(c, from, "idle") /\ HandOn(woken)
  BY DEF ExecutorInvariant, Exit, Release
<1>2. /\ at' \in [Calls -> Places] /\ Waiting' = Waiting /\ Holding' = Holding \ {c} /\ c \in Holding
  BY <1>1, MoveSets DEF Places, Awaits
<1>3. value + Cardinality(woken) < Max /\ woken \in SUBSET woken
  <2>1. Cardinality(Holding) > 0
    <3>1. Cardinality(Holding \ {c}) \in Nat
      <4>1. Holding \ {c} \in SUBSET Calls
        BY Counts
      <4> QED BY <4>1, WokenCounts
    <3> QED BY <1>2, <3>1, Counts
  <2> QED BY <2>1, Counts DEF Free
<1>4. SemInv' /\ Free' = Free + 1 /\ Waiters' = Waiters
  BY <1>1, <1>3, HandOnKeeps DEF Free, Waiters
<1>5. proc' \in [Calls -> Procs \cup {NoProc}]
  BY <1>1 DEF TypeOK, Exit
<1> QED BY <1>1, <1>2, <1>4, <1>5, Counts

\* The initial state satisfies the invariant.
LEMMA ExecutorInit == Init => ExecutorInvariant /\ Holding = {}
<1> SUFFICES ASSUME Init PROVE ExecutorInvariant /\ Holding = {}
  OBVIOUS
<1>1. Holding = {} /\ Waiting = {} /\ Waiters = {}
  BY DEF Init, SemInit, Holding, Waiting, Waiters, Queued
<1>2. Free = Max /\ Cardinality(Holding) = 0 /\ Max \in Nat
  BY <1>1, SemaphoreAssumption, FS_EmptySet DEF Init, SemInit, Free
<1>3. TypeOK /\ SemInv
  BY SemaphoreAssumption
  DEF Init, SemInit, TypeOK, SemInv, SemTypeOK, NoLostWakeup, Queued, Places, Awaits
<1> QED BY <1>1, <1>2, <1>3 DEF ExecutorInvariant

\* Every step preserves it.
LEMMA ExecutorStep == ExecutorInvariant /\ [Next]_vars => ExecutorInvariant'
<1> SUFFICES ASSUME ExecutorInvariant, [Next]_vars PROVE ExecutorInvariant'
  OBVIOUS
<1>0. TypeOK /\ SemInv /\ Waiters = Waiting /\ proc \in [Calls -> Procs \cup {NoProc}] /\ alive \in SUBSET Procs
  BY DEF ExecutorInvariant, TypeOK
<1>t. SemInv' /\ at' \in [Calls -> Places] /\ proc' \in [Calls -> Procs \cup {NoProc}] /\ alive' \in SUBSET Procs
        => TypeOK'
  BY DEF TypeOK, SemInv
<1>1. ASSUME NEW c \in Calls, Run(c) PROVE ExecutorInvariant'
  <2>1. CASE Move(c, "idle", "spawning") /\ Take
    <3>1. SemInv' /\ Free' = Free - 1 /\ Waiters' = Waiters
      BY <1>0, <2>1, TakeKeeps
    <3>2. at' \in [Calls -> Places] /\ Waiting' = Waiting /\ Holding' = Holding \cup {c} /\ c \notin Holding
      BY <1>0, <2>1, MoveSets DEF Places, Awaits
    <3>3. Free' + Cardinality(Holding') = Max
      BY <3>1, <3>2, Counts
    <3> QED BY <1>0, <1>t, <1>1, <3>1, <3>2, <3>3 DEF ExecutorInvariant, Run
  <2>2. CASE Move(c, "idle", "waiting") /\ Enqueue(c)
    <3>1. /\ at' \in [Calls -> Places] /\ Waiting' = Waiting \cup {c} /\ c \notin Waiting
          /\ Holding' = Holding
      BY <1>0, <2>2, MoveSets DEF Places, Awaits
    <3>2. SemInv' /\ Free' = Free /\ Waiters' = Waiters \cup {c}
      BY <1>0, <2>2, <3>1, EnqueueKeeps
    <3> QED BY <1>0, <1>t, <1>1, <3>1, <3>2, Counts DEF ExecutorInvariant, Run
  <2> QED BY <1>1, <2>1, <2>2 DEF Run
<1>2. ASSUME NEW c \in Calls, Proceed(c) PROVE ExecutorInvariant'
  <2>1. SemInv' /\ Free' = Free - 1 /\ Waiters' = Waiters \ {c}
    BY <1>0, <1>2, ResumeKeeps DEF Proceed
  <2>2. /\ at' \in [Calls -> Places] /\ Waiting' = Waiting \ {c}
        /\ Holding' = Holding \cup {c} /\ c \notin Holding
    BY <1>0, <1>2, MoveSets DEF Proceed, Places, Awaits
  <2>3. Free' + Cardinality(Holding') = Max
    BY <2>1, <2>2, Counts
  <2> QED BY <1>0, <1>t, <1>2, <2>1, <2>2, <2>3 DEF ExecutorInvariant, Proceed
<1>3. ASSUME NEW c \in Calls, Spawned(c) \/ TimedOut(c) PROVE ExecutorInvariant'
  <2>1. at' \in [Calls -> Places] /\ Waiting' = Waiting /\ Holding' = Holding
    <3>1. CASE Spawned(c)
      BY <1>0, <3>1, MoveSets DEF Spawned, Places, Awaits
    <3>2. CASE TimedOut(c)
      BY <1>0, <3>2, MoveSets DEF TimedOut, Places, Awaits
    <3> QED BY <1>3, <3>1, <3>2
  <2>2. SemInv' /\ Free' = Free /\ Waiters' = Waiters
    BY <1>0, <1>3, SemSame DEF Spawned, TimedOut
  <2>3. proc' \in [Calls -> Procs \cup {NoProc}] /\ alive' \in SUBSET Procs
    BY <1>0, <1>3 DEF Spawned, TimedOut
  <2> QED BY <1>0, <1>t, <2>1, <2>2, <2>3, Counts DEF ExecutorInvariant
<1>4. ASSUME NEW c \in Calls, NotFound(c) \/ Communicated(c) \/ Reaped(c) PROVE ExecutorInvariant'
  <2>1. PICK from \in {"spawning", "communicate", "killed"} : Exit(c, from)
    BY <1>4 DEF NotFound, Communicated, Reaped
  <2>2. alive' = alive
    BY <1>4 DEF NotFound, Communicated, Reaped
  <2> QED BY <1>0, <1>t, <2>1, <2>2, ExitKeeps DEF ExecutorInvariant
<1>5. ASSUME NEW c \in Calls, Cancelled(c) PROVE ExecutorInvariant'
  <2>1. CASE Move(c, "waiting", "idle") /\ Withdraw(c) /\ proc' = proc
    <3>1. Free <= Max
      BY Counts
    <3>2. SemInv' /\ Free' = Free /\ Waiters' = Waiters \ {c}
      BY <1>0, <2>1, <3>1, WithdrawKeeps
    <3>3. at' \in [Calls -> Places] /\ Waiting' = Waiting \ {c} /\ Holding' = Holding
      BY <1>0, <2>1, MoveSets DEF Places, Awaits
    <3> QED BY <1>0, <1>t, <1>5, <2>1, <3>2, <3>3, Counts DEF ExecutorInvariant, Cancelled
  <2>2. CASE \E from \in Awaits \ {"waiting"} : Exit(c, from)
    BY <1>0, <1>t, <1>5, <2>2, ExitKeeps DEF ExecutorInvariant, Cancelled, Awaits
  <2> QED BY <1>5, <2>1, <2>2 DEF Cancelled
<1>6. ASSUME NEW p \in Procs, ProcessEnds(p) PROVE ExecutorInvariant'
  <2>1. Waiting' = Waiting /\ Holding' = Holding /\ alive' \in SUBSET Procs
    BY <1>0, <1>6 DEF ProcessEnds, Waiting, Holding
  <2> QED BY <1>0, <1>t, <1>6, <2>1, SemSame, Counts DEF ProcessEnds, ExecutorInvariant, TypeOK
<1>7. CASE UNCHANGED vars
  <2>1. Waiting' = Waiting /\ Holding' = Holding
    BY <1>7 DEF vars, Waiting, Holding
  <2> QED BY <1>0, <1>t, <1>7, <2>1, SemSame, Counts DEF vars, ExecutorInvariant, TypeOK
<1> QED BY <1>1, <1>2, <1>3, <1>4, <1>5, <1>6, <1>7 DEF Next

-----------------------------------------------------------------------------
\* Unless a run is cancelled in communicate() no step leaves a process behind.
LEMMA OrphanStep == ExecutorInvariant /\ NoOrphan /\ "communicate" \notin CancelAt /\ [Next]_vars => NoOrphan'
<1> SUFFICES ASSUME ExecutorInvariant, NoOrphan, "communicate" \notin CancelAt, [Next]_vars,
                    NEW q \in alive'
             PROVE  \E d \in Calls : at'[d] = "communicate" /\ proc'[d] = q
  BY DEF NoOrphan
<1>0. at \in [Calls -> Places] /\ proc \in [Calls -> Procs \cup {NoProc}]
  BY DEF ExecutorInvariant, TypeOK
<1> DEFINE Owns(d, p) == d \in Calls /\ at[d] = "communicate" /\ proc[d] = p
<1>1. ASSUME NEW c \in Calls, Run(c) \/ Proceed(c) PROVE \E d \in Calls : at'[d] = "communicate" /\ proc'[d] = q
  <2>1. q \in alive /\ proc' = proc /\ at[c] # "communicate" /\ \E to : at' = [at EXCEPT ![c] = to]
    BY <1>1 DEF Run, Proceed, Move
  <2>2. PICK d : Owns(d, q)
    BY <2>1 DEF NoOrphan
  <2> QED BY <1>0, <2>1, <2>2
<1>2. ASSUME NEW c \in Calls, Spawned(c) PROVE \E d \in Calls : at'[d] = "communicate" /\ proc'[d] = q
  <2>1. PICK p \in Procs : proc' = [proc EXCEPT ![c] = p] /\ alive' = alive \cup {p}
    BY <1>2 DEF Spawned
  <2>2. at[c] = "spawning" /\ at' = [at EXCEPT ![c] = "communicate"]
    BY <1>2 DEF Spawned, Move
  <2>3. CASE q = p
    BY <1>0, <2>1, <2>2, <2>3
  <2>4. CASE q \in alive
    <3>1. PICK d : Owns(d, q)
      BY <2>4 DEF NoOrphan
    <3> QED BY <1>0, <2>1, <2>2, <3>1
  <2> QED BY <2>1, <2>3, <2>4
<1>3. ASSUME NEW c \in Calls, NotFound(c) \/ Communicated(c) \/ Reaped(c)
      PROVE  \E d \in Calls : at'[d] = "communicate" /\ proc'[d] = q
  <2>1. /\ q \in alive
        /\ at' = [at EXCEPT ![c] = "idle"] /\ proc' = [proc EXCEPT ![c] = NoProc]
        /\ at[c] = "communicate" => proc[c] \notin alive
    BY <1>3 DEF NotFound, Communicated, Reaped, Exit, Move
  <2>2. PICK d : Owns(d, q)
    BY <2>1 DEF NoOrphan
  <2> QED BY <1>0, <2>1, <2>2
<1>4. ASSUME NEW c \in Calls, TimedOut(c) PROVE \E d \in Calls : at'[d] = "communicate" /\ proc'[d] = q
  <2>1. q \in alive /\ q # proc[c] /\ at' = [at EXCEPT ![c] = "killed"] /\ proc' = proc
    BY <1>4 DEF TimedOut, Move
  <2>2. PICK d : Owns(d, q)
    BY <2>1 DEF NoOrphan
  <2> QED BY <1>0, <2>1, <2>2
<1>5. ASSUME NEW c \in Calls, Cancelled(c) PROVE \E d \in Calls : at'[d] = "communicate" /\ proc'[d] = q
  <2>1. q \in alive /\ at[c] # "communicate" /\ at' = [at EXCEPT ![c] = "idle"]
    BY <1>0, <1>5 DEF Cancelled, Exit, Move
  <2>2. proc' = proc \/ proc' = [proc EXCEPT ![c] = NoProc]
    BY <1>5 DEF Cancelled, Exit
  <2>3. PICK d : Owns(d, q)
    BY <2>1 DEF NoOrphan
  <2> QED BY <1>0, <2>1, <2>2, <2>3
<1>6. CASE (\E p \in Procs : ProcessEnds(p)) \/ UNCHANGED vars
  <2>1. q \in alive /\ at' = at /\ proc' = proc
    BY <1>6 DEF ProcessEnds, vars
  <2> QED BY <2>1 DEF NoOrphan
<1> QED BY <1>1, <1>2, <1>3, <1>4, <1>5, <1>6 DEF Next

\* Processes that have a run of their own are no more than the runs inside.
LEMMA AttendedCounted == ExecutorInvariant => AttendedCapped
<1> SUFFICES ASSUME ExecutorInvariant PROVE AttendedCapped
  OBVIOUS
<1> DEFINE owner == [p \in Attended |-> CHOOSE c \in Calls : at[c] = "communicate" /\ proc[c] = p]
<1>1. \A p \in Attended : owner[p] \in Holding /\ proc[owner[p]] = p
  BY DEF Attended, Holding
<1>2. owner \in Injection(Attended, Holding)
  <2>1. owner \in [Attended -> Holding]
    BY <1>1
  <2>2. ASSUME NEW p \in Attended, NEW q \in Attended, owner[p] = owner[q] PROVE p = q
    BY <1>1, <2>2
  <2> HIDE DEF owner
  <2> QED BY <2>1, <2>2, Fun_IsInj, Zenon
<1>3. IsFiniteSet(Holding) /\ IsFiniteSet(Attended)
  <2>1. Attended \in SUBSET Procs
    BY DEF Attended, ExecutorInvariant, TypeOK
  <2> QED BY <2>1, Counts, WokenCounts, ExecutorAssumption, FS_Subset
<1>4. Cardinality(Attended) <= Cardinality(Holding) /\ Cardinality(Attended) \in Nat
  BY <1>2, <1>3, FS_Injection, FS_CardinalityType
<1> QED BY <1>4, Counts DEF AttendedCapped

\* Without orphans these are all the processes.
LEMMA ProcessesCounted == ExecutorInvariant /\ NoOrphan => ProcessesCapped
<1>1. NoOrphan => Attended = alive
  BY DEF NoOrphan, Attended
<1> QED BY <1>1, AttendedCounted DEF AttendedCapped, ProcessesCapped

\* A process loses its run only when that run leaves it alive behind.
LEMMA OrphaningStep ==
  ASSUME ExecutorInvariant, [Next]_vars, NEW q \in alive', q \notin Attended'
  PROVE  \/ q \in alive /\ q \notin Attended
         \/ \E c \in Calls : at[c] = "communicate" /\ proc[c] = q /\ at'[c] = "idle"
<1>0. at \in [Calls -> Places] /\ proc \in [Calls -> Procs \cup {NoProc}]
  BY DEF ExecutorInvariant, TypeOK
<1>s. SUFFICES ASSUME q \in alive => q \in Attended
               PROVE  \E c \in Calls : at[c] = "communicate" /\ proc[c] = q /\ at'[c] = "idle"
  OBVIOUS
<1>1. q \in alive
  <2>1. SUFFICES ASSUME q \notin alive PROVE FALSE
    OBVIOUS
  <2>2. PICK c \in Calls : Spawned(c)
    BY <2>1 DEF Next, vars, Run, Proceed, NotFound, Communicated, TimedOut, Reaped, Cancelled, ProcessEnds
  <2>3. PICK p \in Procs : proc' = [proc EXCEPT ![c] = p] /\ alive' = alive \cup {p}
    BY <2>2 DEF Spawned
  <2>4. q = p /\ at' = [at EXCEPT ![c] = "communicate"]
    BY <2>1, <2>2, <2>3 DEF Spawned, Move
  <2> QED BY <1>0, <2>3, <2>4 DEF Attended
<1>2. PICK d \in Calls : at[d] = "communicate" /\ proc[d] = q
  BY <1>s, <1>1 DEF Attended
<1>3. ~(at'[d] = "communicate" /\ proc'[d] = q)
  BY DEF Attended
<1>4. ASSUME NEW c \in Calls, Run(c) \/ Proceed(c) \/ Spawned(c) \/ NotFound(c) \/ Reaped(c) PROVE FALSE
  <2>1. c # d
    BY <1>2, <1>4 DEF Run, Proceed, Spawned, NotFound, Reaped, Exit, Move
  <2>2. at'[d] = at[d]
    BY <1>0, <1>4, <2>1 DEF Run, Proceed, Spawned, NotFound, Reaped, Exit, Move
  <2>3. proc'[d] = proc[d]
    BY <1>0, <1>4, <2>1 DEF Run, Proceed, Spawned, NotFound, Reaped, Exit
  <2> QED BY <1>2, <1>3, <2>2, <2>3
<1>5. ASSUME NEW c \in Calls, Communicated(c) \/ Cancelled(c) PROVE at'[d] = "idle"
  <2>1. /\ at' = [at EXCEPT ![c] = "idle"]
        /\ proc' = proc \/ proc' = [proc EXCEPT ![c] = NoProc]
    BY <1>5 DEF Communicated, Cancelled, Exit, Move
  <2>2. c = d
    BY <1>0, <1>2, <1>3, <2>1
  <2> QED BY <1>0, <2>1, <2>2
<1>6. ASSUME NEW c \in Calls, TimedOut(c) PROVE FALSE
  <2>1. at' = [at EXCEPT ![c] = "killed"] /\ proc' = proc /\ q # proc[c]
    BY <1>6 DEF TimedOut, Move
  <2> QED BY <1>0, <1>2, <1>3, <2>1
<1>7. CASE (\E p \in Procs : ProcessEnds(p)) \/ UNCHANGED vars
  BY <1>2, <1>3, <1>7 DEF ProcessEnds, vars
<1> QED BY <1>2, <1>4, <1>5, <1>6, <1>7 DEF Next

-----------------------------------------------------------------------------
\* Every variable keeps its type.
THEOREM ExecutorTypeCorrect == Spec => []TypeOK
<1>1. ExecutorInvariant => TypeOK
  BY DEF ExecutorInvariant
<1> QED BY <1>1, ExecutorInit, ExecutorStep, PTL DEF Spec

\* "async with guarantees the permit is released on every exit path": no permit
\* is lost or made, whatever is cancelled wherever.
THEOREM ExecutorPermitsKept == Spec => []PermitsConserved
<1>1. ExecutorInvariant => PermitsConserved
  BY DEF ExecutorInvariant, PermitsConserved, Free
<1> QED BY <1>1, ExecutorInit, ExecutorStep, PTL DEF Spec

\* No run sleeps through a release.
THEOREM ExecutorWakes == Spec => []NoLostWakeup
<1>1. ExecutorInvariant => NoLostWakeup
  BY DEF ExecutorInvariant, SemInv
<1> QED BY <1>1, ExecutorInit, ExecutorStep, PTL DEF Spec

\* Permits go to the runs in the order in which they came, whatever is cancelled.
THEOREM ExecutorInTurn == Spec => FirstComeFirstServed
<1>1. ExecutorInvariant /\ [Next]_vars => [InTurn]_semVars
  <2> SUFFICES ASSUME ExecutorInvariant, Next, ~UNCHANGED semVars PROVE InTurn
    BY DEF vars, semVars
  <2>1. SemInv /\ Waiters = Waiting
    BY DEF ExecutorInvariant
  <2>2. PICK c \in Calls : Run(c) \/ Proceed(c) \/ NotFound(c) \/ Communicated(c) \/ Reaped(c) \/ Cancelled(c)
    BY DEF Next, Spawned, TimedOut, ProcessEnds
  <2>3. at[c] = "idle" => c \notin Waiters
    BY <2>1 DEF Waiting
  <2> QED BY <2>1, <2>2, <2>3, ServedInTurn
          DEF Run, Proceed, NotFound, Communicated, Reaped, Cancelled, Exit, Move
<1> QED BY <1>1, ExecutorInit, ExecutorStep, PTL DEF Spec, FirstComeFirstServed

\* As long as no caller cancels a run in communicate(), no process outlives its
\* run ...
THEOREM NoOrphanKept == "communicate" \notin CancelAt => (Spec => []NoOrphan)
<1> SUFFICES ASSUME "communicate" \notin CancelAt PROVE Spec => []NoOrphan
  OBVIOUS
<1>1. Init => NoOrphan
  BY DEF Init, NoOrphan
<1>2. ExecutorInvariant /\ NoOrphan /\ [Next]_vars => NoOrphan'
  BY OrphanStep
<1> QED BY <1>1, <1>2, ExecutorInit, ExecutorStep, PTL DEF Spec

\* ... and at most Max processes run.
THEOREM ProcessesKept == "communicate" \notin CancelAt => (Spec => []ProcessesCapped)
<1> SUFFICES ASSUME "communicate" \notin CancelAt PROVE Spec => []ProcessesCapped
  OBVIOUS
<1>1. Init => NoOrphan
  BY DEF Init, NoOrphan
<1>2. ExecutorInvariant /\ NoOrphan /\ [Next]_vars => NoOrphan'
  BY OrphanStep
<1> QED BY <1>1, <1>2, ExecutorInit, ExecutorStep, ProcessesCounted, PTL DEF Spec

\* Wherever runs are cancelled, at most Max processes are waited for by a run,
\* so that the permits fail to bound the orphans only ...
THEOREM AttendedKept == Spec => []AttendedCapped
  BY AttendedCounted, ExecutorInit, ExecutorStep, PTL DEF Spec

\* ... and a process is orphaned only by its own run, leaving communicate().
THEOREM OrphanedOnlyByItsRun == Spec => OrphanedByItsRun
<1>1. ExecutorInvariant /\ [Next]_vars =>
        [ \A p \in alive' : p \notin Attended' =>
            \/ p \in alive /\ p \notin Attended
            \/ \E c \in Calls : at[c] = "communicate" /\ proc[c] = p /\ at'[c] = "idle" ]_vars
  BY OrphaningStep
<1> QED BY <1>1, ExecutorInit, ExecutorStep, PTL DEF Spec, OrphanedByItsRun

-----------------------------------------------------------------------------
\* Every step of the executor is a step of the bounded pool.
LEMMA PoolStep == ExecutorInvariant /\ [Next]_vars => [Pool!Next]_(Pool!vars)
<1> SUFFICES ASSUME ExecutorInvariant, [Next]_vars PROVE [Pool!Next]_(Pool!vars)
  OBVIOUS
<1>0. TypeOK /\ SemInv
  BY DEF ExecutorInvariant
<1> USE DEF Pool!Next, Pool!vars
<1>1. ASSUME NEW c \in Calls, Take \/ Resume(c), Move(c, "idle", "spawning") \/ Move(c, "waiting", "spawning")
      PROVE  Pool!Enter(c)
  <2>1. Waiting' = Waiting \ {c} /\ Holding' = Holding \cup {c} /\ c \notin Holding
    BY <1>0, <1>1, MoveSets DEF Places, Awaits
  <2>2. Free > 0
    BY <1>0, <1>1, TakeKeeps, ResumeKeeps, Counts
  <2>3. Cardinality(Holding) < Max
    BY <2>2, Counts
  <2> QED BY <2>1, <2>3 DEF Pool!Enter, Pool!Cardinality, Cardinality, Waiting
<1>2. ASSUME NEW c \in Calls, Run(c) PROVE Pool!Next
  <2>1. CASE Move(c, "idle", "spawning") /\ Take
    BY <1>1, <2>1
  <2>2. CASE Move(c, "idle", "waiting")
    BY <1>0, <2>2, MoveSets DEF Pool!Join, Places, Awaits, Waiting
  <2> QED BY <1>2, <2>1, <2>2 DEF Run
<1>3. ASSUME NEW c \in Calls, Proceed(c) PROVE Pool!Next
  BY <1>1, <1>3 DEF Proceed
<1>4. ASSUME NEW c \in Calls, Spawned(c) \/ TimedOut(c) PROVE UNCHANGED Pool!vars
  <2>1. CASE Spawned(c)
    BY <1>0, <2>1, MoveSets DEF Spawned, Places, Awaits, Waiting
  <2>2. CASE TimedOut(c)
    BY <1>0, <2>2, MoveSets DEF TimedOut, Places, Awaits, Waiting
  <2> QED BY <1>4, <2>1, <2>2
<1>5. ASSUME NEW c \in Calls, NEW from \in {"spawning", "communicate", "killed"}, Exit(c, from)
      PROVE  Pool!Leave(c)
  BY <1>5, ExitKeeps DEF Pool!Leave, Waiting
<1>6. ASSUME NEW c \in Calls, NotFound(c) \/ Communicated(c) \/ Reaped(c) PROVE Pool!Next
  BY <1>5, <1>6 DEF NotFound, Communicated, Reaped
<1>7. ASSUME NEW c \in Calls, Cancelled(c) PROVE Pool!Next
  <2>1. CASE Move(c, "waiting", "idle")
    BY <1>0, <2>1, MoveSets DEF Pool!GiveUp, Places, Awaits, Waiting
  <2> QED BY <1>5, <1>7, <2>1 DEF Cancelled, Awaits
<1>8. CASE (\E p \in Procs : ProcessEnds(p)) \/ UNCHANGED vars
  BY <1>8 DEF ProcessEnds, vars, Holding
<1> QED BY <1>2, <1>3, <1>4, <1>6, <1>7, <1>8 DEF Next

\* The executor implements the bounded pool, cancellation included.
THEOREM ExecutorPoolImplemented == Spec => ImplementsPool
<1>1. Init => Pool!Init
  BY DEF Init, Pool!Init, Holding
<1> QED
  BY <1>1, ExecutorInit, ExecutorStep, PoolStep, PTL DEF Spec, ImplementsPool, Pool!Spec
=============================================================================

