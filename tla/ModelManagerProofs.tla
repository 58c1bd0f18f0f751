-------------------------- MODULE ModelManagerProofs --------------------------
(* Theorems about ModelManager, for every set of calls, releasers and       *)
(* engine processes.                                                        *)
EXTENDS ModelManagerInv, TLAPS

USE ConstantsAssumption

\* The initial state of the manager is typed.
LEMMA TypeInit == Init => TypeOK
<1> SUFFICES ASSUME Init PROVE TypeOK
  OBVIOUS
<1>1. strategy \in Strategies /\ mode \in Modes /\ lock \in Tasks \cup {NoTask} /\ app \in Apps
  BY DEF Init, Modes, Tasks, Apps
<1>2. pc \in [Tasks -> Inside \cup Outside]
  BY DEF Init, Inside, Outside
<1>3. role \in [Procs -> Roles] /\ life \in [Procs -> Lives] /\ call \in [Requests -> Calls]
  BY DEF Init, Roles, Lives, Calls
<1>4. QED
  BY <1>1, <1>2, <1>3 DEF Init, TypeOK

\* Every step of the manager keeps the types.
LEMMA TypeStep == TypeOK /\ [Next]_vars => TypeOK'
<1> SUFFICES ASSUME TypeOK, [Next]_vars PROVE TypeOK'
  OBVIOUS
<1> USE DEF TypeOK, Modes, Roles, Lives, Calls, Apps, Inside, Outside, Tasks,
            Goto, Leave, managerVars, engineVars
<1>1. CASE BootSpawn
  BY <1>1 DEF BootSpawn, Spawn, Goal
<1>2. CASE BootSleep
  BY <1>2 DEF BootSleep, SleepVision, DropCalls
<1>3. ASSUME NEW r \in Requests, HookPost(r) PROVE TypeOK'
  BY <1>3 DEF HookPost
<1>4. ASSUME NEW r \in Requests, HookUnreachable(r) PROVE TypeOK'
  BY <1>4 DEF HookUnreachable
<1>5. ASSUME NEW r \in Requests, HookGivesUp(r) PROVE TypeOK'
  BY <1>5 DEF HookGivesUp
<1>6. ASSUME NEW r \in Requests, Forward(r) PROVE TypeOK'
  BY <1>6 DEF Forward
<1>7. ASSUME NEW r \in Requests, Finish(r) PROVE TypeOK'
  BY <1>7 DEF Finish
<1>8. ASSUME NEW r \in Requests, EnsureLocked(r) PROVE TypeOK'
  BY <1>8 DEF EnsureLocked
<1>9. ASSUME NEW r \in Requests, EnsureWake(r) PROVE TypeOK'
  BY <1>9 DEF EnsureWake
<1>10. ASSUME NEW r \in Requests, EnsureReturn(r) PROVE TypeOK'
  BY <1>10 DEF EnsureReturn
<1>11. ASSUME NEW t \in Releasers, ReleaseTick(t) PROVE TypeOK'
  BY <1>11 DEF ReleaseTick
<1>12. ASSUME NEW t \in Releasers, SteadySleep(t) PROVE TypeOK'
  BY <1>12 DEF SteadySleep, SleepVision, DropCalls
<1>13. ASSUME NEW t \in Releasers, ReleaseLocked(t) PROVE TypeOK'
  BY <1>13 DEF ReleaseLocked
<1>14. ASSUME NEW t \in Releasers, ReleaseCheckBusy(t) PROVE TypeOK'
  BY <1>14 DEF ReleaseCheckBusy
<1>15. ASSUME NEW t \in Releasers, ReleaseSleep(t) PROVE TypeOK'
  BY <1>15 DEF ReleaseSleep, SleepVision, DropCalls
<1>16. ASSUME NEW t \in Releasers, ReleaseTerminate(t) PROVE TypeOK'
  BY <1>16 DEF ReleaseTerminate, Terminated, CallsOf, DropCalls
<1>17. ASSUME NEW t \in Releasers, ReleaseStop(t) PROVE TypeOK'
  BY <1>17 DEF ReleaseStop, StopResults, DropCalls
<1>18. ASSUME NEW t \in Requests \cup Releasers, Drain(t) PROVE TypeOK'
  BY <1>18 DEF Drain, Terminated
<1>19. ASSUME NEW t \in Requests \cup Releasers, RestartText(t) PROVE TypeOK'
  <2>1. Goal(t) \in Roles
    BY DEF Goal
  <2>2. PICK after \in StopResults(textProc), p \in Procs :
          /\ role' = [role EXCEPT ![p] = Goal(t)]
          /\ life' = [after EXCEPT ![p] = "loading"]
          /\ textProc' = p
    BY <1>19 DEF RestartText
  <2>3. after \in [Procs -> Lives]
    BY <2>2 DEF StopResults
  <2>4. role' \in [Procs -> Roles]
    BY <2>1, <2>2
  <2>5. life' \in [Procs -> Lives]
    BY <2>2, <2>3
  <2>6. QED
    BY <1>19, <2>2, <2>4, <2>5 DEF RestartText
<1>20. ASSUME NEW t \in Tasks, TextHealthy(t) PROVE TypeOK'
  BY <1>20 DEF TextHealthy, Spawn, Goal
<1>21. ASSUME NEW t \in Tasks, VisionHealthy(t) PROVE TypeOK'
  BY <1>21 DEF VisionHealthy
<1>22. ASSUME NEW t \in Tasks, HealthTimeout(t) PROVE TypeOK'
  BY <1>22 DEF HealthTimeout
<1>23. CASE Shutdown
  BY <1>23 DEF Shutdown
<1>24. CASE CloseBegin
  BY <1>24 DEF CloseBegin, Terminated, CallsOf, DropCalls
<1>25. CASE CloseText
  <2>1. PICK after \in StopResults(visionProc) :
          life' = [q \in Procs |-> IF q = textProc /\ after[q] \notin {"down", "killed"}
                                   THEN "stopping" ELSE after[q]]
    BY <1>25 DEF CloseText
  <2>2. after \in [Procs -> Lives]
    BY <2>1 DEF StopResults
  <2>3. life' \in [Procs -> Lives]
    BY <2>1, <2>2
  <2>4. QED
    BY <1>25, <2>3 DEF CloseText
<1>26. CASE Closed
  BY <1>26 DEF Closed, StopResults
<1>27. ASSUME NEW p \in Procs, EngineUp(p) PROVE TypeOK'
  BY <1>27 DEF EngineUp, PortTaken
<1>28. ASSUME NEW p \in Procs, EngineExit(p) PROVE TypeOK'
  BY <1>28 DEF EngineExit, PortTaken, CallsOf, DropCalls
<1>29. ASSUME NEW p \in Procs, EngineGone(p) PROVE TypeOK'
  BY <1>29 DEF EngineGone
<1>30. CASE IdleElapses
  BY <1>30 DEF IdleElapses
<1>31. CASE TextTraffic
  BY <1>31 DEF TextTraffic
<1>32. CASE UNCHANGED vars
  BY <1>32 DEF vars
<1>33. QED
  BY <1>1, <1>2, <1>3, <1>4, <1>5, <1>6, <1>7, <1>8, <1>9, <1>10, <1>11, <1>12, <1>13, <1>14,
     <1>15, <1>16, <1>17, <1>18, <1>19, <1>20, <1>21, <1>22, <1>23, <1>24, <1>25, <1>26, <1>27,
     <1>28, <1>29, <1>30, <1>31, <1>32
  DEF Next, Ensure, Release, Restart, Await

\* The type invariant holds in every reachable state.
THEOREM TypeCorrect == Spec => []TypeOK
<1>1. QED
  BY TypeInit, TypeStep, PTL DEF Spec
-----------------------------------------------------------------------------
(* At most one text engine that was not killed, whatever fails.            *)

\* At first there is at most the text engine that start() launches.
LEMMA TextInit == Init => TextInvariant
  BY TypeInit DEF Init, TextInvariant, TextTracked, BootFirst, OnCard, Alive, Tasks

\* A second text engine is launched only after the first is gone or was killed.
LEMMA TextStep == TextInvariant /\ [Next]_vars => TextInvariant'
<1> SUFFICES ASSUME TextInvariant, [Next]_vars PROVE TextTracked' /\ BootFirst'
  BY TypeStep DEF TextInvariant
<1> USE DEF TextInvariant, TextTracked, BootFirst, Alive, OnCard, Goto, Leave, managerVars, engineVars
<1>0. TypeOK /\ TypeOK'
  BY TypeStep
<1>. USE <1>0 DEF TypeOK, Tasks, TextRoles, Inside, Outside
<1>1. CASE BootSpawn
  BY <1>1 DEF BootSpawn, Spawn, Alive
<1>2. CASE BootSleep
  BY <1>2 DEF BootSleep, SleepVision, Port
<1>3. ASSUME NEW r \in Requests, HookPost(r) PROVE TextTracked' /\ BootFirst'
  BY <1>3 DEF HookPost
<1>4. ASSUME NEW r \in Requests, HookUnreachable(r) PROVE TextTracked' /\ BootFirst'
  BY <1>4 DEF HookUnreachable
<1>5. ASSUME NEW r \in Requests, HookGivesUp(r) PROVE TextTracked' /\ BootFirst'
  BY <1>5 DEF HookGivesUp
<1>6. ASSUME NEW r \in Requests, Forward(r) PROVE TextTracked' /\ BootFirst'
  BY <1>6 DEF Forward
<1>7. ASSUME NEW r \in Requests, Finish(r) PROVE TextTracked' /\ BootFirst'
  BY <1>7 DEF Finish
<1>8. ASSUME NEW r \in Requests, EnsureLocked(r) PROVE TextTracked' /\ BootFirst'
  BY <1>8 DEF EnsureLocked
<1>9. ASSUME NEW r \in Requests, EnsureWake(r) PROVE TextTracked' /\ BootFirst'
  BY <1>9 DEF EnsureWake, Port
<1>10. ASSUME NEW r \in Requests, EnsureReturn(r) PROVE TextTracked' /\ BootFirst'
  BY <1>10 DEF EnsureReturn
<1>11. ASSUME NEW t \in Releasers, ReleaseTick(t) PROVE TextTracked' /\ BootFirst'
  BY <1>11 DEF ReleaseTick
<1>12. ASSUME NEW t \in Releasers, SteadySleep(t) PROVE TextTracked' /\ BootFirst'
  BY <1>12 DEF SteadySleep, SleepVision, Port
<1>13. ASSUME NEW t \in Releasers, ReleaseLocked(t) PROVE TextTracked' /\ BootFirst'
  BY <1>13 DEF ReleaseLocked
<1>14. ASSUME NEW t \in Releasers, ReleaseCheckBusy(t) PROVE TextTracked' /\ BootFirst'
  BY <1>14 DEF ReleaseCheckBusy
<1>15. ASSUME NEW t \in Releasers, ReleaseSleep(t) PROVE TextTracked' /\ BootFirst'
  BY <1>15 DEF ReleaseSleep, SleepVision, Port
<1>16. ASSUME NEW t \in Releasers, ReleaseTerminate(t) PROVE TextTracked' /\ BootFirst'
  BY <1>16 DEF ReleaseTerminate, Terminated, CallsOf, DropCalls
<1>17. ASSUME NEW t \in Releasers, ReleaseStop(t) PROVE TextTracked' /\ BootFirst'
  BY <1>17 DEF ReleaseStop, StopResults
<1>18. ASSUME NEW t \in Requests \cup Releasers, Drain(t) PROVE TextTracked' /\ BootFirst'
  BY <1>18 DEF Drain, Terminated
<1>19. ASSUME NEW t \in Requests \cup Releasers, RestartText(t) PROVE TextTracked' /\ BootFirst'
  <2>1. pc[Boot] # "spawn" /\ pc'[Boot] # "spawn"
    BY <1>19 DEF RestartText
  <2>2. PICK after \in StopResults(textProc), p \in Procs :
          /\ role' = [role EXCEPT ![p] = Goal(t)]
          /\ life' = [after EXCEPT ![p] = "loading"]
          /\ textProc' = p
    BY <1>19 DEF RestartText
  <2>3. \A q \in Procs : after[q] \notin {"down", "killed"} => q # textProc /\ after[q] = life[q]
    BY <2>2 DEF StopResults
  <2>4. QED
    BY <2>1, <2>2, <2>3
<1>20. ASSUME NEW t \in Tasks, TextHealthy(t) PROVE TextTracked' /\ BootFirst'
  BY <1>20 DEF TextHealthy, Spawn
<1>21. ASSUME NEW t \in Tasks, VisionHealthy(t) PROVE TextTracked' /\ BootFirst'
  BY <1>21 DEF VisionHealthy
<1>22. ASSUME NEW t \in Tasks, HealthTimeout(t) PROVE TextTracked' /\ BootFirst'
  BY <1>22 DEF HealthTimeout
<1>23. CASE Shutdown
  BY <1>23 DEF Shutdown
<1>24. CASE CloseBegin
  BY <1>24 DEF CloseBegin, Terminated, CallsOf, DropCalls
<1>25. CASE CloseText
  BY <1>25 DEF CloseText, StopResults
<1>26. CASE Closed
  BY <1>26 DEF Closed, StopResults
<1>27. ASSUME NEW p \in Procs, EngineUp(p) PROVE TextTracked' /\ BootFirst'
  BY <1>27 DEF EngineUp, PortTaken
<1>28. ASSUME NEW p \in Procs, EngineExit(p) PROVE TextTracked' /\ BootFirst'
  BY <1>28 DEF EngineExit, PortTaken, CallsOf, DropCalls
<1>29. ASSUME NEW p \in Procs, EngineGone(p) PROVE TextTracked' /\ BootFirst'
  BY <1>29 DEF EngineGone
<1>30. CASE IdleElapses
  BY <1>30 DEF IdleElapses
<1>31. CASE TextTraffic
  BY <1>31 DEF TextTraffic
<1>32. CASE UNCHANGED vars
  BY <1>32 DEF vars
<1>33. QED
  BY <1>1, <1>2, <1>3, <1>4, <1>5, <1>6, <1>7, <1>8, <1>9, <1>10, <1>11, <1>12, <1>13, <1>14,
     <1>15, <1>16, <1>17, <1>18, <1>19, <1>20, <1>21, <1>22, <1>23, <1>24, <1>25, <1>26, <1>27,
     <1>28, <1>29, <1>30, <1>31, <1>32
  DEF Next, Ensure, Release, Restart, Await

\* Two text engines never live at once, under every fault of the model.
THEOREM TextEngineUnique == Spec => []OneTextEngine
<1>1. TextInvariant => OneTextEngine
  BY DEF TextInvariant, TextTracked, OneTextEngine
<1>2. QED
  BY TextInit, TextStep, <1>1, PTL DEF Spec

-----------------------------------------------------------------------------
(* The lock, under every fault.                                            *)

\* At first the lock is start()'s and nobody else runs.
LEMMA ControlInit == Init => Control
  BY DEF Init, Control, LockHeld, TaskStates, AppPhases, Inside, Tasks

\* Every step keeps the lock with its holder, the tasks in their states and the
\* application in its phases.
LEMMA ControlStep ==
  ASSUME TypeOK, Control, [Next]_vars
  PROVE  Control'
<1>0. TypeOK'
  BY TypeStep
<1> USE <1>0 DEF Control, LockHeld, TaskStates, AppPhases, TypeOK, Tasks, Inside, Outside,
                 Goto, Leave, managerVars, engineVars
<1>1. CASE BootSpawn
  BY <1>1 DEF BootSpawn
<1>2. CASE BootSleep
  BY <1>2 DEF BootSleep
<1>3. ASSUME NEW r \in Requests, HookPost(r) PROVE Control'
  BY <1>3 DEF HookPost
<1>4. ASSUME NEW r \in Requests, HookUnreachable(r) PROVE Control'
  BY <1>4 DEF HookUnreachable
<1>5. ASSUME NEW r \in Requests, HookGivesUp(r) PROVE Control'
  BY <1>5 DEF HookGivesUp
<1>6. ASSUME NEW r \in Requests, Forward(r) PROVE Control'
  BY <1>6 DEF Forward
<1>7. ASSUME NEW r \in Requests, Finish(r) PROVE Control'
  BY <1>7 DEF Finish
<1>8. ASSUME NEW r \in Requests, EnsureLocked(r) PROVE Control'
  BY <1>8 DEF EnsureLocked
<1>9. ASSUME NEW r \in Requests, EnsureWake(r) PROVE Control'
  BY <1>9 DEF EnsureWake
<1>10. ASSUME NEW r \in Requests, EnsureReturn(r) PROVE Control'
  BY <1>10 DEF EnsureReturn
<1>11. ASSUME NEW t \in Releasers, ReleaseTick(t) PROVE Control'
  BY <1>11 DEF ReleaseTick
<1>12. ASSUME NEW t \in Releasers, SteadySleep(t) PROVE Control'
  BY <1>12 DEF SteadySleep
<1>13. ASSUME NEW t \in Releasers, ReleaseLocked(t) PROVE Control'
  BY <1>13 DEF ReleaseLocked
<1>14. ASSUME NEW t \in Releasers, ReleaseCheckBusy(t) PROVE Control'
  BY <1>14 DEF ReleaseCheckBusy
<1>15. ASSUME NEW t \in Releasers, ReleaseSleep(t) PROVE Control'
  BY <1>15 DEF ReleaseSleep
<1>16. ASSUME NEW t \in Releasers, ReleaseTerminate(t) PROVE Control'
  BY <1>16 DEF ReleaseTerminate, Terminated, CallsOf, DropCalls
<1>17. ASSUME NEW t \in Releasers, ReleaseStop(t) PROVE Control'
  BY <1>17 DEF ReleaseStop, StopResults
<1>18. ASSUME NEW t \in Requests \cup Releasers, Drain(t) PROVE Control'
  BY <1>18 DEF Drain, Terminated
<1>19. ASSUME NEW t \in Requests \cup Releasers, RestartText(t) PROVE Control'
  BY <1>19 DEF RestartText, StopResults
<1>20. ASSUME NEW t \in Tasks, TextHealthy(t) PROVE Control'
  BY <1>20 DEF TextHealthy, Goal
<1>21. ASSUME NEW t \in Tasks, VisionHealthy(t) PROVE Control'
  BY <1>21 DEF VisionHealthy
<1>22. ASSUME NEW t \in Tasks, HealthTimeout(t) PROVE Control'
  BY <1>22 DEF HealthTimeout
<1>23. CASE Shutdown
  BY <1>23 DEF Shutdown
<1>24. CASE CloseBegin
  BY <1>24 DEF CloseBegin, Terminated, CallsOf, DropCalls
<1>25. CASE CloseText
  BY <1>25 DEF CloseText, StopResults
<1>26. CASE Closed
  BY <1>26 DEF Closed, StopResults
<1>27. ASSUME NEW p \in Procs, EngineUp(p) PROVE Control'
  BY <1>27 DEF EngineUp, PortTaken
<1>28. ASSUME NEW p \in Procs, EngineExit(p) PROVE Control'
  BY <1>28 DEF EngineExit, PortTaken, CallsOf, DropCalls
<1>29. ASSUME NEW p \in Procs, EngineGone(p) PROVE Control'
  BY <1>29 DEF EngineGone
<1>30. CASE IdleElapses
  BY <1>30 DEF IdleElapses
<1>31. CASE TextTraffic
  BY <1>31 DEF TextTraffic
<1>32. CASE UNCHANGED vars
  BY <1>32 DEF vars
<1>33. QED
  BY <1>1, <1>2, <1>3, <1>4, <1>5, <1>6, <1>7, <1>8, <1>9, <1>10, <1>11, <1>12, <1>13, <1>14,
     <1>15, <1>16, <1>17, <1>18, <1>19, <1>20, <1>21, <1>22, <1>23, <1>24, <1>25, <1>26, <1>27,
     <1>28, <1>29, <1>30, <1>31, <1>32
  DEF Next, Ensure, Release, Restart, Await

\* Every step keeps each waiting call with a handler that answers it.
LEMMA AttendedStep ==
  ASSUME TypeOK, Control, LockKept, [Next]_vars
  PROVE  LockKept'
<1>0. TypeOK' /\ Control'
  BY TypeStep, ControlStep
<1> USE <1>0 DEF Control, LockHeld, TaskStates, AppPhases, LockKept, TypeOK, Tasks, Inside, Outside, Calls,
                 Goto, Leave, managerVars, engineVars
<1>1. CASE BootSpawn
  BY <1>1 DEF BootSpawn
<1>2. CASE BootSleep
  BY <1>2 DEF BootSleep, SleepVision, DropCalls
<1>3. ASSUME NEW r \in Requests, HookPost(r) PROVE LockKept'
  BY <1>3 DEF HookPost
<1>4. ASSUME NEW r \in Requests, HookUnreachable(r) PROVE LockKept'
  BY <1>4 DEF HookUnreachable
<1>5. ASSUME NEW r \in Requests, HookGivesUp(r) PROVE LockKept'
  BY <1>5 DEF HookGivesUp
<1>6. ASSUME NEW r \in Requests, Forward(r) PROVE LockKept'
  BY <1>6 DEF Forward
<1>7. ASSUME NEW r \in Requests, Finish(r) PROVE LockKept'
  BY <1>7 DEF Finish
<1>8. ASSUME NEW r \in Requests, EnsureLocked(r) PROVE LockKept'
  BY <1>8 DEF EnsureLocked
<1>9. ASSUME NEW r \in Requests, EnsureWake(r) PROVE LockKept'
  BY <1>9 DEF EnsureWake
<1>10. ASSUME NEW r \in Requests, EnsureReturn(r) PROVE LockKept'
  BY <1>10 DEF EnsureReturn
<1>11. ASSUME NEW t \in Releasers, ReleaseTick(t) PROVE LockKept'
  BY <1>11 DEF ReleaseTick
<1>12. ASSUME NEW t \in Releasers, SteadySleep(t) PROVE LockKept'
  BY <1>12 DEF SteadySleep, SleepVision, DropCalls
<1>13. ASSUME NEW t \in Releasers, ReleaseLocked(t) PROVE LockKept'
  BY <1>13 DEF ReleaseLocked
<1>14. ASSUME NEW t \in Releasers, ReleaseCheckBusy(t) PROVE LockKept'
  BY <1>14 DEF ReleaseCheckBusy
<1>15. ASSUME NEW t \in Releasers, ReleaseSleep(t) PROVE LockKept'
  BY <1>15 DEF ReleaseSleep, SleepVision, DropCalls
<1>16. ASSUME NEW t \in Releasers, ReleaseTerminate(t) PROVE LockKept'
  BY <1>16 DEF ReleaseTerminate, Terminated, CallsOf, DropCalls
<1>17. ASSUME NEW t \in Releasers, ReleaseStop(t) PROVE LockKept'
  BY <1>17 DEF ReleaseStop, StopResults, DropCalls
<1>18. ASSUME NEW t \in Requests \cup Releasers, Drain(t) PROVE LockKept'
  BY <1>18 DEF Drain, Terminated
<1>19. ASSUME NEW t \in Requests \cup Releasers, RestartText(t) PROVE LockKept'
  BY <1>19 DEF RestartText, StopResults
<1>20. ASSUME NEW t \in Tasks, TextHealthy(t) PROVE LockKept'
  BY <1>20 DEF TextHealthy, Goal
<1>21. ASSUME NEW t \in Tasks, VisionHealthy(t) PROVE LockKept'
  BY <1>21 DEF VisionHealthy
<1>22. ASSUME NEW t \in Tasks, HealthTimeout(t) PROVE LockKept'
  BY <1>22 DEF HealthTimeout
<1>23. CASE Shutdown
  BY <1>23 DEF Shutdown
<1>24. CASE CloseBegin
  BY <1>24 DEF CloseBegin, Terminated, CallsOf, DropCalls
<1>25. CASE CloseText
  BY <1>25 DEF CloseText, StopResults
<1>26. CASE Closed
  BY <1>26 DEF Closed, StopResults
<1>27. ASSUME NEW p \in Procs, EngineUp(p) PROVE LockKept'
  BY <1>27 DEF EngineUp, PortTaken
<1>28. ASSUME NEW p \in Procs, EngineExit(p) PROVE LockKept'
  BY <1>28 DEF EngineExit, PortTaken, CallsOf, DropCalls
<1>29. ASSUME NEW p \in Procs, EngineGone(p) PROVE LockKept'
  BY <1>29 DEF EngineGone
<1>30. CASE IdleElapses
  BY <1>30 DEF IdleElapses
<1>31. CASE TextTraffic
  BY <1>31 DEF TextTraffic
<1>32. CASE UNCHANGED vars
  BY <1>32 DEF vars
<1>33. QED
  BY <1>1, <1>2, <1>3, <1>4, <1>5, <1>6, <1>7, <1>8, <1>9, <1>10, <1>11, <1>12, <1>13, <1>14,
     <1>15, <1>16, <1>17, <1>18, <1>19, <1>20, <1>21, <1>22, <1>23, <1>24, <1>25, <1>26, <1>27,
     <1>28, <1>29, <1>30, <1>31, <1>32
  DEF Next, Ensure, Release, Restart, Await

\* The lock is never leaked and no waiting call is forgotten, whatever times
\* out, crashes or interleaves: the safety half of EnsureReturns.
THEOREM LockNeverLeaks == Spec => []LockKept
<1>1. Init => LockInvariant
  BY TypeInit, ControlInit DEF Init, LockInvariant, LockKept, Inside, Tasks
<1>2. LockInvariant /\ [Next]_vars => LockInvariant'
  BY TypeStep, ControlStep, AttendedStep DEF LockInvariant
<1>3. LockInvariant => LockKept
  BY DEF LockInvariant
<1> QED
  BY <1>1, <1>2, <1>3, PTL DEF Spec

-----------------------------------------------------------------------------
(* The card's budget, when every engine that is launched becomes healthy   *)
(* and every one that is terminated goes in time.                          *)

\* The engines that start() launches fit on the card.
LEMMA BudgetInit == Init => BudgetInvariant
<1> SUFFICES ASSUME Init PROVE BudgetInvariant
  OBVIOUS
<1>1. TextInvariant
  BY TextInit
<1>2. Control
  BY ControlInit
<1>3. app # "aborted"
  BY DEF Init
<1>4. VisionTracked /\ Absent
  BY DEF Init, VisionTracked, Absent, NoVision, NoFull, Alive, Tasks
<1>5. QED
  BY <1>1, <1>2, <1>3, <1>4 DEF BudgetInvariant

\* Every step keeps one dangerous kind of engine absent, and vision in its slot.
LEMMA EnginesStep ==
  ASSUME "health" \notin Faults, BudgetInvariant, [Next]_vars
  PROVE  VisionTracked' /\ Absent'
<1>0. TypeOK /\ TypeOK' /\ Control /\ Control' /\ TextTracked
  BY TypeStep, ControlStep DEF BudgetInvariant, TextInvariant
<1> USE <1>0 DEF BudgetInvariant, Control, LockHeld, TaskStates, AppPhases, VisionTracked, Absent,
                 NoVision, NoFull, Alive, OnCard, TypeOK, Tasks, Inside, Outside, TextTracked, TextRoles,
                 Goto, Leave, managerVars, engineVars, Goal
<1>1. CASE BootSpawn
  BY <1>1 DEF BootSpawn, Spawn, TextInvariant, BootFirst
<1>2. CASE BootSleep
  BY <1>2 DEF BootSleep, SleepVision, Port
<1>3. ASSUME NEW r \in Requests, HookPost(r) PROVE VisionTracked' /\ Absent'
  BY <1>3 DEF HookPost
<1>4. ASSUME NEW r \in Requests, HookUnreachable(r) PROVE VisionTracked' /\ Absent'
  BY <1>4 DEF HookUnreachable
<1>5. ASSUME NEW r \in Requests, HookGivesUp(r) PROVE VisionTracked' /\ Absent'
  BY <1>5 DEF HookGivesUp
<1>6. ASSUME NEW r \in Requests, Forward(r) PROVE VisionTracked' /\ Absent'
  BY <1>6 DEF Forward
<1>7. ASSUME NEW r \in Requests, Finish(r) PROVE VisionTracked' /\ Absent'
  BY <1>7 DEF Finish
<1>8. ASSUME NEW r \in Requests, EnsureLocked(r) PROVE VisionTracked' /\ Absent'
  BY <1>8 DEF EnsureLocked, Apps, Modes
<1>9. ASSUME NEW r \in Requests, EnsureWake(r) PROVE VisionTracked' /\ Absent'
  BY <1>9 DEF EnsureWake, Port
<1>10. ASSUME NEW r \in Requests, EnsureReturn(r) PROVE VisionTracked' /\ Absent'
  BY <1>10 DEF EnsureReturn
<1>11. ASSUME NEW t \in Releasers, ReleaseTick(t) PROVE VisionTracked' /\ Absent'
  BY <1>11 DEF ReleaseTick
<1>12. ASSUME NEW t \in Releasers, SteadySleep(t) PROVE VisionTracked' /\ Absent'
  BY <1>12 DEF SteadySleep, SleepVision, Port
<1>13. ASSUME NEW t \in Releasers, ReleaseLocked(t) PROVE VisionTracked' /\ Absent'
  BY <1>13 DEF ReleaseLocked, Apps, Modes
<1>14. ASSUME NEW t \in Releasers, ReleaseCheckBusy(t) PROVE VisionTracked' /\ Absent'
  BY <1>14 DEF ReleaseCheckBusy
<1>15. ASSUME NEW t \in Releasers, ReleaseSleep(t) PROVE VisionTracked' /\ Absent'
  BY <1>15 DEF ReleaseSleep, SleepVision, Port
<1>16. ASSUME NEW t \in Releasers, ReleaseTerminate(t) PROVE VisionTracked' /\ Absent'
  BY <1>16 DEF ReleaseTerminate, Terminated, CallsOf, DropCalls
<1>17. ASSUME NEW t \in Releasers, ReleaseStop(t) PROVE VisionTracked' /\ Absent'
  BY <1>17 DEF ReleaseStop, StopResults
<1>18. ASSUME NEW t \in Requests \cup Releasers, Drain(t) PROVE VisionTracked' /\ Absent'
  BY <1>18 DEF Drain, Terminated
<1>19. ASSUME NEW t \in Requests \cup Releasers, RestartText(t) PROVE VisionTracked' /\ Absent'
  BY <1>19 DEF RestartText, StopResults
<1>20. ASSUME NEW t \in Tasks, TextHealthy(t) PROVE VisionTracked' /\ Absent'
  BY <1>20 DEF TextHealthy, Goal, Spawn
<1>21. ASSUME NEW t \in Tasks, VisionHealthy(t) PROVE VisionTracked' /\ Absent'
  BY <1>21 DEF VisionHealthy
<1>22. ASSUME NEW t \in Tasks, HealthTimeout(t) PROVE VisionTracked' /\ Absent'
  BY <1>22 DEF HealthTimeout
<1>23. CASE Shutdown
  BY <1>23 DEF Shutdown
<1>24. CASE CloseBegin
  BY <1>24 DEF CloseBegin, Terminated, CallsOf, DropCalls
<1>25. CASE CloseText
  BY <1>25 DEF CloseText, StopResults
<1>26. CASE Closed
  BY <1>26 DEF Closed, StopResults
<1>27. ASSUME NEW p \in Procs, EngineUp(p) PROVE VisionTracked' /\ Absent'
  BY <1>27 DEF EngineUp, PortTaken
<1>28. ASSUME NEW p \in Procs, EngineExit(p) PROVE VisionTracked' /\ Absent'
  BY <1>28 DEF EngineExit, PortTaken, CallsOf, DropCalls
<1>29. ASSUME NEW p \in Procs, EngineGone(p) PROVE VisionTracked' /\ Absent'
  BY <1>29 DEF EngineGone
<1>30. CASE IdleElapses
  BY <1>30 DEF IdleElapses
<1>31. CASE TextTraffic
  BY <1>31 DEF TextTraffic
<1>32. CASE UNCHANGED vars
  BY <1>32 DEF vars
<1>33. QED
  BY <1>1, <1>2, <1>3, <1>4, <1>5, <1>6, <1>7, <1>8, <1>9, <1>10, <1>11, <1>12, <1>13, <1>14,
     <1>15, <1>16, <1>17, <1>18, <1>19, <1>20, <1>21, <1>22, <1>23, <1>24, <1>25, <1>26, <1>27,
     <1>28, <1>29, <1>30, <1>31, <1>32
  DEF Next, Ensure, Release, Restart, Await

\* Only a health wait that times out in start() aborts the application.
LEMMA NeverAborts == "health" \notin Faults /\ app # "aborted" /\ [Next]_vars => app' # "aborted"
  BY DEF Next, Ensure, Release, Restart, Await, vars, BootSpawn, BootSleep, HookPost, HookUnreachable,
         HookGivesUp, Forward, Finish, EnsureLocked, EnsureWake, EnsureReturn, Drain, RestartText, TextHealthy,
         VisionHealthy, HealthTimeout, ReleaseTick, SteadySleep, ReleaseLocked, ReleaseCheckBusy,
         ReleaseSleep, ReleaseTerminate, ReleaseStop, Shutdown, CloseBegin, CloseText, Closed,
         EngineUp, EngineExit, EngineGone, IdleElapses, TextTraffic

\* Together: the budget invariant is inductive without health timeouts.
LEMMA BudgetStep == "health" \notin Faults => (BudgetInvariant /\ [Next]_vars => BudgetInvariant')
<1> SUFFICES ASSUME "health" \notin Faults, BudgetInvariant, [Next]_vars PROVE BudgetInvariant'
  OBVIOUS
<1>1. TextInvariant'
  BY TextStep DEF BudgetInvariant
<1>2. Control'
  BY ControlStep DEF BudgetInvariant, TextInvariant
<1>3. VisionTracked' /\ Absent'
  BY EnginesStep
<1>4. app' # "aborted"
  BY NeverAborts DEF BudgetInvariant
<1>5. QED
  BY <1>1, <1>2, <1>3, <1>4 DEF BudgetInvariant

\* Nobody is killed when every engine goes within its grace period.
LEMMA NoneKilledStep ==
  ASSUME "grace" \notin Faults, NoneKilled, TypeOK, [Next]_vars
  PROVE  NoneKilled'
<1> USE DEF NoneKilled, TypeOK, managerVars, engineVars, Goto, Leave
<1>1. CASE BootSpawn
  BY <1>1 DEF BootSpawn, Spawn
<1>2. CASE BootSleep
  BY <1>2 DEF BootSleep, SleepVision
<1>3. ASSUME NEW r \in Requests, HookPost(r) PROVE NoneKilled'
  BY <1>3 DEF HookPost
<1>4. ASSUME NEW r \in Requests, HookUnreachable(r) PROVE NoneKilled'
  BY <1>4 DEF HookUnreachable
<1>5. ASSUME NEW r \in Requests, HookGivesUp(r) PROVE NoneKilled'
  BY <1>5 DEF HookGivesUp
<1>6. ASSUME NEW r \in Requests, Forward(r) PROVE NoneKilled'
  BY <1>6 DEF Forward
<1>7. ASSUME NEW r \in Requests, Finish(r) PROVE NoneKilled'
  BY <1>7 DEF Finish
<1>8. ASSUME NEW r \in Requests, EnsureLocked(r) PROVE NoneKilled'
  BY <1>8 DEF EnsureLocked
<1>9. ASSUME NEW r \in Requests, EnsureWake(r) PROVE NoneKilled'
  BY <1>9 DEF EnsureWake
<1>10. ASSUME NEW r \in Requests, EnsureReturn(r) PROVE NoneKilled'
  BY <1>10 DEF EnsureReturn
<1>11. ASSUME NEW t \in Releasers, ReleaseTick(t) PROVE NoneKilled'
  BY <1>11 DEF ReleaseTick
<1>12. ASSUME NEW t \in Releasers, SteadySleep(t) PROVE NoneKilled'
  BY <1>12 DEF SteadySleep, SleepVision
<1>13. ASSUME NEW t \in Releasers, ReleaseLocked(t) PROVE NoneKilled'
  BY <1>13 DEF ReleaseLocked
<1>14. ASSUME NEW t \in Releasers, ReleaseCheckBusy(t) PROVE NoneKilled'
  BY <1>14 DEF ReleaseCheckBusy
<1>15. ASSUME NEW t \in Releasers, ReleaseSleep(t) PROVE NoneKilled'
  BY <1>15 DEF ReleaseSleep, SleepVision
<1>16. ASSUME NEW t \in Releasers, ReleaseTerminate(t) PROVE NoneKilled'
  BY <1>16 DEF ReleaseTerminate, Terminated, CallsOf, DropCalls
<1>17. ASSUME NEW t \in Releasers, ReleaseStop(t) PROVE NoneKilled'
  BY <1>17 DEF ReleaseStop, StopResults
<1>18. ASSUME NEW t \in Requests \cup Releasers, Drain(t) PROVE NoneKilled'
  BY <1>18 DEF Drain, Terminated
<1>19. ASSUME NEW t \in Requests \cup Releasers, RestartText(t) PROVE NoneKilled'
  BY <1>19 DEF RestartText, StopResults
<1>20. ASSUME NEW t \in Tasks, TextHealthy(t) PROVE NoneKilled'
  BY <1>20 DEF TextHealthy, Spawn
<1>21. ASSUME NEW t \in Tasks, VisionHealthy(t) PROVE NoneKilled'
  BY <1>21 DEF VisionHealthy
<1>22. ASSUME NEW t \in Tasks, HealthTimeout(t) PROVE NoneKilled'
  BY <1>22 DEF HealthTimeout
<1>23. CASE Shutdown
  BY <1>23 DEF Shutdown
<1>24. CASE CloseBegin
  BY <1>24 DEF CloseBegin, Terminated, CallsOf, DropCalls
<1>25. CASE CloseText
  BY <1>25 DEF CloseText, StopResults
<1>26. CASE Closed
  BY <1>26 DEF Closed, StopResults
<1>27. ASSUME NEW p \in Procs, EngineUp(p) PROVE NoneKilled'
  BY <1>27 DEF EngineUp, PortTaken
<1>28. ASSUME NEW p \in Procs, EngineExit(p) PROVE NoneKilled'
  BY <1>28 DEF EngineExit, PortTaken, CallsOf, DropCalls
<1>29. ASSUME NEW p \in Procs, EngineGone(p) PROVE NoneKilled'
  BY <1>29 DEF EngineGone
<1>30. CASE IdleElapses
  BY <1>30 DEF IdleElapses
<1>31. CASE TextTraffic
  BY <1>31 DEF TextTraffic
<1>32. CASE UNCHANGED vars
  BY <1>32 DEF vars
<1>33. QED
  BY <1>1, <1>2, <1>3, <1>4, <1>5, <1>6, <1>7, <1>8, <1>9, <1>10, <1>11, <1>12, <1>13, <1>14,
     <1>15, <1>16, <1>17, <1>18, <1>19, <1>20, <1>21, <1>22, <1>23, <1>24, <1>25, <1>26, <1>27,
     <1>28, <1>29, <1>30, <1>31, <1>32
  DEF Next, Ensure, Release, Restart, Await

\* The engines fit on the card in every step of every transition, under either
\* strategy, as long as no health wait times out and no engine has to be killed.
THEOREM BudgetKept ==
  ASSUME Faults \cap {"health", "grace"} = {} PROVE Spec => []GpuFits
<1>1. Init => NoneKilled
  BY DEF Init, NoneKilled
<1>2. BudgetInvariant /\ NoneKilled /\ [Next]_vars => BudgetInvariant' /\ NoneKilled'
  BY BudgetStep, NoneKilledStep DEF BudgetInvariant, TextInvariant
<1>3. BudgetInvariant /\ NoneKilled => GpuFits
  <2> SUFFICES ASSUME BudgetInvariant, NoneKilled PROVE GpuFits
    OBVIOUS
  <2>1. \A p \in Procs : OnCard(p) => Alive(p)
    BY DEF NoneKilled, OnCard, Alive
  <2> QED
    BY <2>1 DEF BudgetInvariant, TextInvariant, TextTracked, VisionTracked, Absent, NoVision, NoFull, GpuFits
<1> QED
  BY BudgetInit, <1>1, <1>2, <1>3, PTL DEF Spec

-----------------------------------------------------------------------------
(* The C3b manager implements the lease service.                           *)

CleanFaults == Faults \cap {"health", "crash"} = {}
CleanC3b    == Strategies = {"c3b"} /\ CleanFaults

\* The service invariant holds before anything is launched.
LEMMA ServiceInit == Init /\ strategy = "c3b" => ServiceInvariant
<1> SUFFICES ASSUME Init, strategy = "c3b" PROVE ServiceInvariant
  OBVIOUS
<1>1. BudgetInvariant
  BY BudgetInit
<1>2. VisionStates
  BY DEF Init, VisionStates, Tasks
<1>3. ReleasePath
  BY DEF Init, ReleasePath, Tasks
<1>4. QED
  BY <1>1, <1>2, <1>3 DEF ServiceInvariant

\* The strategy is never assigned again.
LEMMA StrategyKept == [Next]_vars => strategy' = strategy
  BY DEF Next, Ensure, Release, Restart, Await, vars, managerVars, engineVars, BootSpawn, BootSleep, HookPost,
         HookUnreachable, HookGivesUp, Forward, Finish, EnsureLocked, EnsureWake, EnsureReturn, Drain,
         RestartText, TextHealthy, VisionHealthy, HealthTimeout, ReleaseTick, SteadySleep, ReleaseLocked,
         ReleaseCheckBusy, ReleaseSleep, ReleaseTerminate, ReleaseStop, Shutdown, CloseBegin, CloseText,
         Closed, EngineUp, EngineExit, EngineGone, IdleElapses, TextTraffic

\* Every step keeps a release on the path that began when vision was idle.
LEMMA PathStep ==
  ASSUME CleanFaults, ServiceInvariant, [Next]_vars
  PROVE  ReleasePath'
<1>0. TypeOK /\ TypeOK' /\ Control
  BY TypeStep DEF ServiceInvariant, BudgetInvariant, TextInvariant, Control
<1> USE <1>0 DEF CleanFaults, ReleasePath, ServiceInvariant, Control, LockHeld, TaskStates, AppPhases,
                 TypeOK, Tasks, Inside, Outside, Goto, Leave, managerVars, engineVars
<1>1. CASE BootSpawn
  BY <1>1 DEF BootSpawn
<1>2. CASE BootSleep
  BY <1>2 DEF BootSleep
<1>3. ASSUME NEW r \in Requests, HookPost(r) PROVE ReleasePath'
  BY <1>3 DEF HookPost
<1>4. ASSUME NEW r \in Requests, HookUnreachable(r) PROVE ReleasePath'
  BY <1>4 DEF HookUnreachable
<1>5. ASSUME NEW r \in Requests, HookGivesUp(r) PROVE ReleasePath'
  BY <1>5 DEF HookGivesUp
<1>6. ASSUME NEW r \in Requests, Forward(r) PROVE ReleasePath'
  BY <1>6 DEF Forward
<1>7. ASSUME NEW r \in Requests, Finish(r) PROVE ReleasePath'
  BY <1>7 DEF Finish
<1>8. ASSUME NEW r \in Requests, EnsureLocked(r) PROVE ReleasePath'
  BY <1>8 DEF EnsureLocked
<1>9. ASSUME NEW r \in Requests, EnsureWake(r) PROVE ReleasePath'
  BY <1>9 DEF EnsureWake
<1>10. ASSUME NEW r \in Requests, EnsureReturn(r) PROVE ReleasePath'
  BY <1>10 DEF EnsureReturn
<1>11. ASSUME NEW t \in Releasers, ReleaseTick(t) PROVE ReleasePath'
  BY <1>11 DEF ReleaseTick
<1>12. ASSUME NEW t \in Releasers, SteadySleep(t) PROVE ReleasePath'
  BY <1>12 DEF SteadySleep
<1>13. ASSUME NEW t \in Releasers, ReleaseLocked(t) PROVE ReleasePath'
  BY <1>13 DEF ReleaseLocked
<1>14. ASSUME NEW t \in Releasers, ReleaseCheckBusy(t) PROVE ReleasePath'
  BY <1>14 DEF ReleaseCheckBusy
<1>15. ASSUME NEW t \in Releasers, ReleaseSleep(t) PROVE ReleasePath'
  BY <1>15 DEF ReleaseSleep
<1>16. ASSUME NEW t \in Releasers, ReleaseTerminate(t) PROVE ReleasePath'
  BY <1>16 DEF ReleaseTerminate, Terminated, CallsOf, DropCalls
<1>17. ASSUME NEW t \in Releasers, ReleaseStop(t) PROVE ReleasePath'
  BY <1>17 DEF ReleaseStop, StopResults
<1>18. ASSUME NEW t \in Requests \cup Releasers, Drain(t) PROVE ReleasePath'
  BY <1>18 DEF Drain, Terminated
<1>19. ASSUME NEW t \in Requests \cup Releasers, RestartText(t) PROVE ReleasePath'
  BY <1>19 DEF RestartText, StopResults
<1>20. ASSUME NEW t \in Tasks, TextHealthy(t) PROVE ReleasePath'
  BY <1>20 DEF TextHealthy, Goal
<1>21. ASSUME NEW t \in Tasks, VisionHealthy(t) PROVE ReleasePath'
  BY <1>21 DEF VisionHealthy
<1>22. ASSUME NEW t \in Tasks, HealthTimeout(t) PROVE ReleasePath'
  BY <1>22 DEF HealthTimeout
<1>23. CASE Shutdown
  BY <1>23 DEF Shutdown
<1>24. CASE CloseBegin
  BY <1>24 DEF CloseBegin, Terminated, CallsOf, DropCalls
<1>25. CASE CloseText
  BY <1>25 DEF CloseText, StopResults
<1>26. CASE Closed
  BY <1>26 DEF Closed, StopResults
<1>27. ASSUME NEW p \in Procs, EngineUp(p) PROVE ReleasePath'
  BY <1>27 DEF EngineUp, PortTaken
<1>28. ASSUME NEW p \in Procs, EngineExit(p) PROVE ReleasePath'
  BY <1>28 DEF EngineExit, PortTaken, CallsOf, DropCalls
<1>29. ASSUME NEW p \in Procs, EngineGone(p) PROVE ReleasePath'
  BY <1>29 DEF EngineGone
<1>30. CASE IdleElapses
  BY <1>30 DEF IdleElapses
<1>31. CASE TextTraffic
  BY <1>31 DEF TextTraffic
<1>32. CASE UNCHANGED vars
  BY <1>32 DEF vars
<1>33. QED
  BY <1>1, <1>2, <1>3, <1>4, <1>5, <1>6, <1>7, <1>8, <1>9, <1>10, <1>11, <1>12, <1>13, <1>14,
     <1>15, <1>16, <1>17, <1>18, <1>19, <1>20, <1>21, <1>22, <1>23, <1>24, <1>25, <1>26, <1>27,
     <1>28, <1>29, <1>30, <1>31, <1>32
  DEF Next, Ensure, Release, Restart, Await

\* Every step keeps vision loading, asleep or serving only where it may be.
LEMMA VisionStep ==
  ASSUME CleanFaults, ServiceInvariant, [Next]_vars
  PROVE  VisionStates'
<1>0. TypeOK /\ TypeOK' /\ Control /\ Control' /\ TextTracked
  BY TypeStep, ControlStep DEF ServiceInvariant, BudgetInvariant, TextInvariant, Control, CleanFaults
<1> USE <1>0 DEF CleanFaults, VisionStates, ReleasePath, ServiceInvariant, BudgetInvariant, Control,
                 LockHeld, TaskStates, AppPhases, VisionTracked, Absent, NoVision, Alive, OnCard, Serviceable,
                 TypeOK, Tasks, Inside, Outside, TextTracked, TextRoles, Goto, Leave,
                 managerVars, engineVars
<1>1. CASE BootSpawn
  BY <1>1 DEF BootSpawn, Spawn, TextInvariant, BootFirst, Goal
<1>2. CASE BootSleep
  BY <1>2 DEF BootSleep, SleepVision, Port
<1>3. ASSUME NEW r \in Requests, HookPost(r) PROVE VisionStates'
  BY <1>3 DEF HookPost
<1>4. ASSUME NEW r \in Requests, HookUnreachable(r) PROVE VisionStates'
  BY <1>4 DEF HookUnreachable
<1>5. ASSUME NEW r \in Requests, HookGivesUp(r) PROVE VisionStates'
  BY <1>5 DEF HookGivesUp
<1>6. ASSUME NEW r \in Requests, Forward(r) PROVE VisionStates'
  BY <1>6 DEF Forward
<1>7. ASSUME NEW r \in Requests, Finish(r) PROVE VisionStates'
  BY <1>7 DEF Finish
<1>8. ASSUME NEW r \in Requests, EnsureLocked(r) PROVE VisionStates'
  BY <1>8 DEF EnsureLocked, Apps, Modes
<1>9. ASSUME NEW r \in Requests, EnsureWake(r) PROVE VisionStates'
  BY <1>9 DEF EnsureWake, Port
<1>10. ASSUME NEW r \in Requests, EnsureReturn(r) PROVE VisionStates'
  BY <1>10 DEF EnsureReturn
<1>11. ASSUME NEW t \in Releasers, ReleaseTick(t) PROVE VisionStates'
  BY <1>11 DEF ReleaseTick
<1>12. ASSUME NEW t \in Releasers, SteadySleep(t) PROVE VisionStates'
  BY <1>12 DEF SteadySleep, SleepVision, Port
<1>13. ASSUME NEW t \in Releasers, ReleaseLocked(t) PROVE VisionStates'
  BY <1>13 DEF ReleaseLocked, Apps, Modes
<1>14. ASSUME NEW t \in Releasers, ReleaseCheckBusy(t) PROVE VisionStates'
  BY <1>14 DEF ReleaseCheckBusy
<1>15. ASSUME NEW t \in Releasers, ReleaseSleep(t) PROVE VisionStates'
  BY <1>15 DEF ReleaseSleep, SleepVision, Port
<1>16. ASSUME NEW t \in Releasers, ReleaseTerminate(t) PROVE VisionStates'
  BY <1>16 DEF ReleaseTerminate, Terminated, CallsOf, DropCalls
<1>17. ASSUME NEW t \in Releasers, ReleaseStop(t) PROVE VisionStates'
  BY <1>17 DEF ReleaseStop, StopResults
<1>18. ASSUME NEW t \in Requests \cup Releasers, Drain(t) PROVE VisionStates'
  BY <1>18 DEF Drain, Terminated
<1>19. ASSUME NEW t \in Requests \cup Releasers, RestartText(t) PROVE VisionStates'
  BY <1>19 DEF RestartText, StopResults, Goal
<1>20. ASSUME NEW t \in Tasks, TextHealthy(t) PROVE VisionStates'
  BY <1>20 DEF TextHealthy, Spawn, Goal
<1>21. ASSUME NEW t \in Tasks, VisionHealthy(t) PROVE VisionStates'
  BY <1>21 DEF VisionHealthy, Healthy, Port
<1>22. ASSUME NEW t \in Tasks, HealthTimeout(t) PROVE VisionStates'
  BY <1>22 DEF HealthTimeout
<1>23. CASE Shutdown
  BY <1>23 DEF Shutdown
<1>24. CASE CloseBegin
  BY <1>24 DEF CloseBegin, Terminated, CallsOf, DropCalls
<1>25. CASE CloseText
  BY <1>25 DEF CloseText, StopResults
<1>26. CASE Closed
  BY <1>26 DEF Closed, StopResults
<1>27. ASSUME NEW p \in Procs, EngineUp(p) PROVE VisionStates'
  BY <1>27 DEF EngineUp, PortTaken, Healthy, Port
<1>28. ASSUME NEW p \in Procs, EngineExit(p) PROVE VisionStates'
  BY <1>28 DEF EngineExit, PortTaken, CallsOf, DropCalls, Healthy, Port, Lives
<1>29. ASSUME NEW p \in Procs, EngineGone(p) PROVE VisionStates'
  BY <1>29 DEF EngineGone
<1>30. CASE IdleElapses
  BY <1>30 DEF IdleElapses
<1>31. CASE TextTraffic
  BY <1>31 DEF TextTraffic
<1>32. CASE UNCHANGED vars
  BY <1>32 DEF vars
<1>33. QED
  BY <1>1, <1>2, <1>3, <1>4, <1>5, <1>6, <1>7, <1>8, <1>9, <1>10, <1>11, <1>12, <1>13, <1>14,
     <1>15, <1>16, <1>17, <1>18, <1>19, <1>20, <1>21, <1>22, <1>23, <1>24, <1>25, <1>26, <1>27,
     <1>28, <1>29, <1>30, <1>31, <1>32
  DEF Next, Ensure, Release, Restart, Await

\* Together: the service invariant is inductive for C3b without faults.
LEMMA ServiceStep == CleanFaults => (ServiceInvariant /\ [Next]_vars => ServiceInvariant')
<1> SUFFICES ASSUME CleanFaults, ServiceInvariant, [Next]_vars PROVE ServiceInvariant'
  OBVIOUS
<1>1. BudgetInvariant'
  BY BudgetStep DEF ServiceInvariant, CleanFaults
<1>2. ReleasePath' /\ VisionStates'
  BY PathStep, VisionStep
<1>3. strategy' = "c3b"
  BY StrategyKept DEF ServiceInvariant
<1>4. QED
  BY <1>1, <1>2, <1>3 DEF ServiceInvariant

\* The two together, for a manager whose strategy can only be C3b.
LEMMA ServiceKept == ASSUME CleanC3b PROVE Spec => []ServiceInvariant
<1>1. Init => ServiceInvariant
  BY ServiceInit DEF Init, CleanC3b
<1>2. ServiceInvariant /\ [Next]_vars => ServiceInvariant'
  BY ServiceStep DEF CleanC3b
<1> QED
  BY <1>1, <1>2, PTL DEF Spec

\* The manager starts where the abstract lease starts.
LEMMA LeaseInit == Init => Lease!Init
  BY DEF Init, Lease!Init, Serviceable, Tasks

\* Every step of the manager is a step of the lease or none.
LEMMA LeaseStep ==
  ASSUME CleanFaults, ServiceInvariant, [Next]_vars
  PROVE  [Lease!Next]_(Lease!vars)
<1>0. TypeOK /\ TypeOK' /\ Control /\ VisionTracked /\ Absent /\ VisionStates /\ ReleasePath
      /\ TextTracked /\ BootFirst
  BY TypeStep DEF ServiceInvariant, BudgetInvariant, TextInvariant, Control
<1> USE <1>0 DEF CleanFaults, VisionStates, ReleasePath, Control, LockHeld, TaskStates, AppPhases,
                 VisionTracked, Absent, NoVision, TextTracked, Alive, OnCard, Serviceable, TypeOK, Tasks,
                 Inside, Outside, TextRoles, Goto, Leave, managerVars, engineVars,
                 Lease!Next, Lease!vars, Lease!Ask, Lease!Renew, Lease!BringUp, Lease!Grant,
                 Lease!Expire, Lease!TakeDown, Lease!Close, Lease!Vanish
<1>1. CASE BootSpawn
  BY <1>1 DEF BootSpawn, Spawn, BootFirst, Goal
<1>2. CASE BootSleep
  BY <1>2 DEF BootSleep, SleepVision, Port
<1>3. ASSUME NEW r \in Requests, HookPost(r) PROVE [Lease!Next]_(Lease!vars)
  BY <1>3 DEF HookPost
<1>4. ASSUME NEW r \in Requests, HookUnreachable(r) PROVE [Lease!Next]_(Lease!vars)
  BY <1>4 DEF HookUnreachable
<1>5. ASSUME NEW r \in Requests, HookGivesUp(r) PROVE [Lease!Next]_(Lease!vars)
  BY <1>5 DEF HookGivesUp
<1>6. ASSUME NEW r \in Requests, Forward(r) PROVE [Lease!Next]_(Lease!vars)
  BY <1>6 DEF Forward
<1>7. ASSUME NEW r \in Requests, Finish(r) PROVE [Lease!Next]_(Lease!vars)
  BY <1>7 DEF Finish
<1>8. ASSUME NEW r \in Requests, EnsureLocked(r) PROVE [Lease!Next]_(Lease!vars)
  BY <1>8 DEF EnsureLocked
<1>9. ASSUME NEW r \in Requests, EnsureWake(r) PROVE [Lease!Next]_(Lease!vars)
  BY <1>9 DEF EnsureWake, Port
<1>10. ASSUME NEW r \in Requests, EnsureReturn(r) PROVE [Lease!Next]_(Lease!vars)
  BY <1>10 DEF EnsureReturn
<1>11. ASSUME NEW t \in Releasers, ReleaseTick(t) PROVE [Lease!Next]_(Lease!vars)
  BY <1>11 DEF ReleaseTick
<1>12. ASSUME NEW t \in Releasers, SteadySleep(t) PROVE [Lease!Next]_(Lease!vars)
  BY <1>12 DEF SteadySleep, SleepVision, Port
<1>13. ASSUME NEW t \in Releasers, ReleaseLocked(t) PROVE [Lease!Next]_(Lease!vars)
  BY <1>13 DEF ReleaseLocked
<1>14. ASSUME NEW t \in Releasers, ReleaseCheckBusy(t) PROVE [Lease!Next]_(Lease!vars)
  BY <1>14 DEF ReleaseCheckBusy
<1>15. ASSUME NEW t \in Releasers, ReleaseSleep(t) PROVE [Lease!Next]_(Lease!vars)
  BY <1>15 DEF ReleaseSleep, SleepVision, Port
<1>16. ASSUME NEW t \in Releasers, ReleaseTerminate(t) PROVE [Lease!Next]_(Lease!vars)
  BY <1>16 DEF ReleaseTerminate, Terminated, CallsOf, DropCalls
<1>17. ASSUME NEW t \in Releasers, ReleaseStop(t) PROVE [Lease!Next]_(Lease!vars)
  BY <1>17 DEF ReleaseStop, StopResults
<1>18. ASSUME NEW t \in Requests \cup Releasers, Drain(t) PROVE [Lease!Next]_(Lease!vars)
  BY <1>18 DEF Drain, Terminated
<1>19. ASSUME NEW t \in Requests \cup Releasers, RestartText(t) PROVE [Lease!Next]_(Lease!vars)
  BY <1>19 DEF RestartText, StopResults, Goal
<1>20. ASSUME NEW t \in Tasks, TextHealthy(t) PROVE [Lease!Next]_(Lease!vars)
  BY <1>20 DEF TextHealthy, Spawn, Goal
<1>21. ASSUME NEW t \in Tasks, VisionHealthy(t) PROVE [Lease!Next]_(Lease!vars)
  BY <1>21 DEF VisionHealthy, Healthy, Port
<1>22. ASSUME NEW t \in Tasks, HealthTimeout(t) PROVE [Lease!Next]_(Lease!vars)
  BY <1>22 DEF HealthTimeout
<1>23. CASE Shutdown
  BY <1>23 DEF Shutdown
<1>24. CASE CloseBegin
  BY <1>24 DEF CloseBegin, Terminated, CallsOf, DropCalls
<1>25. CASE CloseText
  BY <1>25 DEF CloseText, StopResults
<1>26. CASE Closed
  BY <1>26 DEF Closed, StopResults
<1>27. ASSUME NEW p \in Procs, EngineUp(p) PROVE [Lease!Next]_(Lease!vars)
  BY <1>27 DEF EngineUp, PortTaken, Healthy, Port
<1>28. ASSUME NEW p \in Procs, EngineExit(p) PROVE [Lease!Next]_(Lease!vars)
  BY <1>28 DEF EngineExit, PortTaken, CallsOf, DropCalls, Healthy, Port, Lives
<1>29. ASSUME NEW p \in Procs, EngineGone(p) PROVE [Lease!Next]_(Lease!vars)
  BY <1>29 DEF EngineGone
<1>30. CASE IdleElapses
  BY <1>30 DEF IdleElapses
<1>31. CASE TextTraffic
  BY <1>31 DEF TextTraffic
<1>32. CASE UNCHANGED vars
  BY <1>32 DEF vars
<1>33. QED
  BY <1>1, <1>2, <1>3, <1>4, <1>5, <1>6, <1>7, <1>8, <1>9, <1>10, <1>11, <1>12, <1>13, <1>14,
     <1>15, <1>16, <1>17, <1>18, <1>19, <1>20, <1>21, <1>22, <1>23, <1>24, <1>25, <1>26, <1>27,
     <1>28, <1>29, <1>30, <1>31, <1>32
  DEF Next, Ensure, Release, Restart, Await

\* Every behaviour of the C3b manager, seen through the refinement mapping, is
\* a behaviour of VisionLease: for any number of calls and releasers, with
\* drains that time out, control calls that fail and hooks that give up.
THEOREM LeaseImplemented == ASSUME CleanC3b PROVE Spec => ImplementsLease
<1>1. Init => Lease!Init
  BY LeaseInit
<1>2. ServiceInvariant /\ [Next]_vars => [Lease!Next]_(Lease!vars)
  BY LeaseStep DEF CleanC3b
<1>3. QED
  BY <1>1, <1>2, ServiceKept, PTL DEF Spec, ImplementsLease, Lease!Spec

\* Under C3b no step of a serving manager takes vision away before the idle
\* time is over: a property of VisionLease, inherited.
THEOREM FreshVisionKept == ASSUME CleanC3b PROVE Spec => FreshVisionStaysUp
<1>1. ServiceInvariant /\ [Next]_vars =>
        [app = "serving" /\ ~idle /\ Serviceable => Serviceable']_vars
  <2> SUFFICES ASSUME ServiceInvariant, [Next]_vars, app = "serving", ~idle, Serviceable
               PROVE  Serviceable'
    OBVIOUS
  <2>1. [Lease!Next]_(Lease!vars)
    BY LeaseStep DEF CleanC3b
  <2>2. QED
    BY <2>1 DEF Lease!Next, Lease!vars, Lease!Ask, Lease!Renew, Lease!BringUp, Lease!Grant,
                Lease!Expire, Lease!TakeDown, Lease!Close, Lease!Vanish
<1>2. QED
  BY <1>1, ServiceKept, PTL DEF Spec, FreshVisionStaysUp

\* A handler that has the lock goes on inside or returns.
LEMMA LockLeft ==
  ASSUME TypeOK, Control, Control', [Next]_vars, NEW r \in Requests, lock = r, lock' # r
  PROVE  pc'[r] = "off"
<1>1. pc[r] \in Inside /\ pc'[r] \in {"off", "lock_ensure"}
  BY DEF Control, LockHeld, TaskStates, Inside, Tasks
<1>2. pc'[r] # "lock_ensure"
  BY <1>1, SMTT(30) DEF Next, Ensure, Release, Restart, Await, vars, managerVars, engineVars, TypeOK, Tasks,
         Inside, Goto, Leave, BootSpawn, BootSleep, HookPost, HookUnreachable, HookGivesUp, Forward, Finish,
         EnsureLocked, EnsureWake, EnsureReturn, Drain, RestartText, TextHealthy,
         VisionHealthy, HealthTimeout, ReleaseTick, SteadySleep, ReleaseLocked, ReleaseCheckBusy,
         ReleaseSleep, ReleaseTerminate, ReleaseStop, Shutdown, CloseBegin, CloseText, Closed,
         EngineUp, EngineExit, EngineGone, IdleElapses, TextTraffic
<1>3. QED
  BY <1>1, <1>2

\* When a C3b handler returns, vision is up at that moment.
LEMMA LeasedReport ==
  ASSUME CleanFaults, ServiceInvariant, [Next]_vars, NEW r \in Requests, lock = r, lock' # r
  PROVE  Serviceable'
<1>1. [Lease!Next]_(Lease!vars)
  BY LeaseStep
<1>2. TypeOK /\ Control /\ Control'
  BY ControlStep DEF ServiceInvariant, BudgetInvariant, TextInvariant
<1>3. pc[r] # "off" /\ pc'[r] = "off"
  BY <1>2, LockLeft DEF Control, LockHeld, Inside, Tasks
<1>4. PICK c \in Requests : Lease!Grant(c)
  BY <1>1, <1>3 DEF Lease!Next, Lease!vars, Lease!Ask, Lease!Renew, Lease!BringUp,
                    Lease!Expire, Lease!TakeDown, Lease!Close, Lease!Vanish
<1>5. QED
  BY <1>4 DEF Lease!Grant

-----------------------------------------------------------------------------
(* The mode, and what is left when the manager is closed.                  *)

\* Every step keeps the text engine that somebody relies on at its port.
LEMMA TextPortStep ==
  ASSUME Faults \cap {"health", "crash"} = {}, BudgetInvariant, TextStates, [Next]_vars
  PROVE  TextStates'
<1>0. TypeOK /\ TypeOK' /\ Control /\ Control' /\ TextTracked /\ BootFirst
  BY TypeStep, ControlStep DEF BudgetInvariant, TextInvariant, Control
<1> USE <1>0 DEF Control, LockHeld, TaskStates, AppPhases, TextStates, Port, Alive, OnCard,
                 TypeOK, Tasks, Inside, Outside, TextTracked, TextRoles, BootFirst,
                 Goto, Leave, managerVars, engineVars, Goal
<1>1. CASE BootSpawn
  BY <1>1 DEF BootSpawn, Spawn
<1>2. CASE BootSleep
  BY <1>2 DEF BootSleep, SleepVision
<1>3. ASSUME NEW r \in Requests, HookPost(r) PROVE TextStates'
  BY <1>3 DEF HookPost
<1>4. ASSUME NEW r \in Requests, HookUnreachable(r) PROVE TextStates'
  BY <1>4 DEF HookUnreachable
<1>5. ASSUME NEW r \in Requests, HookGivesUp(r) PROVE TextStates'
  BY <1>5 DEF HookGivesUp
<1>6. ASSUME NEW r \in Requests, Forward(r) PROVE TextStates'
  BY <1>6 DEF Forward
<1>7. ASSUME NEW r \in Requests, Finish(r) PROVE TextStates'
  BY <1>7 DEF Finish
<1>8. ASSUME NEW r \in Requests, EnsureLocked(r) PROVE TextStates'
  BY <1>8 DEF EnsureLocked, Apps, Modes
<1>9. ASSUME NEW r \in Requests, EnsureWake(r) PROVE TextStates'
  <2>1. mode \in {"mixed", "steady"} /\ Port({"text_mixed"}) # {}
    BY <1>9 DEF EnsureWake, BudgetInvariant, Absent
  <2> QED
    BY <1>9, <2>1 DEF EnsureWake
<1>10. ASSUME NEW r \in Requests, EnsureReturn(r) PROVE TextStates'
  <2>1. mode \in {"mixed", "steady"} /\ Port({"text_mixed"}) # {}
    BY <1>10 DEF EnsureReturn, BudgetInvariant, Absent
  <2> QED
    BY <1>10, <2>1 DEF EnsureReturn
<1>11. ASSUME NEW t \in Releasers, ReleaseTick(t) PROVE TextStates'
  BY <1>11 DEF ReleaseTick
<1>12. ASSUME NEW t \in Releasers, SteadySleep(t) PROVE TextStates'
  BY <1>12 DEF SteadySleep, SleepVision
<1>13. ASSUME NEW t \in Releasers, ReleaseLocked(t) PROVE TextStates'
  BY <1>13 DEF ReleaseLocked, Apps, Modes
<1>14. ASSUME NEW t \in Releasers, ReleaseCheckBusy(t) PROVE TextStates'
  <2>1. mode = "mixed"
    BY <1>14 DEF ReleaseCheckBusy, BudgetInvariant, Absent
  <2> QED
    BY <1>14, <2>1 DEF ReleaseCheckBusy
<1>15. ASSUME NEW t \in Releasers, ReleaseSleep(t) PROVE TextStates'
  BY <1>15 DEF ReleaseSleep, SleepVision
<1>16. ASSUME NEW t \in Releasers, ReleaseTerminate(t) PROVE TextStates'
  BY <1>16 DEF ReleaseTerminate, Terminated, CallsOf, DropCalls
<1>17. ASSUME NEW t \in Releasers, ReleaseStop(t) PROVE TextStates'
  BY <1>17 DEF ReleaseStop, StopResults
<1>18. ASSUME NEW t \in Requests \cup Releasers, Drain(t) PROVE TextStates'
  BY <1>18 DEF Drain, Terminated
<1>19. ASSUME NEW t \in Requests \cup Releasers, RestartText(t) PROVE TextStates'
  BY <1>19 DEF RestartText, StopResults
<1>20. ASSUME NEW t \in Tasks, TextHealthy(t) PROVE TextStates'
  BY <1>20 DEF TextHealthy, Spawn, Healthy
<1>21. ASSUME NEW t \in Tasks, VisionHealthy(t) PROVE TextStates'
  BY <1>21 DEF VisionHealthy, Healthy
<1>22. ASSUME NEW t \in Tasks, HealthTimeout(t) PROVE TextStates'
  BY <1>22 DEF HealthTimeout
<1>23. CASE Shutdown
  BY <1>23 DEF Shutdown
<1>24. CASE CloseBegin
  BY <1>24 DEF CloseBegin, Terminated, CallsOf, DropCalls
<1>25. CASE CloseText
  BY <1>25 DEF CloseText, StopResults
<1>26. CASE Closed
  BY <1>26 DEF Closed, StopResults
<1>27. ASSUME NEW p \in Procs, EngineUp(p) PROVE TextStates'
  BY <1>27 DEF EngineUp, PortTaken, Healthy
<1>28. ASSUME NEW p \in Procs, EngineExit(p) PROVE TextStates'
  BY <1>28 DEF EngineExit, PortTaken, CallsOf, DropCalls, Healthy
<1>29. ASSUME NEW p \in Procs, EngineGone(p) PROVE TextStates'
  BY <1>29 DEF EngineGone
<1>30. CASE IdleElapses
  BY <1>30 DEF IdleElapses
<1>31. CASE TextTraffic
  BY <1>31 DEF TextTraffic
<1>32. CASE UNCHANGED vars
  BY <1>32 DEF vars
<1>33. QED
  BY <1>1, <1>2, <1>3, <1>4, <1>5, <1>6, <1>7, <1>8, <1>9, <1>10, <1>11, <1>12, <1>13, <1>14,
     <1>15, <1>16, <1>17, <1>18, <1>19, <1>20, <1>21, <1>22, <1>23, <1>24, <1>25, <1>26, <1>27,
     <1>28, <1>29, <1>30, <1>31, <1>32
  DEF Next, Ensure, Release, Restart, Await

\* Every step of C3a leaves both engines where start() has put them.
LEMMA SteadyStep ==
  ASSUME Faults \cap {"health", "crash"} = {}, BudgetInvariant, SteadyStates, [Next]_vars
  PROVE  SteadyStates'
<1>0. TypeOK /\ TypeOK' /\ Control /\ Control'
  BY TypeStep, ControlStep DEF BudgetInvariant, TextInvariant, Control
<1> USE <1>0 DEF Control, LockHeld, TaskStates, AppPhases, SteadyStates, Port, Alive, OnCard,
                 TypeOK, Tasks, Inside, Outside,
                 Goto, Leave, managerVars, engineVars, Goal
<1>1. CASE BootSpawn
  BY <1>1 DEF BootSpawn, Spawn
<1>2. CASE BootSleep
  BY <1>2 DEF BootSleep, SleepVision
<1>3. ASSUME NEW r \in Requests, HookPost(r) PROVE SteadyStates'
  BY <1>3 DEF HookPost
<1>4. ASSUME NEW r \in Requests, HookUnreachable(r) PROVE SteadyStates'
  BY <1>4 DEF HookUnreachable
<1>5. ASSUME NEW r \in Requests, HookGivesUp(r) PROVE SteadyStates'
  BY <1>5 DEF HookGivesUp
<1>6. ASSUME NEW r \in Requests, Forward(r) PROVE SteadyStates'
  BY <1>6 DEF Forward
<1>7. ASSUME NEW r \in Requests, Finish(r) PROVE SteadyStates'
  BY <1>7 DEF Finish
<1>8. ASSUME NEW r \in Requests, EnsureLocked(r) PROVE SteadyStates'
  BY <1>8 DEF EnsureLocked
<1>9. ASSUME NEW r \in Requests, EnsureWake(r) PROVE SteadyStates'
  BY <1>9 DEF EnsureWake
<1>10. ASSUME NEW r \in Requests, EnsureReturn(r) PROVE SteadyStates'
  BY <1>10 DEF EnsureReturn
<1>11. ASSUME NEW t \in Releasers, ReleaseTick(t) PROVE SteadyStates'
  BY <1>11 DEF ReleaseTick
<1>12. ASSUME NEW t \in Releasers, SteadySleep(t) PROVE SteadyStates'
  BY <1>12 DEF SteadySleep, SleepVision
<1>13. ASSUME NEW t \in Releasers, ReleaseLocked(t) PROVE SteadyStates'
  BY <1>13 DEF ReleaseLocked
<1>14. ASSUME NEW t \in Releasers, ReleaseCheckBusy(t) PROVE SteadyStates'
  BY <1>14 DEF ReleaseCheckBusy
<1>15. ASSUME NEW t \in Releasers, ReleaseSleep(t) PROVE SteadyStates'
  BY <1>15 DEF ReleaseSleep, SleepVision
<1>16. ASSUME NEW t \in Releasers, ReleaseTerminate(t) PROVE SteadyStates'
  BY <1>16 DEF ReleaseTerminate, Terminated, CallsOf, DropCalls
<1>17. ASSUME NEW t \in Releasers, ReleaseStop(t) PROVE SteadyStates'
  BY <1>17 DEF ReleaseStop, StopResults
<1>18. ASSUME NEW t \in Requests \cup Releasers, Drain(t) PROVE SteadyStates'
  BY <1>18 DEF Drain, Terminated
<1>19. ASSUME NEW t \in Requests \cup Releasers, RestartText(t) PROVE SteadyStates'
  BY <1>19 DEF RestartText, StopResults
<1>20. ASSUME NEW t \in Tasks, TextHealthy(t) PROVE SteadyStates'
  BY <1>20 DEF TextHealthy, Spawn, Healthy
<1>21. ASSUME NEW t \in Tasks, VisionHealthy(t) PROVE SteadyStates'
  BY <1>21 DEF VisionHealthy, Healthy
<1>22. ASSUME NEW t \in Tasks, HealthTimeout(t) PROVE SteadyStates'
  BY <1>22 DEF HealthTimeout
<1>23. CASE Shutdown
  BY <1>23 DEF Shutdown
<1>24. CASE CloseBegin
  BY <1>24 DEF CloseBegin, Terminated, CallsOf, DropCalls
<1>25. CASE CloseText
  BY <1>25 DEF CloseText, StopResults
<1>26. CASE Closed
  BY <1>26 DEF Closed, StopResults
<1>27. ASSUME NEW p \in Procs, EngineUp(p) PROVE SteadyStates'
  BY <1>27 DEF EngineUp, PortTaken, Healthy
<1>28. ASSUME NEW p \in Procs, EngineExit(p) PROVE SteadyStates'
  BY <1>28 DEF EngineExit, PortTaken, CallsOf, DropCalls, Healthy
<1>29. ASSUME NEW p \in Procs, EngineGone(p) PROVE SteadyStates'
  BY <1>29 DEF EngineGone
<1>30. CASE IdleElapses
  BY <1>30 DEF IdleElapses
<1>31. CASE TextTraffic
  BY <1>31 DEF TextTraffic
<1>32. CASE UNCHANGED vars
  BY <1>32 DEF vars
<1>33. QED
  BY <1>1, <1>2, <1>3, <1>4, <1>5, <1>6, <1>7, <1>8, <1>9, <1>10, <1>11, <1>12, <1>13, <1>14,
     <1>15, <1>16, <1>17, <1>18, <1>19, <1>20, <1>21, <1>22, <1>23, <1>24, <1>25, <1>26, <1>27,
     <1>28, <1>29, <1>30, <1>31, <1>32
  DEF Next, Ensure, Release, Restart, Await

\* Every step keeps the engines in the two handles, and none comes back after
\* they were stopped.
LEMMA ClosedStep ==
  ASSUME "health" \notin Faults, CloseInvariant, [Next]_vars
  PROVE  Launched' /\ VisionClosed' /\ NothingOutlivesClose'
<1>0. TypeOK /\ TypeOK' /\ Control /\ Control' /\ TextTracked /\ VisionTracked /\ Launched
      /\ VisionClosed /\ NothingOutlivesClose
  BY TypeStep, ControlStep DEF CloseInvariant, BudgetInvariant, TextInvariant, Control
<1> USE <1>0 DEF Control, LockHeld, TaskStates, AppPhases, VisionTracked, Launched,
                 VisionClosed, NoVision, NothingOutlivesClose, Alive, OnCard, TypeOK, Tasks, Inside, Outside, TextTracked,
                 TextRoles, Roles, Goto, Leave, managerVars, engineVars, Goal, Port
<1>1. CASE BootSpawn
  BY <1>1 DEF BootSpawn, Spawn
<1>2. CASE BootSleep
  BY <1>2 DEF BootSleep, SleepVision
<1>3. ASSUME NEW r \in Requests, HookPost(r) PROVE Launched' /\ VisionClosed' /\ NothingOutlivesClose'
  BY <1>3 DEF HookPost
<1>4. ASSUME NEW r \in Requests, HookUnreachable(r) PROVE Launched' /\ VisionClosed' /\ NothingOutlivesClose'
  BY <1>4 DEF HookUnreachable
<1>5. ASSUME NEW r \in Requests, HookGivesUp(r) PROVE Launched' /\ VisionClosed' /\ NothingOutlivesClose'
  BY <1>5 DEF HookGivesUp
<1>6. ASSUME NEW r \in Requests, Forward(r) PROVE Launched' /\ VisionClosed' /\ NothingOutlivesClose'
  BY <1>6 DEF Forward
<1>7. ASSUME NEW r \in Requests, Finish(r) PROVE Launched' /\ VisionClosed' /\ NothingOutlivesClose'
  BY <1>7 DEF Finish
<1>8. ASSUME NEW r \in Requests, EnsureLocked(r) PROVE Launched' /\ VisionClosed' /\ NothingOutlivesClose'
  BY <1>8 DEF EnsureLocked
<1>9. ASSUME NEW r \in Requests, EnsureWake(r) PROVE Launched' /\ VisionClosed' /\ NothingOutlivesClose'
  BY <1>9 DEF EnsureWake
<1>10. ASSUME NEW r \in Requests, EnsureReturn(r) PROVE Launched' /\ VisionClosed' /\ NothingOutlivesClose'
  BY <1>10 DEF EnsureReturn
<1>11. ASSUME NEW t \in Releasers, ReleaseTick(t) PROVE Launched' /\ VisionClosed' /\ NothingOutlivesClose'
  BY <1>11 DEF ReleaseTick
<1>12. ASSUME NEW t \in Releasers, SteadySleep(t) PROVE Launched' /\ VisionClosed' /\ NothingOutlivesClose'
  BY <1>12 DEF SteadySleep, SleepVision
<1>13. ASSUME NEW t \in Releasers, ReleaseLocked(t) PROVE Launched' /\ VisionClosed' /\ NothingOutlivesClose'
  BY <1>13 DEF ReleaseLocked
<1>14. ASSUME NEW t \in Releasers, ReleaseCheckBusy(t) PROVE Launched' /\ VisionClosed' /\ NothingOutlivesClose'
  BY <1>14 DEF ReleaseCheckBusy
<1>15. ASSUME NEW t \in Releasers, ReleaseSleep(t) PROVE Launched' /\ VisionClosed' /\ NothingOutlivesClose'
  BY <1>15 DEF ReleaseSleep, SleepVision
<1>16. ASSUME NEW t \in Releasers, ReleaseTerminate(t) PROVE Launched' /\ VisionClosed' /\ NothingOutlivesClose'
  BY <1>16 DEF ReleaseTerminate, Terminated, CallsOf, DropCalls
<1>17. ASSUME NEW t \in Releasers, ReleaseStop(t) PROVE Launched' /\ VisionClosed' /\ NothingOutlivesClose'
  BY <1>17 DEF ReleaseStop, StopResults
<1>18. ASSUME NEW t \in Requests \cup Releasers, Drain(t) PROVE Launched' /\ VisionClosed' /\ NothingOutlivesClose'
  BY <1>18 DEF Drain, Terminated
<1>19. ASSUME NEW t \in Requests \cup Releasers, RestartText(t) PROVE Launched' /\ VisionClosed' /\ NothingOutlivesClose'
  BY <1>19 DEF RestartText, StopResults
<1>20. ASSUME NEW t \in Tasks, TextHealthy(t) PROVE Launched' /\ VisionClosed' /\ NothingOutlivesClose'
  BY <1>20 DEF TextHealthy, Spawn, Healthy
<1>21. ASSUME NEW t \in Tasks, VisionHealthy(t) PROVE Launched' /\ VisionClosed' /\ NothingOutlivesClose'
  BY <1>21 DEF VisionHealthy, Healthy
<1>22. ASSUME NEW t \in Tasks, HealthTimeout(t) PROVE Launched' /\ VisionClosed' /\ NothingOutlivesClose'
  BY <1>22 DEF HealthTimeout
<1>23. CASE Shutdown
  BY <1>23 DEF Shutdown
<1>24. CASE CloseBegin
  BY <1>24 DEF CloseBegin, Terminated, CallsOf, DropCalls
<1>25. CASE CloseText
  <2>1. PICK after \in StopResults(visionProc) :
          life' = [q \in Procs |-> IF q = textProc /\ after[q] \notin {"down", "killed"}
                                   THEN "stopping" ELSE after[q]]
    BY <1>25 DEF CloseText
  <2>2. \A q \in Procs : after[q] \notin {"down", "killed"} => q # visionProc /\ after[q] = life[q]
    BY <2>1 DEF StopResults
  <2>3. \A q \in Procs : Alive(q)' => Alive(q) /\ q # visionProc
    BY <2>1, <2>2
  <2>4. Launched' /\ NoVision'
    BY <1>25, <2>3 DEF CloseText
  <2>5. QED
    BY <1>25, <2>4 DEF CloseText
<1>26. CASE Closed
  BY <1>26 DEF Closed, StopResults
<1>27. ASSUME NEW p \in Procs, EngineUp(p) PROVE Launched' /\ VisionClosed' /\ NothingOutlivesClose'
  BY <1>27 DEF EngineUp, PortTaken, Healthy
<1>28. ASSUME NEW p \in Procs, EngineExit(p) PROVE Launched' /\ VisionClosed' /\ NothingOutlivesClose'
  BY <1>28 DEF EngineExit, PortTaken, CallsOf, DropCalls, Healthy
<1>29. ASSUME NEW p \in Procs, EngineGone(p) PROVE Launched' /\ VisionClosed' /\ NothingOutlivesClose'
  BY <1>29 DEF EngineGone
<1>30. CASE IdleElapses
  BY <1>30 DEF IdleElapses
<1>31. CASE TextTraffic
  BY <1>31 DEF TextTraffic
<1>32. CASE UNCHANGED vars
  BY <1>32 DEF vars
<1>33. QED
  BY <1>1, <1>2, <1>3, <1>4, <1>5, <1>6, <1>7, <1>8, <1>9, <1>10, <1>11, <1>12, <1>13, <1>14,
     <1>15, <1>16, <1>17, <1>18, <1>19, <1>20, <1>21, <1>22, <1>23, <1>24, <1>25, <1>26, <1>27,
     <1>28, <1>29, <1>30, <1>31, <1>32
  DEF Next, Ensure, Release, Restart, Await

\* The initial state satisfies the mode invariant ...
LEMMA ModeInit == Init => ModeInvariant
  BY BudgetInit DEF Init, ModeInvariant, TextStates, SteadyStates, Tasks

\* ... and every step keeps it.
LEMMA ModeStep ==
  Faults \cap {"health", "crash"} = {} => (ModeInvariant /\ [Next]_vars => ModeInvariant')
  BY BudgetStep, TextPortStep, SteadyStep DEF ModeInvariant

\* Between transitions the engines are those the mode names, under either
\* strategy, while no health wait times out and no engine crashes.
THEOREM ModeKept ==
  ASSUME Faults \cap {"health", "crash"} = {} PROVE Spec => []ModeTruthful
<1>1. Init => ModeInvariant
  BY ModeInit
<1>2. ModeInvariant /\ [Next]_vars => ModeInvariant'
  BY ModeStep
<1>3. Init /\ strategy = "c3b" => ServiceInvariant
  BY ServiceInit
<1>4. ServiceInvariant /\ [Next]_vars => ServiceInvariant'
  BY ServiceStep DEF CleanFaults
<1>5. ModeInvariant /\ ~(strategy = "c3b") /\ [Next]_vars => ~(strategy = "c3b")'
  BY StrategyKept
<1>6. ModeInvariant /\ ~(strategy = "c3b") => ModeTruthful
  <2> SUFFICES ASSUME ModeInvariant, ~(strategy = "c3b") PROVE ModeTruthful
    OBVIOUS
  <2>1. strategy = "c3a"
    BY DEF ModeInvariant, BudgetInvariant, TextInvariant, TypeOK
  <2> QED
    BY <2>1 DEF ModeInvariant, TextStates, SteadyStates, ModeTruthful
<1>7. ModeInvariant /\ ServiceInvariant => ModeTruthful
  BY DEF ModeInvariant, TextStates, BudgetInvariant, Absent, NoVision, ServiceInvariant,
         VisionStates, ReleasePath, ModeTruthful
<1> QED
  BY <1>1, <1>2, <1>3, <1>4, <1>5, <1>6, <1>7, PTL DEF Spec

\* Under C3b an answered ensure finds an awake vision at its port at that moment,
\* while no health wait times out and no engine crashes.
THEOREM VisionReported == ASSUME CleanC3b PROVE Spec => ReportedServiceable
<1>1. ServiceInvariant /\ [Next]_vars =>
        [\A r \in Requests : lock = r /\ lock' # r /\ mode' \in {"mixed", "steady"} => Serviceable']_vars
  BY LeasedReport DEF CleanC3b
<1> QED
  BY <1>1, ServiceKept, PTL DEF Spec, ReportedServiceable

\* aclose stops everything that the manager has launched, wherever the watchdog
\* was cancelled, as long as no health wait times out.
THEOREM CloseIsComplete == ASSUME "health" \notin Faults PROVE Spec => []NothingOutlivesClose
<1>1. Init => CloseInvariant
  BY BudgetInit DEF Init, CloseInvariant, Launched, VisionClosed, NothingOutlivesClose, Alive
<1>2. CloseInvariant /\ [Next]_vars => CloseInvariant'
  BY BudgetStep, ClosedStep DEF CloseInvariant
<1>3. CloseInvariant => NothingOutlivesClose
  BY DEF CloseInvariant
<1> QED
  BY <1>1, <1>2, <1>3, PTL DEF Spec
=============================================================================
