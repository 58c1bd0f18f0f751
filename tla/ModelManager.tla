----------------------------- MODULE ModelManager -----------------------------
(***************************************************************************)
(* The VRAM scheduler of scripts/model_manager.py together with the proxy  *)
(* hook that calls it (proxy/hooks.py, VisionWakeHook).                    *)
(*                                                                         *)
(* One manager process owns a text engine and a vision engine.  Its        *)
(* coroutines interleave at every await, so each method is cut there: a    *)
(* task is the startup (Boot), the handler of one POST /ensure-vision (one *)
(* per Request) or a caller of maybe_release_vision (the Watchdog or a     *)
(* POST /sleep-vision).  The engines are processes of their own: they      *)
(* load, bind their port, fall asleep, and once terminated take their time *)
(* to go, or are killed after the grace period, while the tasks wait.      *)
(***************************************************************************)
EXTENDS Naturals, FiniteSets

CONSTANTS
  Requests,     \* qwen-vl calls through the proxy, one at a time each
  Releasers,    \* callers of maybe_release_vision
  Watchdog,     \* the background one among them
  Boot,         \* the lifespan's start()
  Procs,        \* identities of engine processes
  NoProc,       \* Python's None in _text_proc / _vision_proc
  NoTask,       \* the lock is free
  Strategies,   \* the values VISION_STRATEGY may have
  Faults,       \* what may go wrong, see FaultKinds
  CanShutdown   \* the server may be asked to stop

FaultKinds ==
  { "health",   \* an engine may miss ENGINE_START_TIMEOUT_S
    "crash",    \* an engine process may exit by itself
    "grace",    \* an engine may outlast the 5 s that _stop leaves a terminated one
    "http",     \* a sleep, wake or metrics call may fail (the errors are suppressed)
    "drain",    \* text may still be busy after DRAIN_TIMEOUT_S
    "hook" }    \* the hook may give up after its own 600 s

Tasks == Requests \cup Releasers \cup {Boot}

ASSUME ConstantsAssumption ==
  /\ Watchdog \in Releasers
  /\ Requests \cap Releasers = {}
  /\ Boot \notin Requests \cup Releasers
  /\ NoTask \notin Tasks
  /\ NoProc \notin Procs
  /\ Strategies # {} /\ Strategies \subseteq {"c3a", "c3b"}
  /\ Faults \subseteq FaultKinds
  /\ CanShutdown \in BOOLEAN

VARIABLES
  strategy,    \* self._strategy, never assigned again
  mode,        \* self._mode
  lock,        \* the task inside `async with self._lock`
  textProc,    \* self._text_proc
  visionProc,  \* self._vision_proc
  idle,        \* clock() - self._last_vision > VISION_IDLE_S
  pc,          \* where each task waits
  role,        \* what each engine process was launched as
  life,        \* how far it got
  textBusy,    \* the text engine has requests running
  call,        \* where each qwen-vl call is, seen from the proxy
  app          \* the FastAPI lifespan

managerVars == <<strategy, mode, lock, textProc, visionProc, idle>>
engineVars  == <<role, life, textBusy>>
vars == <<managerVars, pc, engineVars, call, app>>

Modes == {"stopped", "text_full", "mixed", "steady"}
Roles == {"none", "text_full", "text_mixed", "vision"}
Lives == {"down", "loading", "up", "asleep", "stopping", "killed"}
Calls == {"idle", "waiting", "forward", "running"}
Apps  == {"starting", "serving", "aborted", "closing", "close_vision", "close_text", "closed"}

\* Where a task is when it holds self._lock ...
Inside == { "spawn", "wake", "woken", "drain", "stop_text", "await_text", "await_vision",
            "boot_sleep", "check_busy", "sleep", "term_vision", "stop_vision" }
\* ... and when it does not.
Outside == { "off", "lock_ensure", "lock_release", "steady_sleep", "cancelled" }

-----------------------------------------------------------------------------
(* The engine processes.  Control endpoints are reached by port, so the    *)
(* engine that answers is the one that bound it, whichever variable of the *)
(* manager names it.                                                       *)

TextRoles   == {"text_full", "text_mixed"}
OnCard(p)   == life[p] # "down"                \* a process, with the memory it holds
Alive(p)    == life[p] \notin {"down", "killed"} \* ... that was not killed either
Port(roles) == {p \in Procs : role[p] \in roles /\ life[p] \in {"up", "asleep"}}
Healthy(roles) == Port(roles) # {}             \* GET /health answers 200
Serviceable == \E p \in Procs : role[p] = "vision" /\ life[p] = "up"

\* Popen: any identity that no process has and the other handle does not name.
Spawn(p, r, otherHandle) ==
  /\ ~OnCard(p) /\ p # otherHandle
  /\ role' = [role EXCEPT ![p] = r]
  /\ life' = [life EXCEPT ![p] = "loading"]

\* The calls a terminated, dead or sleeping engine was serving come back as errors.
DropCalls == call' = [r \in Requests |-> IF call[r] = "running" THEN "idle" ELSE call[r]]
CallsOf(p) == IF p \in Port({"vision"}) THEN DropCalls ELSE call' = call

\* POST /sleep, its errors suppressed.
SleepVision ==
  \/ /\ life' = [p \in Procs |-> IF p \in Port({"vision"}) THEN "asleep" ELSE life[p]]
     /\ DropCalls
  \/ "http" \in Faults /\ UNCHANGED <<life, call>>

\* Slip: None is terminated like a process.
TerminatedNone(p) ==
  [q \in Procs \cup {p} |-> IF q \notin Procs \/ (q = p /\ Alive(q)) THEN "stopping" ELSE life[q]]

\* _stop, its first half: SIGTERM.  The engine stops answering and takes its
\* time to exit.  Nothing happens to None or to a process that is gone.
Terminated(p) == [q \in Procs |-> IF q = p /\ Alive(q) THEN "stopping" ELSE life[q]]

\* _stop, its second half: how it leaves the engines when it returns.  It polls
\* until the process is gone; after the grace period it kills and does not wait.
StopResults(p) ==
  IF p \notin Procs \/ life[p] = "down" THEN {life}
  ELSE IF "grace" \in Faults THEN {[life EXCEPT ![p] = "killed"]} ELSE {}

-----------------------------------------------------------------------------
Init ==
  /\ strategy \in Strategies
  /\ mode = "stopped" /\ lock = Boot
  /\ textProc = NoProc /\ visionProc = NoProc
  /\ idle = TRUE                                \* _last_vision = 0.0
  /\ pc = [t \in Tasks |-> IF t = Boot THEN "spawn" ELSE "off"]
  /\ role = [p \in Procs |-> "none"] /\ life = [p \in Procs |-> "down"]
  /\ textBusy = FALSE
  /\ call = [r \in Requests |-> "idle"]
  /\ app = "starting"

Goto(t, from, to) == pc[t] = from /\ pc' = [pc EXCEPT ![t] = to]

\* Return from a method entered with the lock: release it, and when the task
\* is an ensure handler its response reaches the hook if the hook still waits.
Leave(t, from) ==
  /\ Goto(t, from, "off")
  /\ lock' = NoTask
  /\ call' = IF t \in Requests /\ call[t] = "waiting"
             THEN [call EXCEPT ![t] = "forward"] ELSE call

\* The text slice a task asks _launch_text for.
Goal(t) == IF t \in Releasers \/ (t = Boot /\ strategy = "c3b") THEN "text_full" ELSE "text_mixed"

-----------------------------------------------------------------------------
(* start                                                                   *)

BootSpawn ==
  /\ Goto(Boot, "spawn", "await_text")
  /\ \E p \in Procs : Spawn(p, Goal(Boot), visionProc) /\ textProc' = p
  /\ UNCHANGED <<strategy, mode, lock, visionProc, idle, textBusy, call, app>>

BootSleep ==
  /\ Goto(Boot, "boot_sleep", "off") /\ lock' = NoTask
  /\ SleepVision
  /\ mode' = "steady" /\ app' = "serving"
  /\ UNCHANGED <<strategy, textProc, visionProc, idle, role, textBusy>>

-----------------------------------------------------------------------------
(* VisionWakeHook.async_pre_call_hook and what the proxy does around it    *)

HookPost(r) ==
  /\ app = "serving" /\ call[r] = "idle"
  /\ Goto(r, "off", "lock_ensure")
  /\ call' = [call EXCEPT ![r] = "waiting"]
  /\ UNCHANGED <<managerVars, engineVars, app>>

\* No server to post to: the exception is swallowed and the call forwarded.
HookUnreachable(r) ==
  /\ app # "serving" /\ call[r] = "idle"
  /\ call' = [call EXCEPT ![r] = "forward"]
  /\ UNCHANGED <<managerVars, pc, engineVars, app>>

\* `except Exception: pass`: the call is forwarded while the handler goes on.
HookGivesUp(r) ==
  /\ "hook" \in Faults /\ call[r] = "waiting"
  /\ call' = [call EXCEPT ![r] = "forward"]
  /\ UNCHANGED <<managerVars, pc, engineVars, app>>

Forward(r) ==
  /\ call[r] = "forward"
  /\ call' = [call EXCEPT ![r] = IF Serviceable THEN "running" ELSE "idle"]
  /\ UNCHANGED <<managerVars, pc, engineVars, app>>

Finish(r) ==
  /\ call[r] = "running"
  /\ call' = [call EXCEPT ![r] = "idle"]
  /\ UNCHANGED <<managerVars, pc, engineVars, app>>

-----------------------------------------------------------------------------
(* ensure_vision                                                           *)

EnsureLocked(r) ==
  /\ lock = NoTask /\ lock' = r
  /\ idle' = FALSE
  /\ Goto(r, "lock_ensure", IF mode \in {"mixed", "steady"} THEN "wake" ELSE "drain")
  /\ UNCHANGED <<strategy, mode, textProc, visionProc, engineVars, call, app>>

\* POST /wake_up: the engine wakes (or the call fails, and nothing is said) ...
EnsureWake(r) ==
  /\ Goto(r, "wake", "woken")
  /\ \/ life' = [p \in Procs |-> IF p \in Port({"vision"}) THEN "up" ELSE life[p]]
     \/ "http" \in Faults /\ life' = life
  /\ UNCHANGED <<managerVars, role, textBusy, call, app>>

\* ... and the handler returns the mode it found.
EnsureReturn(r) ==
  /\ Leave(r, "woken")
  /\ UNCHANGED <<strategy, mode, textProc, visionProc, idle, engineVars, app>>

-----------------------------------------------------------------------------
(* _restart_text: shared by ensure_vision and maybe_release_vision         *)

\* The metrics show nothing running; an error of the call reads as 0 too.
Drained == ~textBusy \/ ~Healthy(TextRoles) \/ "http" \in Faults

\* The drain ends, or its deadline passes, and the text engine is terminated
\* with whatever it still runs.
Drain(t) ==
  /\ Goto(t, "drain", "stop_text")
  /\ Drained \/ "drain" \in Faults
  /\ life' = Terminated(textProc)
  /\ textBusy' = FALSE
  /\ UNCHANGED <<managerVars, role, call, app>>

\* Slip: the new engine is launched without waiting for the old one.
RestartUnwaited(t) ==
  /\ Goto(t, "stop_text", "await_text")
  /\ \E p \in Procs : Spawn(p, Goal(t), visionProc) /\ textProc' = p
  /\ UNCHANGED <<strategy, mode, lock, visionProc, idle, textBusy, call, app>>

\* _stop returns and _launch_text goes on to its first await.
RestartText(t) ==
  /\ Goto(t, "stop_text", "await_text")
  /\ \E after \in StopResults(textProc), p \in Procs :
       /\ after[p] = "down" /\ p # visionProc
       /\ role' = [role EXCEPT ![p] = Goal(t)]
       /\ life' = [after EXCEPT ![p] = "loading"]
       /\ textProc' = p
  /\ UNCHANGED <<strategy, mode, lock, visionProc, idle, textBusy, call, app>>

\* /health answers: start and maybe_release_vision record the mode, the other
\* paths go on with _launch_vision (which overwrites _vision_proc).
TextHealthy(t) ==
  /\ Healthy(TextRoles)
  /\ IF Goal(t) = "text_full"
     THEN /\ Leave(t, "await_text")
          /\ mode' = "text_full"
          /\ app' = IF t = Boot THEN "serving" ELSE app
          /\ UNCHANGED <<visionProc, role, life>>
     ELSE /\ Goto(t, "await_text", "await_vision")
          /\ \E p \in Procs : Spawn(p, "vision", textProc) /\ visionProc' = p
          /\ UNCHANGED <<mode, lock, call, app>>
  /\ UNCHANGED <<strategy, textProc, idle, textBusy>>

\* Slip: the launch of vision does not wait for /health.
VisionUnawaited(t) ==
  /\ IF t = Boot
     THEN Goto(t, "await_vision", "boot_sleep") /\ UNCHANGED <<mode, lock, call>>
     ELSE Leave(t, "await_vision") /\ mode' = "mixed"
  /\ UNCHANGED <<strategy, textProc, visionProc, idle, engineVars, app>>

VisionHealthy(t) ==
  /\ Healthy({"vision"})
  /\ IF t = Boot
     THEN Goto(t, "await_vision", "boot_sleep") /\ UNCHANGED <<mode, lock, call>>
     ELSE Leave(t, "await_vision") /\ mode' = "mixed"
  /\ UNCHANGED <<strategy, textProc, visionProc, idle, engineVars, app>>

\* Slip: the error path leaves the lock taken.
TimeoutKeepsLock(t) ==
  /\ "health" \in Faults
  /\ \/ Goto(t, "await_text", "off") /\ ~Healthy(TextRoles)
     \/ Goto(t, "await_vision", "off") /\ ~Healthy({"vision"})
  /\ app' = IF t = Boot THEN "aborted" ELSE app
  /\ UNCHANGED <<strategy, mode, lock, call, textProc, visionProc, idle, engineVars>>

\* _await_health raises TimeoutError: the lock is released and nothing else is
\* undone.  In start it aborts the application.
HealthTimeout(t) ==
  /\ "health" \in Faults
  /\ \/ Leave(t, "await_text") /\ ~Healthy(TextRoles)
     \/ Leave(t, "await_vision") /\ ~Healthy({"vision"})
  /\ app' = IF t = Boot THEN "aborted" ELSE app
  /\ UNCHANGED <<strategy, mode, textProc, visionProc, idle, engineVars>>

-----------------------------------------------------------------------------
(* maybe_release_vision                                                    *)

\* Slip: the tick returns early in MIXED.
TickSkipsMixed(t) ==
  /\ app = "serving" /\ idle /\ mode = "steady"
  /\ Goto(t, "off", "steady_sleep")
  /\ UNCHANGED <<managerVars, engineVars, call, app>>

\* The checks made before the lock is asked for.
ReleaseTick(t) ==
  /\ app = "serving" /\ idle /\ mode \in {"mixed", "steady"}
  /\ Goto(t, "off", IF mode = "steady" THEN "steady_sleep" ELSE "lock_release")
  /\ UNCHANGED <<managerVars, engineVars, call, app>>

\* Without the lock, after an await, whatever has happened since the check.
SteadySleep(t) ==
  /\ Goto(t, "steady_sleep", "off")
  /\ SleepVision
  /\ UNCHANGED <<managerVars, role, textBusy, app>>

\* Slip: the clock is not read again under the lock.
ReleaseUnchecked(t) ==
  /\ lock = NoTask
  /\ IF mode = "mixed"
     THEN Goto(t, "lock_release", "check_busy") /\ lock' = t
     ELSE Goto(t, "lock_release", "off") /\ lock' = lock
  /\ UNCHANGED <<strategy, mode, textProc, visionProc, idle, engineVars, call, app>>

ReleaseLocked(t) ==
  /\ lock = NoTask
  /\ IF mode = "mixed" /\ idle
     THEN Goto(t, "lock_release", "check_busy") /\ lock' = t
     ELSE Goto(t, "lock_release", "off") /\ lock' = lock
  /\ UNCHANGED <<strategy, mode, textProc, visionProc, idle, engineVars, call, app>>

\* _num_running(VISION_BASE_URL) > 0, where an error of the call reads as 0.
ReleaseCheckBusy(t) ==
  /\ \/ Leave(t, "check_busy") /\ \E r \in Requests : call[r] = "running"
     \/ /\ Goto(t, "check_busy", "sleep")
        /\ (\A r \in Requests : call[r] # "running") \/ "http" \in Faults
        /\ UNCHANGED <<lock, call>>
  /\ UNCHANGED <<strategy, mode, textProc, visionProc, idle, engineVars, app>>

\* POST /sleep lands ...
ReleaseSleep(t) ==
  /\ Goto(t, "sleep", "term_vision")
  /\ SleepVision
  /\ UNCHANGED <<managerVars, role, textBusy, app>>

\* Slip: the handle is cleared, the process is not stopped.
ReleaseForgets(t) ==
  /\ Goto(t, "term_vision", "drain")
  /\ visionProc' = NoProc
  /\ UNCHANGED <<strategy, mode, lock, textProc, idle, engineVars, call, app>>

\* ... its response comes and vision is terminated ...
ReleaseTerminate(t) ==
  /\ Goto(t, "term_vision", "stop_vision")
  /\ life' = Terminated(visionProc)
  /\ CallsOf(visionProc)
  /\ UNCHANGED <<managerVars, role, textBusy, app>>

\* Slip: the terminated engine is not waited for.
ReleaseUnwaited(t) ==
  /\ Goto(t, "stop_vision", "drain")
  /\ visionProc' = NoProc
  /\ UNCHANGED <<strategy, mode, lock, textProc, idle, engineVars, call, app>>

\* ... and _stop returns.
ReleaseStop(t) ==
  /\ Goto(t, "stop_vision", "drain")
  /\ life' \in StopResults(visionProc)
  /\ visionProc' = NoProc
  /\ UNCHANGED <<strategy, mode, lock, textProc, idle, role, textBusy, call, app>>

-----------------------------------------------------------------------------
(* Shutdown: uvicorn waits for the handlers, the lifespan cancels the      *)
(* watchdog wherever it is, then aclose() stops what the manager names,    *)
(* vision first.                                                           *)

Shutdown ==
  /\ CanShutdown /\ app = "serving"
  /\ \A t \in Tasks \ {Watchdog} : pc[t] = "off"
  /\ app' = "closing"
  /\ pc' = [pc EXCEPT ![Watchdog] = "cancelled"]
  /\ lock' = IF lock = Watchdog THEN NoTask ELSE lock
  /\ UNCHANGED <<strategy, mode, textProc, visionProc, idle, engineVars, call>>

CloseBegin ==
  /\ app = "closing" /\ app' = "close_vision"
  /\ life' = Terminated(visionProc)
  /\ CallsOf(visionProc)
  /\ UNCHANGED <<managerVars, pc, role, textBusy>>

\* Slip: vision is terminated and not waited for.
CloseUnwaited ==
  /\ app = "close_vision" /\ app' = "close_text"
  /\ life' = Terminated(textProc)
  /\ textBusy' = FALSE
  /\ UNCHANGED <<managerVars, pc, role, call>>

CloseText ==
  /\ app = "close_vision" /\ app' = "close_text"
  /\ \E after \in StopResults(visionProc) :
       life' = [q \in Procs |-> IF q = textProc /\ after[q] \notin {"down", "killed"}
                                THEN "stopping" ELSE after[q]]
  /\ textBusy' = FALSE
  /\ UNCHANGED <<managerVars, pc, role, call>>

Closed ==
  /\ app = "close_text" /\ app' = "closed"
  /\ life' \in StopResults(textProc)
  /\ UNCHANGED <<managerVars, pc, role, textBusy, call>>

-----------------------------------------------------------------------------
(* The engines, the clock and the text traffic                             *)

\* Another engine of the kind has bound the port of p.
PortTaken(p) ==
  \/ role[p] \in TextRoles /\ Healthy(TextRoles)
  \/ role[p] = "vision" /\ Healthy({"vision"})

EngineUp(p) ==
  /\ life[p] = "loading" /\ ~PortTaken(p)
  /\ life' = [life EXCEPT ![p] = "up"]
  /\ UNCHANGED <<managerVars, pc, role, textBusy, call, app>>

\* An engine that cannot bind its port exits, and so may one that finds the
\* memory of a killed engine still held; others may crash.
EngineExit(p) ==
  /\ life[p] \in {"loading", "up", "asleep"}
  /\ \/ "crash" \in Faults
     \/ life[p] = "loading" /\ (PortTaken(p) \/ \E q \in Procs : life[q] = "killed")
  /\ role' = [role EXCEPT ![p] = "none"] /\ life' = [life EXCEPT ![p] = "down"]
  /\ CallsOf(p)
  /\ textBusy' = (textBusy /\ p \notin Port(TextRoles))
  /\ UNCHANGED <<managerVars, pc, app>>

\* A terminated or killed engine is gone.
EngineGone(p) ==
  /\ life[p] \in {"stopping", "killed"}
  /\ role' = [role EXCEPT ![p] = "none"] /\ life' = [life EXCEPT ![p] = "down"]
  /\ UNCHANGED <<managerVars, pc, textBusy, call, app>>

\* VISION_IDLE_S passes, whatever the tasks are doing meanwhile.
IdleElapses ==
  /\ ~idle /\ idle' = TRUE
  /\ UNCHANGED <<strategy, mode, lock, textProc, visionProc, pc, engineVars, call, app>>

TextTraffic ==
  /\ Healthy(TextRoles)
  /\ textBusy' = ~textBusy
  /\ UNCHANGED <<managerVars, pc, role, life, call, app>>

EngineLoads(p) == life[p] = "loading" /\ (EngineUp(p) \/ EngineExit(p))

-----------------------------------------------------------------------------
Ensure(r)  == EnsureLocked(r) \/ EnsureWake(r) \/ EnsureReturn(r)
Release(t) == \/ ReleaseTick(t) \/ SteadySleep(t) \/ ReleaseLocked(t) \/ ReleaseCheckBusy(t)
              \/ ReleaseSleep(t) \/ ReleaseTerminate(t) \/ ReleaseStop(t)
Restart(t) == Drain(t) \/ RestartText(t)
Await(t)   == TextHealthy(t) \/ VisionHealthy(t) \/ HealthTimeout(t)

Next ==
  \/ BootSpawn \/ BootSleep
  \/ \E r \in Requests : HookPost(r) \/ HookUnreachable(r) \/ HookGivesUp(r) \/ Forward(r) \/ Finish(r) \/ Ensure(r)
  \/ \E t \in Releasers : Release(t)
  \/ \E t \in Requests \cup Releasers : Restart(t)
  \/ \E t \in Tasks : Await(t)
  \/ Shutdown \/ CloseBegin \/ CloseText \/ Closed
  \/ \E p \in Procs : EngineUp(p) \/ EngineExit(p) \/ EngineGone(p)
  \/ IdleElapses \/ TextTraffic

Spec == Init /\ [][Next]_vars

\* asyncio runs every ready coroutine and asyncio.Lock wakes its waiters in
\* FIFO order (hence strong fairness where a step waits for the lock); an
\* engine that was launched comes up or exits, one that was terminated or killed
\* goes (the former may be killed first); the watchdog ticks for ever.  Calls,
\* text traffic, faults, the passing of VISION_IDLE_S and the end of a running
\* call owe nothing.
Fairness ==
  /\ WF_vars(BootSpawn) /\ WF_vars(BootSleep)
  /\ \A r \in Requests :
       /\ SF_vars(EnsureLocked(r)) /\ WF_vars(EnsureWake(r)) /\ WF_vars(EnsureReturn(r))
       /\ WF_vars(Forward(r))
  /\ \A t \in Releasers :
       /\ SF_vars(ReleaseLocked(t)) /\ WF_vars(SteadySleep(t)) /\ WF_vars(ReleaseCheckBusy(t))
       /\ WF_vars(ReleaseSleep(t)) /\ WF_vars(ReleaseTerminate(t)) /\ WF_vars(ReleaseStop(t))
  /\ WF_vars(ReleaseTick(Watchdog))
  /\ \A t \in Requests \cup Releasers : WF_vars(Restart(t))
  /\ \A t \in Tasks : WF_vars(Await(t))
  /\ \A p \in Procs : WF_vars(EngineLoads(p)) /\ WF_vars(EngineGone(p))

FairSpec == Spec /\ Fairness

-----------------------------------------------------------------------------
(* Properties                                                              *)

\* Every variable keeps its type.
TypeOK ==
  /\ strategy \in Strategies /\ mode \in Modes /\ lock \in Tasks \cup {NoTask}
  /\ textProc \in Procs \cup {NoProc} /\ visionProc \in Procs \cup {NoProc}
  /\ idle \in BOOLEAN /\ textBusy \in BOOLEAN
  /\ pc \in [Tasks -> Inside \cup Outside]
  /\ role \in [Procs -> Roles] /\ life \in [Procs -> Lives]
  /\ call \in [Requests -> Calls] /\ app \in Apps

\* A text engine is launched only when the one before it is gone or was killed
\* (_restart_text over _stop), so no two of them live at once, whatever times
\* out, crashes, outlasts its grace period or interleaves.
OneTextEngine ==
  \A p, q \in Procs : Alive(p) /\ Alive(q) /\ role[p] \in TextRoles /\ role[q] \in TextRoles => p = q

\* The utilisations of the engines that hold the card fit on it, those that are
\* still stopping included: one engine of each kind, and vision never next to a
\* text engine at the FULL slice, in every step of every transition
\* (model_manager.py:7-9).
GpuFits ==
  \A p, q \in Procs : OnCard(p) /\ OnCard(q) =>
    /\ role[p] \in TextRoles /\ role[q] \in TextRoles => p = q
    /\ role[p] = "vision" /\ role[q] = "vision" => p = q
    /\ ~(role[p] = "text_full" /\ role[q] = "vision")

\* Between transitions the mode is the one the table of model_manager.py:7-9
\* describes: which engines exist, at which slice.
ModeTruthful ==
  lock = NoTask /\ app = "serving" =>
    /\ mode = "text_full" => /\ Port({"text_full"}) # {}
                             /\ \A p \in Procs : Alive(p) => role[p] # "vision"
    /\ mode = "mixed"     => Port({"text_mixed"}) # {} /\ Serviceable
    /\ mode = "steady"    => Port({"text_mixed"}) # {} /\ Port({"vision"}) # {}

\* ensure_vision makes vision serviceable: whenever its handler returns MIXED
\* or STEADY, an awake vision engine has its port at that moment.
ReportedServiceable ==
  [][ \A r \in Requests : lock = r /\ lock' # r /\ mode' \in {"mixed", "steady"} => Serviceable' ]_vars

\* maybe_release_vision acts only after VISION_IDLE_S of no vision activity:
\* no step of a serving manager takes a serviceable vision away before that.
FreshVisionStaysUp ==
  [][ app = "serving" /\ ~idle /\ Serviceable => Serviceable' ]_vars

\* What the comment at model_manager.py:235 says of the busy check and the
\* re-check under the lock, "don't tear down if a request snuck in or vision is
\* still busy": vision is not slept or stopped while it is serving a call.
RunningCallsSpared ==
  [][ app = "serving" /\ Serviceable /\ (\E r \in Requests : call[r] = "running") => Serviceable' ]_vars

\* aclose stops everything the manager launched, even when the watchdog was
\* cancelled in the middle of a transition: what is left was killed and is dying.
NothingOutlivesClose == app = "closed" => \A p \in Procs : ~Alive(p)

\* The C3b manager is the lease service of VisionLease: vision is brought up
\* for a handler, every answer finds it up, and it goes away only after the
\* idle time or with the manager.
Lease == INSTANCE VisionLease WITH
  Clients <- Requests,
  up      <- Serviceable,
  expired <- idle,
  asking  <- {r \in Requests : pc[r] # "off"},
  open    <- app \in {"starting", "serving"}

ImplementsLease == Lease!Spec

\* `async with self._lock` on every path, exceptions included: the lock is taken
\* exactly while its holder is inside, and a call that waits for /ensure-vision
\* has a handler that holds the lock or asks for it.
LockKept ==
  /\ lock # NoTask => pc[lock] \in Inside
  /\ \A t \in Tasks : pc[t] \in Inside => lock = t
  /\ \A r \in Requests : call[r] = "waiting" => lock = r \/ pc[r] = "lock_ensure"

\* Every call that waits for /ensure-vision is answered, however long the lock
\* is contended and however busy the text engine stays.
EnsureReturns == \A r \in Requests : call[r] = "waiting" ~> call[r] # "waiting"

\* The watchdog gives the full slice back: once engines stop missing their health
\* deadline, a MIXED that has outlived VISION_IDLE_S does not last unless vision is
\* used again, stays busy, or the server goes.
SliceReturns ==
  (<>[][\A t \in Tasks : ~HealthTimeout(t)]_vars)
    => (mode = "mixed" ~> \/ mode = "text_full" \/ ~idle \/ app # "serving"
                          \/ \E r \in Requests : call[r] = "running")
=============================================================================
