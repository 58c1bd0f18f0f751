--------------------------- MODULE ModelManagerInv ---------------------------
(* The inductive invariants behind the theorems of ModelManagerProofs.      *)
EXTENDS ModelManager

NoVision == \A p \in Procs : Alive(p) => role[p] # "vision"
NoFull   == \A p \in Procs : Alive(p) => role[p] # "text_full"

\* Every text engine that lives is the one _text_proc names.
TextTracked == \A p \in Procs : Alive(p) /\ role[p] \in TextRoles => p = textProc

\* Before start() has launched anything, nothing exists and nobody else runs.
BootFirst ==
  pc[Boot] = "spawn" =>
    /\ app = "starting"
    /\ \A t \in Tasks \ {Boot} : pc[t] = "off"
    /\ \A p \in Procs : ~OnCard(p)

\* Inductive in every environment; implies OneTextEngine.
TextInvariant == TypeOK /\ TextTracked /\ BootFirst

-----------------------------------------------------------------------------
\* self._lock: exactly the task inside the critical section holds it.
LockHeld == \A t \in Tasks : pc[t] \in Inside <=> lock = t

\* The states each kind of task passes through.
TaskStates ==
  /\ \A r \in Requests : pc[r] \in {"off", "lock_ensure", "wake", "woken", "drain", "stop_text",
                                    "await_text", "await_vision"}
  /\ \A t \in Releasers : pc[t] \in {"off", "lock_release", "steady_sleep", "check_busy", "sleep",
                                     "term_vision", "stop_vision", "drain", "stop_text", "await_text",
                                     "cancelled"}
  /\ pc[Boot] \in {"spawn", "await_text", "await_vision", "boot_sleep", "off"}

\* What the lifespan's phase says about the tasks.
AppPhases ==
  /\ app = "starting" => lock = Boot /\ \A t \in Tasks \ {Boot} : pc[t] = "off"
  /\ app # "starting" => pc[Boot] = "off"
  /\ app \notin {"starting", "serving"} => \A t \in Tasks : pc[t] \in {"off", "cancelled"}

\* Inductive in every environment: the part of the state that is control only.
Control == LockHeld /\ TaskStates /\ AppPhases

\* Inductive in every environment; implies LockKept.
LockInvariant == TypeOK /\ Control /\ LockKept

VisionTracked == \A p \in Procs : Alive(p) /\ role[p] = "vision" => p = visionProc

\* Which of the two dangerous kinds of engine is absent, by where the holder
\* of the lock is, and by the mode when there is no holder.
Absent ==
  /\ NoVision \/ NoFull
  /\ \A t \in Tasks :
       /\ pc[t] \in {"drain", "stop_text", "await_text"} => NoVision
       /\ pc[t] = "await_text" /\ Goal(t) = "text_mixed" => NoFull
       /\ pc[t] \in {"wake", "woken", "await_vision", "boot_sleep", "check_busy", "sleep", "term_vision",
                    "stop_vision"} => NoFull
       /\ pc[t] \in {"wake", "woken"} => mode \in {"mixed", "steady"}
       /\ pc[t] = "check_busy" => mode = "mixed"
  /\ lock = NoTask /\ app = "serving" =>
       /\ mode \in {"text_full", "stopped"} => NoVision
       /\ mode \in {"mixed", "steady"} => NoFull

\* Inductive as long as no health wait times out; implies GpuFits when besides
\* no engine has to be killed.
BudgetInvariant ==
  TextInvariant /\ Control /\ app # "aborted" /\ VisionTracked /\ Absent

\* Every engine goes within its grace period.
NoneKilled == \A p \in Procs : life[p] # "killed"

-----------------------------------------------------------------------------
\* Where vision is loading, asleep or serving under C3b.
VisionStates ==
  /\ \A p \in Procs :
       /\ role[p] = "vision" /\ life[p] = "loading" => \E r \in Requests : pc[r] = "await_vision"
       /\ role[p] = "vision" /\ life[p] = "asleep"  =>
            app \notin {"starting", "serving"} \/ \E t \in Releasers : pc[t] = "term_vision"
  /\ \A t \in Tasks : pc[t] \in {"wake", "woken", "check_busy", "sleep"} => Serviceable
  /\ lock = NoTask /\ app = "serving" /\ mode = "mixed" => Serviceable

\* The release path runs with the idle time over, and C3b never enters STEADY.
ReleasePath ==
  /\ \A t \in Tasks : pc[t] \in {"check_busy", "sleep", "term_vision", "stop_vision"} => idle
  /\ \A t \in Tasks : pc[t] # "steady_sleep"
  /\ pc[Boot] \notin {"await_vision", "boot_sleep"}
  /\ mode # "steady"

\* Inductive under C3b while no health wait times out and no engine crashes.
ServiceInvariant == strategy = "c3b" /\ BudgetInvariant /\ VisionStates /\ ReleasePath

-----------------------------------------------------------------------------
\* Which text engine has its port, while somebody waits for it or relies on it.
TextStates ==
  /\ \A t \in Tasks :
       /\ pc[t] = "await_text" => \A p \in Procs : Alive(p) /\ role[p] \in TextRoles => role[p] = Goal(t)
       /\ pc[t] \in {"await_vision", "boot_sleep", "wake", "woken", "check_busy", "sleep"} =>
            Port({"text_mixed"}) # {}
  /\ lock = NoTask /\ app = "serving" =>
       /\ mode = "text_full" => Port({"text_full"}) # {}
       /\ mode \in {"mixed", "steady"} => Port({"text_mixed"}) # {}

\* C3a takes neither engine down once both are up.
SteadyStates ==
  strategy = "c3a" =>
    /\ mode \in {"stopped", "steady"} /\ (app # "starting" => mode = "steady")
    /\ \A t \in Tasks : pc[t] \notin {"check_busy", "sleep", "term_vision", "stop_vision", "drain", "stop_text"}
    /\ \A t \in Tasks \ {Boot} : pc[t] \notin {"await_text", "await_vision"}
    /\ pc[Boot] = "boot_sleep" \/ app = "serving" => Port({"vision"}) # {}

\* Inductive while no health wait times out and no engine crashes; with
\* ServiceInvariant for C3b it implies ModeTruthful.
ModeInvariant == BudgetInvariant /\ TextStates /\ SteadyStates

\* Every process that lives was launched as something, so that one of the two
\* handles names it; inductive without health timeouts.
Launched == \A p \in Procs : Alive(p) => role[p] # "none"
VisionClosed == app \in {"close_text", "closed"} => NoVision
CloseInvariant == BudgetInvariant /\ Launched /\ VisionClosed /\ NothingOutlivesClose
=============================================================================
