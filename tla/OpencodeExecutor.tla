--------------------------- MODULE OpencodeExecutor ---------------------------
(***************************************************************************)
(* agent/opencode_tool.py: opencode_run holds a permit of the module-level *)
(* semaphore while the `opencode` process it launched runs.  Its caller    *)
(* may cancel it at any await (the research intern wraps it in wait_for);  *)
(* the process is the operating system's and ends when it likes.           *)
(***************************************************************************)
EXTENDS FifoSemaphore

CONSTANTS
  Procs,      \* identities of opencode processes
  NoProc,     \* no process yet
  CancelAt    \* the awaits at which callers may cancel a run

\* The awaits of opencode_run.
Awaits == {"waiting", "spawning", "communicate", "killed"}

ASSUME ExecutorAssumption ==
  /\ IsFiniteSet(Procs) /\ NoProc \notin Procs
  /\ CancelAt \subseteq Awaits

VARIABLES
  at,    \* the await at which each run is suspended
  proc,  \* the `proc` of each run
  alive  \* the opencode processes that run

vars == <<semVars, at, proc, alive>>

Places == {"idle"} \cup Awaits

\* Inside `async with _SEM`.
Holding == {c \in Calls : at[c] \in {"spawning", "communicate", "killed"}}

Init ==
  /\ SemInit
  /\ at = [c \in Calls |-> "idle"]
  /\ proc = [c \in Calls |-> NoProc] /\ alive = {}

Move(c, from, to) == at[c] = from /\ at' = [at EXCEPT ![c] = to]

\* Leave `async with _SEM`, by whatever exit.
Exit(c, from) ==
  /\ Move(c, from, "idle") /\ Release
  /\ proc' = [proc EXCEPT ![c] = NoProc]

-----------------------------------------------------------------------------
\* Slip: the process is launched outside the semaphore.
RunUncapped(c) ==
  /\ Move(c, "idle", "spawning")
  /\ UNCHANGED <<semVars, proc, alive>>

\* A call whose cwd is no directory returns at once and changes nothing.
Run(c) ==
  /\ \/ Move(c, "idle", "spawning") /\ Take
     \/ Move(c, "idle", "waiting") /\ Enqueue(c)
  /\ UNCHANGED <<proc, alive>>

Proceed(c) ==
  /\ Move(c, "waiting", "spawning") /\ Resume(c)
  /\ UNCHANGED <<proc, alive>>

Spawned(c) ==
  /\ Move(c, "spawning", "communicate")
  /\ \E p \in Procs \ alive :
       /\ \A d \in Calls : proc[d] # p
       /\ proc' = [proc EXCEPT ![c] = p] /\ alive' = alive \cup {p}
  /\ UNCHANGED semVars

\* Slip: the early return keeps the permit.
NotFoundKeeps(c) ==
  /\ Move(c, "spawning", "idle")
  /\ proc' = [proc EXCEPT ![c] = NoProc]
  /\ UNCHANGED <<semVars, alive>>

\* FileNotFoundError: the CLI is not installed.
NotFound(c) == Exit(c, "spawning") /\ UNCHANGED alive

\* communicate() returns when the process has exited.
Communicated(c) == proc[c] \notin alive /\ Exit(c, "communicate") /\ UNCHANGED alive

\* Slip: the timeout returns without killing the process.
TimeoutSpares(c) ==
  /\ Move(c, "communicate", "killed")
  /\ UNCHANGED <<semVars, proc, alive>>

\* Slip: communicate() is awaited without a timeout.
NeverTimesOut(c) == FALSE

\* The run's own timeout: proc.kill(), then `await proc.wait()`.
TimedOut(c) ==
  /\ Move(c, "communicate", "killed")
  /\ alive' = alive \ {proc[c]}
  /\ UNCHANGED <<semVars, proc>>

Reaped(c) == Exit(c, "killed") /\ UNCHANGED alive

\* CancelledError leaves through `async with` wherever it strikes.  While the
\* process is being created asyncio kills it; at communicate() nobody does.
Cancelled(c) ==
  /\ at[c] \in CancelAt
  /\ \/ Move(c, "waiting", "idle") /\ Withdraw(c) /\ proc' = proc
     \/ \E from \in Awaits \ {"waiting"} : Exit(c, from)
  /\ UNCHANGED alive

ProcessEnds(p) ==
  /\ p \in alive /\ alive' = alive \ {p}
  /\ UNCHANGED <<semVars, at, proc>>

Next ==
  \/ \E c \in Calls :
       Run(c) \/ Proceed(c) \/ Spawned(c) \/ NotFound(c) \/ Communicated(c)
       \/ TimedOut(c) \/ Reaped(c) \/ Cancelled(c)
  \/ \E p \in Procs : ProcessEnds(p)

Spec == Init /\ [][Next]_vars

\* A coroutine that can go on does, creating the process ends one way or the
\* other, and the run's timeout fires.  The process itself need not end.
FairSpec ==
  /\ Spec
  /\ \A c \in Calls :
       /\ WF_vars(Proceed(c)) /\ WF_vars(Spawned(c) \/ NotFound(c))
       /\ WF_vars(Communicated(c) \/ TimedOut(c)) /\ WF_vars(Reaped(c))

-----------------------------------------------------------------------------
(* Properties                                                              *)

\* Every variable keeps its type.
TypeOK ==
  /\ SemTypeOK
  /\ at \in [Calls -> Places]
  /\ proc \in [Calls -> Procs \cup {NoProc}]
  /\ alive \in SUBSET Procs

\* "Hold a permit for the subprocess's whole lifetime so at most
\* _MAX_PARALLEL run concurrently."
ProcessesCapped == Cardinality(alive) <= Max

\* "async with guarantees the permit is released on every exit path": between
\* the free permits, those on their way and those of the runs inside, none is
\* lost and none is made, cancellation included.
PermitsConserved == value + Cardinality(woken) + Cardinality(Holding) = Max

\* No process outlives its run.
NoOrphan == \A p \in alive : \E c \in Calls : at[c] = "communicate" /\ proc[c] = p

\* The processes that a run waits for; the others are orphans.
Attended == {p \in alive : \E c \in Calls : at[c] = "communicate" /\ proc[c] = p}

\* Wherever runs are cancelled, the permits cap the processes that a run waits
\* for: what exceeds Max are orphans ...
AttendedCapped == Cardinality(Attended) <= Max

\* ... and a process is orphaned only when its own run leaves communicate() with
\* the process still alive: one for each run cancelled there, never another's.
OrphanedByItsRun ==
  [][ \A p \in alive' : p \notin Attended' =>
        \/ p \in alive /\ p \notin Attended
        \/ \E c \in Calls : at[c] = "communicate" /\ proc[c] = p /\ at'[c] = "idle" ]_vars

\* The executor is a bounded pool of runs.
Pool == INSTANCE BoundedPool WITH
  Users <- Calls, waiting <- {c \in Calls : at[c] = "waiting"}, active <- Holding
ImplementsPool == Pool!Spec

\* Every opencode_run returns, however long its process runs and however many
\* wait before it: the timeout of each run bounds the wait of the next.
RunsReturn == \A c \in Calls : at[c] # "idle" ~> at[c] = "idle"
=============================================================================
