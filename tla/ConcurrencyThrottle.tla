-------------------------- MODULE ConcurrencyThrottle --------------------------
(***************************************************************************)
(* agent/plugins/concurrency_throttle_plugin.py: the permit is taken in    *)
(* before_tool_callback and returned in after_tool_callback, two callbacks *)
(* that the framework pairs or, when something goes wrong, does not.       *)
(* A call may come from inside another: a subagent that was given the      *)
(* dispatcher calls subagents of its own.                                  *)
(***************************************************************************)
EXTENDS FifoSemaphore

CONSTANTS
  Parent,  \* the call inside which a call is made, NoCall for the orchestrator's
  NoCall,
  Faults   \* how the pairing may fail, see FaultKinds

FaultKinds ==
  { "cancel",     \* the turn is cancelled while its call waits for a permit
    "lost",       \* the tool ends and after_tool_callback does not fire
    "unpaired" }  \* after_tool_callback fires for a call that was not let in here

ASSUME ThrottleAssumption ==
  /\ NoCall \notin Calls
  /\ Parent \in [Calls -> Calls \cup {NoCall}]
  /\ Faults \subseteq FaultKinds

VARIABLES
  held,  \* self._held
  at     \* where each gated call is

vars == <<semVars, held, at>>

\* The calls that call: every other call is a leaf.
Dispatchers == {Parent[c] : c \in Calls} \ {NoCall}

Waiting == {c \in Calls : at[c] = "waiting"}
Active  == {c \in Calls : at[c] = "tool"}

Init ==
  /\ SemInit /\ held = 0
  /\ at = [c \in Calls |-> "idle"]

Move(c, from, to) == at[c] = from /\ at' = [at EXCEPT ![c] = to]

MayCall(c) == Parent[c] \in Active \cup {NoCall}
MayEnd(c)  == \A d \in Calls : Parent[d] = c => at[d] = "idle"

-----------------------------------------------------------------------------
\* Slip: a call that cannot have a permit at once goes on without one.
BeforeUnblocked(c) ==
  /\ MayCall(c) /\ Move(c, "idle", "tool") /\ held' = held + 1
  /\ IF Locked THEN UNCHANGED semVars ELSE Take

\* before_tool_callback: the permit is there, or the callback suspends.
BeforeTool(c) ==
  /\ MayCall(c)
  /\ \/ Move(c, "idle", "tool") /\ Take /\ held' = held + 1
     \/ Move(c, "idle", "waiting") /\ Enqueue(c) /\ held' = held

\* Slip: the permit of a call that had to wait is not counted in _held.
ProceedUncounted(c) == Move(c, "waiting", "tool") /\ Resume(c) /\ held' = held

\* ... and goes on when its permit comes.
Proceed(c) == Move(c, "waiting", "tool") /\ Resume(c) /\ held' = held + 1

\* Slip: the count goes down, the semaphore is not released.
ReturnUnreleased == held' = held - 1 /\ UNCHANGED semVars

\* Slip: the semaphore is released though nothing is held.
ReturnUnguarded == held' = (IF held > 0 THEN held - 1 ELSE 0) /\ Release

\* after_tool_callback with its guard.
Return ==
  IF held > 0 THEN held' = held - 1 /\ Release ELSE UNCHANGED <<held, semVars>>

AfterTool(c) == MayEnd(c) /\ Move(c, "tool", "idle") /\ Return

-----------------------------------------------------------------------------
(* What the framework may do instead                                       *)

Cancelled(c) ==
  /\ "cancel" \in Faults
  /\ Move(c, "waiting", "idle") /\ Withdraw(c) /\ held' = held

\* Cancelled or raising in the tool, or another plugin ended the chain.
AfterLost(c) ==
  /\ "lost" \in Faults /\ MayEnd(c)
  /\ Move(c, "tool", "idle") /\ UNCHANGED <<held, semVars>>

\* An earlier plugin answered the call, so ours saw only its end.
AfterUnpaired(c) ==
  /\ "unpaired" \in Faults /\ MayCall(c)
  /\ at[c] = "idle" /\ at' = at /\ Return

Next ==
  \E c \in Calls :
    BeforeTool(c) \/ Proceed(c) \/ AfterTool(c)
    \/ Cancelled(c) \/ AfterLost(c) \/ AfterUnpaired(c)

Spec == Init /\ [][Next]_vars

\* A woken coroutine runs, and a gated tool whose own calls have ended returns
\* ("it returns an error dict on failure").  Nobody has to call.
FairSpec == Spec /\ \A c \in Calls : WF_vars(Proceed(c)) /\ WF_vars(AfterTool(c))

-----------------------------------------------------------------------------
(* Properties                                                              *)

\* Every variable keeps its type.
TypeOK ==
  /\ SemTypeOK /\ held \in Nat
  /\ at \in [Calls -> {"idle", "waiting", "tool"}]

\* At most Max gated calls run or are about to ("bounds the number of
\* concurrent HEAVY tool calls"), counting those whose permit is on its way.
CapHolds == Cardinality(Active \cup woken) <= Max

\* "_held guards against over-release": between the free permits, those on
\* their way and those that _held counts, none is lost and none is made, even
\* when callbacks are lost or come unpaired.
PermitsConserved == value + Cardinality(woken) + held = Max

\* _held counts the calls in the tool: with paired callbacks every permit is
\* back once the last call has ended, whatever was cancelled in the queue.
HeldExact == held = Cardinality(Active)

\* A lost after_tool_callback costs its permit and no other: the calls in the
\* tool stay counted, so the cap can shrink but never grow.
LossOnlyShrinks == Cardinality(Active) <= held

\* A queued call waits for somebody: a permit is on its way, or a call in the
\* tool can end and return its own, or else every permit is with a dispatcher
\* (and waits, as MayEnd says, for calls it has made itself).
StallIsNested ==
  Waiting # {} /\ woken = {} /\ (\A c \in Active : ~MayEnd(c))
    => Active \subseteq Dispatchers /\ Cardinality(Active) = Max

\* With fewer dispatchers than permits nobody waits for nobody: while a call is
\* queued, a permit is on its way or a call in the tool can end.
NoStall == Waiting # {} => woken # {} \/ \E c \in Active : MayEnd(c)

\* The throttle is a bounded pool.
Pool == INSTANCE BoundedPool WITH Users <- Calls, waiting <- Waiting, active <- Active
ImplementsPool == Pool!Spec

\* "the system caps concurrency, so extra calls just queue": a queued call
\* gets its turn.
QueuedCallsRun == \A c \in Calls : at[c] = "waiting" ~> at[c] # "waiting"
=============================================================================
