------------------------- MODULE MCConcurrencyThrottle -------------------------
(***************************************************************************)
(* Two instances of the throttle for TLC: calls whose callbacks are paired *)
(* and any of which is cancelled while it waits, and calls whose callbacks *)
(* are lost or come unpaired.  The instances share nothing, so each is     *)
(* explored while the other has not begun.                                 *)
(***************************************************************************)
EXTENDS ConcurrencyThrottle, TLC

CONSTANTS c1, c2, c3, c4, c5, c6, noCall

FiveCalls == {c1, c2, c3, c4, c5}
SixCalls  == FiveCalls \cup {c6}

\* Two subagents, each with a call of its own, and a third call of the orchestrator.
Mixed == (c1 :> noCall) @@ (c2 :> noCall) @@ (c3 :> c1) @@ (c4 :> c2) @@ (c5 :> noCall)

\* The first subagent fans out.
Wide == Mixed @@ (c6 :> c1)

VARIABLES fvalue, fqueue, fwoken, fheld, fat

Faulty ==
  INSTANCE ConcurrencyThrottle WITH
    Calls <- FiveCalls, Parent <- Mixed, Faults <- {"cancel", "lost", "unpaired"},
    value <- fvalue, queue <- fqueue, woken <- fwoken, held <- fheld, at <- fat

faultyVars == <<fvalue, fqueue, fwoken, fheld, fat>>

PairInit == Init /\ Faulty!Init
PairNext ==
  \/ Next /\ Faulty!Init /\ UNCHANGED faultyVars
  \/ Faulty!Next /\ Init /\ UNCHANGED vars

\* Only the paired calls are scheduled fairly.
PairSpec ==
  /\ PairInit /\ [][PairNext]_<<vars, faultyVars>>
  /\ \A c \in Calls : WF_vars(Proceed(c)) /\ WF_vars(AfterTool(c))

\* "_held guards against over-release": with callbacks that are lost or come
\* unpaired no permit is made and none is lost between the semaphore and _held.
FaultyPermits == Faulty!PermitsConserved

\* No queued call sleeps while a permit is free, whatever goes wrong with the
\* callbacks of other calls.
FaultyWakeups == Faulty!NoLostWakeup
=============================================================================
