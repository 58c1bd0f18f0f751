----------------------------- MODULE FifoSemaphore -----------------------------
(***************************************************************************)
(* asyncio.Semaphore as the agent uses it: agent/opencode_tool.py takes it *)
(* with `async with`, the throttle plugin with acquire() and release() in  *)
(* two callbacks.  release() hands the permit to the oldest waiter before  *)
(* that waiter runs again, so a permit may be with a call that has not     *)
(* resumed yet; a newcomer queues behind such a call even when a permit is *)
(* free.                                                                   *)
(***************************************************************************)
EXTENDS Naturals, FiniteSets, Sequences

CONSTANTS
  Calls,  \* the calls that may want a permit
  Max     \* the permits

ASSUME SemaphoreAssumption == IsFiniteSet(Calls) /\ Max \in Nat \ {0}

VARIABLES
  value,  \* permits nobody has
  queue,  \* the futures of the waiters, oldest first
  woken   \* the waiters that were handed a permit and have not resumed

semVars == <<value, queue, woken>>

SemInit == value = Max /\ queue = <<>> /\ woken = {}

Locked == value = 0 \/ queue # <<>> \/ woken # {}

\* acquire() without suspending.
Take == ~Locked /\ value' = value - 1 /\ UNCHANGED <<queue, woken>>

Enqueue(c) == Locked /\ queue' = Append(queue, c) /\ UNCHANGED <<value, woken>>

\* Slip: the permit is handed over and counted as free too.
HandOnAndKeep(awake) ==
  IF queue = <<>>
  THEN value' = value + 1 /\ woken' = awake /\ queue' = queue
  ELSE value' = value + 1 /\ woken' = awake \cup {Head(queue)} /\ queue' = Tail(queue)

\* _wake_up_next with a permit in hand, `awake` being the waiters still to resume.
HandOn(awake) ==
  IF queue = <<>>
  THEN value' = value + 1 /\ woken' = awake /\ queue' = queue
  ELSE value' = value /\ woken' = awake \cup {Head(queue)} /\ queue' = Tail(queue)

Release == HandOn(woken)

\* Slip: a free permit is not passed on to the next waiter.
ResumeSilent(c) == c \in woken /\ woken' = woken \ {c} /\ UNCHANGED <<value, queue>>

\* acquire() after its await: it wakes one more waiter when a permit is free.
Resume(c) ==
  /\ c \in woken
  /\ IF value > 0 /\ queue # <<>>
     THEN /\ value' = value - 1
          /\ woken' = (woken \ {c}) \cup {Head(queue)} /\ queue' = Tail(queue)
     ELSE woken' = woken \ {c} /\ UNCHANGED <<value, queue>>

\* CancelledError inside acquire(): a permit already handed over is passed on.
Withdraw(c) ==
  \/ c \in woken /\ HandOn(woken \ {c})
  \/ \E i \in DOMAIN queue :
       /\ queue[i] = c
       /\ queue' = SubSeq(queue, 1, i - 1) \o SubSeq(queue, i + 1, Len(queue))
       /\ UNCHANGED <<value, woken>>

SemTypeOK == value \in 0..Max /\ queue \in Seq(Calls) /\ woken \in SUBSET Calls

\* A permit is never free while calls wait for one, unless a waiter that is
\* about to resume will pass it on: nobody sleeps through a release.
NoLostWakeup == value > 0 /\ queue # <<>> => woken # {}

\* First come, first served: a permit is handed to the oldest waiter only, and
\* whoever joins, gives up or resumes, no waiter moves back in the queue.
InTurn ==
  /\ \A c \in woken' \ woken : queue # <<>> /\ c = Head(queue)
  /\ \A i \in DOMAIN queue, j \in DOMAIN queue' : queue'[j] = queue[i] => j <= i
FirstComeFirstServed == [][InTurn]_semVars
=============================================================================
