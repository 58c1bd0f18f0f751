------------------------------ MODULE VoiceDigest ------------------------------
(***************************************************************************)
(* voice/bot.py and voice/paperclip.py: a voice call keeps a snapshot of   *)
(* every company's status in its system message.  It is fetched when the   *)
(* call is set up and again, in the background, when the operator begins a *)
(* turn; the control plane answers late, with an error or never, and its   *)
(* answers may arrive in another order than they were made in.             *)
(***************************************************************************)
EXTENDS Naturals

CONSTANTS
  MaxTurns,  \* turns of a call
  MaxBoard   \* changes of the companies' status

ASSUME VoiceAssumption == MaxTurns \in Nat /\ MaxBoard \in Nat

VARIABLES
  board,    \* the status that the control plane would answer with now
  call,     \* run_bot: setup, live, ended
  turn,     \* user turns so far
  task,     \* refresh_task: the turn that made it, 0 for None
  fetch,    \* fetch_digest: of the setup (0) and of the turns
  digest,   \* what each of them was answered
  shown     \* the status in the system message, 0 when it holds none

voiceVars == <<board, call, turn, task, fetch, digest, shown>>

Fetches == 0..MaxTurns

VoiceInit ==
  /\ board = 1 /\ call = "setup" /\ turn = 0 /\ task = 0 /\ shown = 0
  /\ fetch = [k \in Fetches |-> IF k = 0 THEN "asked" ELSE "none"]
  /\ digest = [k \in Fetches |-> 0]

NewCall ==
  /\ turn' = 0 /\ task' = 0 /\ shown' = 0
  /\ fetch' = [k \in Fetches |-> IF k = 0 THEN "asked" ELSE "none"]
  /\ digest' = [k \in Fetches |-> 0]

BoardMoves ==
  /\ board <= MaxBoard /\ board' = board + 1
  /\ UNCHANGED <<call, turn, task, fetch, digest, shown>>

\* The control plane makes the digest; the answer is under way.
DigestMade(k) ==
  /\ fetch[k] = "asked" /\ fetch' = [fetch EXCEPT ![k] = "made"]
  /\ digest' = [digest EXCEPT ![k] = board]
  /\ UNCHANGED <<board, call, turn, task, shown>>

\* fetch_digest returns: with a digest, or empty after an error, a timeout or an
\* answer of another form.
Returns(k, d) ==
  /\ fetch[k] \in {"asked", "made"} /\ fetch' = [fetch EXCEPT ![k] = "done"]
  /\ d \in {0} \cup (IF fetch[k] = "made" THEN {digest[k]} ELSE {})

\* run_bot builds the context and runs the pipeline.
CallStarts ==
  /\ call = "setup" /\ call' = "live"
  /\ \E d \in 0..board : Returns(0, d) /\ shown' = d
  /\ UNCHANGED <<board, turn, task, digest>>

\* Slip: every turn makes a task of its own.
TurnAlwaysRefreshes ==
  /\ call = "live" /\ turn < MaxTurns
  /\ turn' = turn + 1 /\ task' = turn'
  /\ fetch' = [fetch EXCEPT ![turn'] = "asked"]
  /\ UNCHANGED <<board, call, digest, shown>>

\* on_user_turn_started: no second refresh beside one that is under way.
UserTurnStarts ==
  /\ call = "live" /\ turn < MaxTurns /\ turn' = turn + 1
  /\ IF task = 0 \/ fetch[task] = "done"
     THEN task' = turn' /\ fetch' = [fetch EXCEPT ![turn'] = "asked"]
     ELSE UNCHANGED <<task, fetch>>
  /\ UNCHANGED <<board, call, digest, shown>>

\* refresh: an empty digest leaves the old one in place.  The task outlives the
\* call that made it.
Refreshed(k) ==
  /\ k # 0
  /\ \E d \in 0..board : Returns(k, d) /\ shown' = IF d = 0 THEN shown ELSE d
  /\ UNCHANGED <<board, call, turn, task, digest>>

\* on_client_disconnected
Disconnected ==
  /\ call = "live" /\ call' = "ended"
  /\ UNCHANGED <<board, turn, task, fetch, digest, shown>>

\* The next offer is accepted: a context of its own, in which no refresh of an
\* earlier call writes.
NextCall ==
  /\ call = "ended" /\ call' = "setup" /\ NewCall
  /\ UNCHANGED board

VoiceNext ==
  \/ BoardMoves \/ CallStarts \/ UserTurnStarts \/ Disconnected \/ NextCall
  \/ \E k \in Fetches : DigestMade(k) \/ Refreshed(k)

VoiceSpec == VoiceInit /\ [][VoiceNext]_voiceVars

-----------------------------------------------------------------------------
(* Properties                                                              *)

\* Every variable keeps its type.
VoiceTypeOK ==
  /\ board \in 1..MaxBoard + 1 /\ shown \in 0..MaxBoard + 1
  /\ call \in {"setup", "live", "ended"}
  /\ turn \in Fetches /\ task \in 0..turn
  /\ fetch \in [Fetches -> {"none", "asked", "made", "done"}]
  /\ digest \in [Fetches -> 0..MaxBoard + 1]

\* "A live status snapshot ... authoritative and current": however late and in
\* whichever order the digests come, a call never goes from a status back to an
\* older one, and an error takes none away.
SnapshotForward == [][call = "ended" \/ shown' >= shown]_voiceVars
=============================================================================
