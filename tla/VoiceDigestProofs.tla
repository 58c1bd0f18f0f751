--------------------------- MODULE VoiceDigestProofs ---------------------------
(***************************************************************************)
(* For any number of turns and of changes: one fetch at a time is under    *)
(* way, and the snapshot of a voice call never goes back.                  *)
(***************************************************************************)
EXTENDS VoiceDigest, TLAPS

USE VoiceAssumption

UnderWay(k) == fetch[k] \in {"asked", "made"}

\* Only the setup's fetch, then only the one that refresh_task names, is under
\* way, so nothing else is shown before it returns.
SingleFlight ==
  \A k \in Fetches : UnderWay(k) => IF k = 0 THEN call = "setup" ELSE call # "setup" /\ task = k

\* What a digest under way says is no older than what is shown.
NotBehind ==
  /\ shown <= board /\ (call = "setup" => shown = 0)
  /\ \A k \in Fetches : digest[k] <= board /\ (fetch[k] = "made" => shown <= digest[k])

DigestInv == VoiceTypeOK /\ SingleFlight /\ NotBehind

\* A call starts with the setup's fetch.
LEMMA VoiceStarts == VoiceInit => DigestInv
  BY DEF VoiceInit, DigestInv, VoiceTypeOK, SingleFlight, NotBehind, UnderWay, Fetches

\* A digest that is shown is the one under way, or there is none to show.
LEMMA ReturnIs ==
  ASSUME DigestInv, NEW k \in Fetches, NEW d \in 0..board, Returns(k, d)
  PROVE  /\ UnderWay(k) /\ d \in 0..MaxBoard + 1
         /\ d = 0 \/ (shown <= d /\ d <= board)
         /\ \A j \in Fetches \ {k} : ~UnderWay(j)
  BY DEF DigestInv, VoiceTypeOK, SingleFlight, NotBehind, UnderWay, Fetches, Returns

\* Every step keeps the invariant.
LEMMA DigestStep == DigestInv /\ [VoiceNext]_voiceVars => DigestInv'
<1> SUFFICES ASSUME DigestInv, [VoiceNext]_voiceVars PROVE DigestInv'
  OBVIOUS
<1> USE DEF DigestInv, VoiceTypeOK, SingleFlight, NotBehind, UnderWay, Fetches
<1>1. CASE BoardMoves
  BY <1>1 DEF BoardMoves
<1>2. CASE CallStarts
  <2>1. PICK d \in 0..board : Returns(0, d) /\ shown' = d
    BY <1>2 DEF CallStarts
  <2>2. d \in 0..MaxBoard + 1 /\ \A j \in Fetches \ {0} : ~UnderWay(j)
    BY <2>1, ReturnIs
  <2> QED
    BY <1>2, <2>1, <2>2 DEF CallStarts, Returns
<1>3. CASE UserTurnStarts
  <2>1. CASE task = 0 \/ fetch[task] = "done"
    <3>1. /\ turn + 1 \in Fetches \ {0} /\ turn' = turn + 1 /\ task' = turn + 1
          /\ fetch' = [fetch EXCEPT ![turn + 1] = "asked"] /\ call = "live"
          /\ UNCHANGED <<board, call, digest, shown>>
      BY <1>3, <2>1 DEF UserTurnStarts
    <3>2. \A k \in Fetches : ~UnderWay(k)
      BY <1>3, <2>1 DEF UserTurnStarts
    <3> QED
      BY <3>1, <3>2
  <2>2. CASE ~(task = 0 \/ fetch[task] = "done")
    BY <1>3, <2>2 DEF UserTurnStarts
  <2> QED
    BY <2>1, <2>2
<1>4. CASE Disconnected
  BY <1>4 DEF Disconnected
<1>5. CASE NextCall
  BY <1>5 DEF NextCall, NewCall
<1>6. ASSUME NEW k \in Fetches, DigestMade(k) PROVE DigestInv'
  BY <1>6 DEF DigestMade
<1>7. ASSUME NEW k \in Fetches, Refreshed(k) PROVE DigestInv'
  <2>1. PICK d \in 0..board : Returns(k, d) /\ shown' = IF d = 0 THEN shown ELSE d
    BY <1>7 DEF Refreshed
  <2>2. /\ d \in 0..MaxBoard + 1 /\ \A j \in Fetches \ {k} : ~UnderWay(j)
        /\ d = 0 \/ (shown <= d /\ d <= board)
    BY <2>1, ReturnIs
  <2> QED
    BY <1>7, <2>1, <2>2 DEF Refreshed, Returns
<1>8. CASE UNCHANGED voiceVars
  BY <1>8 DEF voiceVars
<1> QED
  BY <1>1, <1>2, <1>3, <1>4, <1>5, <1>6, <1>7, <1>8 DEF VoiceNext

\* Every variable of a call's status keeps its type.
THEOREM VoiceTypeCorrect == VoiceSpec => []VoiceTypeOK
  BY VoiceStarts, DigestStep, PTL DEF VoiceSpec, DigestInv

\* However fast turns follow one another, one fetch of the call is under way at a
\* time: the setup's before the call is live, afterwards that of refresh_task.
THEOREM OneRefresh == VoiceSpec => []SingleFlight
  BY VoiceStarts, DigestStep, PTL DEF VoiceSpec, DigestInv

\* Within a call the snapshot only moves forward, however late and in whichever
\* order the control plane answers.
THEOREM SnapshotMovesForward == VoiceSpec => SnapshotForward
<1>1. DigestInv /\ [VoiceNext]_voiceVars => [call = "ended" \/ shown' >= shown]_voiceVars
  <2> SUFFICES ASSUME DigestInv, VoiceNext PROVE call = "ended" \/ shown' >= shown
    OBVIOUS
  <2>1. CASE CallStarts
    BY <2>1 DEF CallStarts, DigestInv, VoiceTypeOK, NotBehind
  <2>2. ASSUME NEW k \in Fetches, Refreshed(k) PROVE shown' >= shown
    <3>1. PICK d \in 0..board : Returns(k, d) /\ shown' = IF d = 0 THEN shown ELSE d
      BY <2>2 DEF Refreshed
    <3>2. d = 0 \/ shown <= d
      BY <3>1, ReturnIs
    <3> QED
      BY <3>1, <3>2 DEF DigestInv, VoiceTypeOK
  <2>3. CASE NextCall
    BY <2>3 DEF NextCall
  <2> QED
    BY <2>1, <2>2, <2>3
       DEF VoiceNext, BoardMoves, UserTurnStarts, Disconnected, DigestMade, DigestInv, VoiceTypeOK
<1> QED
  BY <1>1, VoiceStarts, DigestStep, PTL DEF VoiceSpec, SnapshotForward
=============================================================================
