-------------------------- MODULE MCPaperclipClients --------------------------
(***************************************************************************)
(* Clients of Paperclip for TLC: the intern's loop, the memory server's    *)
(* resolution of tokens and the snapshot of a voice call; and once more    *)
(* the intern, for the turns of its beats, and the memory server, for      *)
(* tokens that are rotated.  They share no variable, so each is explored   *)
(* while the others have not begun.                                        *)
(***************************************************************************)
EXTENDS ResearchIntern, CompanyCache, VoiceDigest, TLC

CONSTANTS scan, news, ideas, old, f1, f2, f3, q1, q2, own, minted, rotated, acme, global

\* The handover of findings: a review and the news, always ready for another
\* unit, beside a beat that is switched off ...
MCKind        == (scan :> "codebase") @@ (news :> "web") @@ (old :> "off")
MCWeight      == (scan :> 2) @@ (news :> 1) @@ (old :> 3)
MCMinInterval == (scan :> 0) @@ (news :> 0) @@ (old :> 0)
MCBeatFiles   == {{scan, news, old}, {}}

\* ... and three findings: one worth a draft and near its own stored text, one
\* whose title comes near what was stored of the first, one below the floor.
MCLevel     == (f1 :> "draft") @@ (f2 :> "candidate") @@ (f3 :> "noise")
MCResembles == {<<f1, f1>>, <<f2, f1>>}
MCFaultSets == {{}, FaultKinds}

\* A configured token of the global tier, and one that Paperclip mints.
MCStatic   == own :> global
MCBindable == (own :> {}) @@ (minted :> {acme, global})

-----------------------------------------------------------------------------
\* The turns of the beats: a heavy review, the news, and a light synthesis with a
\* longer cooldown, none of which finds anything.
VARIABLES tat, tbeat, ttodo, tran, tidle, trecorded, tissues, tstray, tsignal, tstop, tfaults

TurnsFiles == {{scan, news, ideas}, {}}
None(x) == [d \in {} |-> x]

Turns ==
  INSTANCE ResearchIntern WITH
    Beats <- {scan, news, ideas},
    Kind <- (scan :> "codebase") @@ (news :> "web") @@ (ideas :> "synthesis"),
    Weight <- (scan :> 2) @@ (news :> 1) @@ (ideas :> 1),
    MinInterval <- (scan :> 1) @@ (news :> 1) @@ (ideas :> 2),
    BeatFiles <- TurnsFiles,
    Findings <- {}, Level <- None("noise"), Resembles <- {}, FaultSets <- {{}},
    Uptime <- 3, AgeCap <- 6,
    at <- tat, beat <- tbeat, todo <- ttodo, ran <- tran, idle <- tidle,
    recorded <- trecorded, issues <- tissues, stray <- tstray,
    signal <- tsignal, stop <- tstop, faults <- tfaults

turnsVars == <<tat, tbeat, ttodo, tran, tidle, trecorded, tissues, tstray, tsignal, tstop, tfaults>>

\* Two tokens that Paperclip mints and revokes, and lookups that may take as long
\* as an entry lives.
VARIABLES rnow, rbound, rlastBound, rcached, rrequest

Rotation ==
  INSTANCE CompanyCache WITH
    Tokens <- {minted, rotated}, Companies <- {acme}, DefaultCompany <- acme,
    Static <- None(acme), Bindable <- (minted :> {acme}) @@ (rotated :> {acme}),
    TTL <- 1, Timeout <- 1, Horizon <- 2,
    now <- rnow, bound <- rbound, lastBound <- rlastBound, cached <- rcached, request <- rrequest

rotationVars == <<rnow, rbound, rlastBound, rcached, rrequest>>

-----------------------------------------------------------------------------
Clients == <<vars, turnsVars, mcpVars, rotationVars, voiceVars>>

ClientsInit == Init /\ Turns!Init /\ McpInit /\ Rotation!McpInit /\ VoiceInit
\* Which faults the first loop runs under is settled when it begins.
Unbegun == Init /\ faults = {}

ClientsNext ==
  \/ /\ Turns!Init /\ McpInit /\ Rotation!McpInit /\ VoiceInit /\ Next
     /\ UNCHANGED <<turnsVars, mcpVars, rotationVars, voiceVars>>
  \/ /\ Unbegun /\ McpInit /\ Rotation!McpInit /\ VoiceInit /\ Turns!Next
     /\ UNCHANGED <<vars, mcpVars, rotationVars, voiceVars>>
  \/ /\ Unbegun /\ Turns!Init /\ Rotation!McpInit /\ VoiceInit /\ McpNext
     /\ UNCHANGED <<vars, turnsVars, rotationVars, voiceVars>>
  \/ /\ Unbegun /\ Turns!Init /\ McpInit /\ VoiceInit /\ Rotation!McpNext
     /\ UNCHANGED <<vars, turnsVars, mcpVars, voiceVars>>
  \/ /\ Unbegun /\ Turns!Init /\ McpInit /\ Rotation!McpInit /\ VoiceNext
     /\ UNCHANGED <<vars, turnsVars, mcpVars, rotationVars>>

\* InternFairness for each of the two loops while the other has not begun.
LoopsFairness == WF_vars(Turns!Init /\ Timely) /\ WF_turnsVars(Unbegun /\ Turns!Timely)

ClientsSpec ==
  /\ ClientsInit /\ [][ClientsNext]_Clients
  /\ LoopsFairness

\* No beat of the file starves behind a heavier one or one with a shorter
\* cooldown, while the stack is idle and the file can be read.
TurnsServed == Turns!BeatsServed

\* "bound the cache to live tokens": a lookup of one token drops what has expired
\* of the others too, but for answers that are dead on arrival.
RotationSwept == Rotation!CacheSwept
=============================================================================
