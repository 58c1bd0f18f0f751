------------------------- MODULE ResearchInternProofs -------------------------
(***************************************************************************)
(* For any beats, findings, limits and faults: the intern's loop keeps its *)
(* types; an issue is filed only for a finding that memory holds; and a    *)
(* finding is filed once, provided that recalls bring up what memory holds *)
(* and that answers which report an issue arrive.                          *)
(***************************************************************************)
EXTENDS ResearchIntern, TLAPS

\* What TypeOK says of the control state, of the cooldowns and of the rest.
Control ==
  /\ at \in {"top", "paperclip", "gpu", "sleep", "closed"} \cup Unit
  /\ beat \in Beats \cup {NoBeat} /\ (at \in Unit => beat \in Beats)
  /\ todo \in Seq(Findings) /\ Len(todo) <= MaxFindings
  /\ (todo # <<>> <=> at \in Handoff)

Ages == ran \in SUBSET Beats /\ idle \in [Beats -> 0..AgeCap]

Around ==
  /\ recorded \in SUBSET (Beats \X Findings) /\ issues \in [Beats \X Findings -> 0..2]
  /\ stray \in BOOLEAN /\ signal \in Signals /\ stop \in BOOLEAN /\ faults \in FaultSets

\* Behind the gate of the handoff.
Past == {"write", "agent", "admin"}

\* While a draft is being posted memory holds its finding.
DraftedIsRemembered == at \in {"agent", "admin"} => Candidate \in recorded /\ Draftable

\* The answers and the recalls that FiledOnce asks for.
Sound == faults \cap {"lost", "recall"} = {}

\* A finding that is behind the gate has no issue yet.
FirstFiling ==
  at \in Past /\ Sound /\ <<Head(todo), Head(todo)>> \in Resembles => issues[Candidate] = 0

Filing == DraftedIsRemembered /\ FiledIsRemembered /\ FirstFiling /\ FiledOnce

InternInv == Control /\ Ages /\ Around /\ Filing

\* The parts are the type invariant, with the filing.
LEMMA Parts == InternInv <=> TypeOK /\ Filing
  BY DEF InternInv, TypeOK, Control, Ages, Around

\* A beat of a file that is eligible and idle longest has a runner.
LEMMA FirstAwaitIs ==
  ASSUME NEW b \in Beats, NEW file \in BeatFiles, b \in Longest(Eligible(LoadBeats(file)))
  PROVE  FirstAwait(b) \subseteq {"opencode", "search", "fetch", "recall", "sleep"}
<1>1. Kind[b] \in {"codebase", "web", "synthesis"}
  BY InternAssumption DEF Longest, Eligible, LoadBeats
<1>2. Kind[b] = "codebase" => FirstAwait(b) = {"opencode", "sleep"}
  BY DEF FirstAwait
<1>3. Kind[b] = "web" => FirstAwait(b) = IF WebOn THEN {"search", "fetch"} ELSE {"sleep"}
  BY DEF FirstAwait
<1>4. Kind[b] = "synthesis" => FirstAwait(b) = {"recall"}
  BY DEF FirstAwait
<1> QED
  BY <1>1, <1>2, <1>3, <1>4

\* A reply yields a bounded sequence of findings.
LEMMA ParsedIs ==
  ASSUME NEW s \in Parsed
  PROVE  s \in Seq(Findings) /\ Len(s) <= MaxFindings
<1>1. PICK n \in 0..MaxFindings : s \in [1..n -> {f \in Findings : Level[f] # "noise"}]
  BY DEF Parsed
<1>2. n \in Nat /\ n <= MaxFindings
  BY <1>1, InternAssumption
<1>3. s \in [1..n -> Findings]
  BY <1>1
<1> QED
  BY <1>2, <1>3

\* The sequences of findings shrink from the front.
LEMMA TailIs ==
  ASSUME Control, at \in Handoff
  PROVE  /\ Tail(todo) \in Seq(Findings) /\ Len(Tail(todo)) <= MaxFindings
         /\ Head(todo) \in Findings /\ beat \in Beats /\ Candidate \in Beats \X Findings
<1>1. todo # <<>> /\ todo \in Seq(Findings) /\ Len(todo) <= MaxFindings /\ beat \in Beats
  BY DEF Control, Unit
<1>2. Head(todo) \in Findings /\ Tail(todo) \in Seq(Findings)
  BY <1>1
<1>3. Len(todo) \in Nat /\ Len(Tail(todo)) = Len(todo) - 1
  BY <1>1
<1> QED
  BY <1>1, <1>2, <1>3, InternAssumption DEF Candidate

\* The loop starts with nothing under way.
LEMMA InternStarts == Init => InternInv
<1> SUFFICES ASSUME Init PROVE InternInv
  OBVIOUS
<1>1. Control
  <2>1. MaxFindings \in Nat /\ todo = <<>> /\ at = "top" /\ beat = NoBeat
    BY InternAssumption DEF Init
  <2>2. todo \in Seq(Findings) /\ Len(todo) <= MaxFindings
    BY <2>1
  <2> QED
    BY <2>1, <2>2 DEF Control, Unit, Handoff
<1>2. Ages
  <2>1. Uptime \in 0..AgeCap
    BY InternAssumption
  <2>2. ran = {} /\ idle = [b \in Beats |-> Uptime]
    BY DEF Init
  <2>3. idle \in [Beats -> 0..AgeCap]
    BY <2>1, <2>2
  <2> QED
    BY <2>2, <2>3 DEF Ages
<1>3. Around
  <2>1. issues \in [Beats \X Findings -> 0..2]
    BY DEF Init
  <2>2. stray \in BOOLEAN /\ stop \in BOOLEAN
    BY DEF Init
  <2> QED
    BY <2>1, <2>2 DEF Init, Around, Signals
<1>4. Filing
  <2>1. at = "top" /\ \A c \in Beats \X Findings : issues[c] = 0
    BY DEF Init
  <2> QED
    BY <2>1 DEF Filing, DraftedIsRemembered, FiledIsRemembered, FirstFiling, FiledOnce, Past
<1> QED
  BY <1>1, <1>2, <1>3, <1>4 DEF InternInv

-----------------------------------------------------------------------------
\* A step that touches neither the issues nor memory, and that does not let a
\* finding past the gate, files nothing.
LEMMA QuietFiling ==
  ASSUME Filing, UNCHANGED <<recorded, issues, faults>>, at' \notin Past
  PROVE  Filing'
  BY DEF Filing, DraftedIsRemembered, FiledIsRemembered, FirstFiling, FiledOnce, Past, Sound

\* A step behind the gate may change memory, which only grows.
LEMMA RememberingFiling ==
  ASSUME Filing, UNCHANGED <<issues, faults>>, recorded \subseteq recorded', at' \notin Past
  PROVE  Filing'
  BY DEF Filing, DraftedIsRemembered, FiledIsRemembered, FirstFiling, FiledOnce, Past, Sound

\* One issue more for the finding at hand, and none for another.
LEMMA FiledIs ==
  ASSUME Control, Around, at \in Handoff
  PROVE  /\ Filed \in [Beats \X Findings -> 0..2]
         /\ \A c \in Beats \X Findings : c # Candidate => Filed[c] = issues[c]
         /\ issues[Candidate] = 0 => Filed[Candidate] = 1
<1>1. Candidate \in Beats \X Findings /\ issues \in [Beats \X Findings -> 0..2]
  BY TailIs DEF Around
<1>2. issues[Candidate] \in 0..2
  BY <1>1
<1>3. (IF issues[Candidate] < 2 THEN issues[Candidate] + 1 ELSE 2) \in 0..2
  BY <1>2
<1> QED
  BY <1>1, <1>2, <1>3 DEF Filed

\* An issue filed for the finding at hand, which memory holds and which had none.
LEMMA FilingOne ==
  ASSUME Control, Around, Filing, at \in {"agent", "admin"},
         issues' = Filed, UNCHANGED <<recorded, faults>>
  PROVE  FiledIsRemembered' /\ FiledOnce'
<1>1. /\ Candidate \in recorded /\ Draftable /\ Candidate \in Beats \X Findings
      /\ Candidate[2] = Head(todo)
  BY TailIs DEF Filing, DraftedIsRemembered, Handoff, Candidate
<1>2. \A c \in Beats \X Findings : c # Candidate => issues'[c] = issues[c]
  BY FiledIs DEF Handoff
<1>3. FiledIsRemembered'
  BY <1>1, <1>2 DEF Filing, FiledIsRemembered, Draftable
<1>4. Sound /\ <<Candidate[2], Candidate[2]>> \in Resembles => issues'[Candidate] = 1
  BY <1>1, FiledIs DEF Filing, FirstFiling, Past, Handoff
<1>5. FiledOnce'
  <2> SUFFICES ASSUME Sound, NEW c \in Beats \X Findings, <<c[2], c[2]>> \in Resembles
               PROVE  issues'[c] <= 1
    BY DEF FiledOnce, Sound
  <2>1. CASE c = Candidate
    BY <1>4, <2>1
  <2>2. CASE c # Candidate
    BY <1>2, <2>2 DEF Filing, FiledOnce, Sound
  <2> QED
    BY <2>1, <2>2
<1> QED
  BY <1>3, <1>5

\* The steps of the gate, of the sleeps and of the runners up to their reply.
LEMMA BeforeFindings ==
  ASSUME InternInv,
         \/ Top \/ PaperclipRead \/ GpuBusy \/ NothingToDo \/ Close
         \/ Searched \/ Fetched \/ RowsRecalled
  PROVE  InternInv'
<1>1. /\ at' \in {"top", "paperclip", "gpu", "sleep", "closed", "fetch", "llm"}
      /\ at \notin Handoff
      /\ at' \in Unit => at \in Unit
      /\ UNCHANGED <<beat, todo, ages, recorded, issues, stray, env>>
  BY DEF Top, PaperclipRead, GpuBusy, NothingToDo, Close, Searched, Fetched, RowsRecalled,
         Go, Unit, Handoff
<1>2. Control'
  BY <1>1 DEF InternInv, Control, Unit, Handoff
<1>3. Ages' /\ Around'
  BY <1>1 DEF InternInv, Ages, Around, ages, env
<1>4. Filing'
  BY <1>1, QuietFiling DEF InternInv, Past, env
<1> QED
  BY <1>2, <1>3, <1>4 DEF InternInv

\* A unit begins with its runner's first await.
LEMMA StartKeeps ==
  ASSUME InternInv, NEW b \in Beats, Start(b)
  PROVE  InternInv'
<1>1. at' \in {"opencode", "search", "fetch", "recall", "sleep"}
  BY FirstAwaitIs DEF Start
<1>2. Control'
  BY <1>1 DEF Start, InternInv, Control, Unit, Handoff
<1>3. Ages'
  BY InternAssumption DEF Start, InternInv, Ages
<1>4. Around'
  BY DEF Start, InternInv, Around, env
<1>5. Filing'
  BY <1>1, QuietFiling DEF Start, InternInv, Past, env
<1> QED
  BY <1>2, <1>3, <1>4, <1>5 DEF InternInv

\* A reply is parsed.
LEMMA ReplyKeeps ==
  ASSUME InternInv, OpencodeReturns \/ Completed
  PROVE  InternInv'
<1>1. /\ todo' \in Parsed /\ at \in {"opencode", "llm"} /\ at' = After(todo')
      /\ UNCHANGED <<beat, ages, recorded, issues, stray, env>>
  BY DEF OpencodeReturns, Completed, HandOver, Go
<1>2. todo' \in Seq(Findings) /\ Len(todo') <= MaxFindings
  BY <1>1, ParsedIs
<1>3. at' = IF todo' = <<>> THEN "sleep" ELSE "seen"
  BY <1>1 DEF After
<1>4. Control'
  BY <1>1, <1>2, <1>3 DEF InternInv, Control, Unit, Handoff
<1>5. Ages' /\ Around'
  BY <1>1 DEF InternInv, Ages, Around, ages, env
<1>6. Filing'
  BY <1>1, <1>3, QuietFiling DEF InternInv, Past, env
<1> QED
  BY <1>4, <1>5, <1>6 DEF InternInv

\* When a finding is done with, the next one is looked at, or the unit is over.
LEMMA DoneControl ==
  ASSUME Control, NEW from \in Handoff, Done(from), UNCHANGED beat
  PROVE  Control' /\ at' \in {"sleep", "seen"}
<1>1. Tail(todo) \in Seq(Findings) /\ Len(Tail(todo)) <= MaxFindings /\ beat \in Beats
  BY TailIs DEF Done
<1>2. at' = IF todo' = <<>> THEN "sleep" ELSE "seen"
  BY DEF Done, After
<1> QED
  BY <1>1, <1>2 DEF Done, Control, Unit, Handoff

\* While it is handed over, the loop goes from one await to the next.
LEMMA GoControl ==
  ASSUME Control, NEW from \in Handoff, NEW to \in Handoff, Go(from, to), UNCHANGED <<beat, todo>>
  PROVE  Control' /\ at' = to
  BY DEF Go, Control, Unit, Handoff

\* A finding is skipped.
LEMMA SeenKeeps ==
  ASSUME InternInv, Seen
  PROVE  InternInv'
<1>1. Control' /\ at' \in {"sleep", "seen"}
  BY DoneControl DEF InternInv, Seen, Handoff
<1>2. Ages' /\ Around'
  BY DEF Seen, InternInv, Ages, Around, ages, env
<1>3. Filing'
  BY <1>1, QuietFiling DEF Seen, InternInv, Past, env
<1> QED
  BY <1>1, <1>2, <1>3 DEF InternInv

\* A finding that gets past the gate while recalls can be relied on is not in
\* memory, hence has no issue.
LEMMA UnseenKeeps ==
  ASSUME InternInv, Unseen
  PROVE  InternInv'
<1>1. Control' /\ at' = "write" /\ at \in Handoff
  BY GoControl DEF InternInv, Unseen, Go, Handoff
<1>2. Ages' /\ Around'
  BY DEF Unseen, InternInv, Ages, Around, ages, env
<1>3. UNCHANGED <<beat, todo, recorded, issues, faults>> /\ (~KnownAlready \/ "recall" \in faults)
  BY DEF Unseen, env
<1>4. Candidate \in Beats \X Findings /\ Head(todo) \in Findings /\ issues[Candidate] \in 0..2
  BY <1>1, TailIs DEF InternInv, Around
<1>5. ASSUME Sound, <<Head(todo), Head(todo)>> \in Resembles PROVE issues[Candidate] = 0
  <2>1. ~KnownAlready
    BY <1>3, <1>5 DEF Sound
  <2>2. Candidate \notin recorded
    BY <1>4, <1>5, <2>1 DEF KnownAlready, Candidate
  <2>3. ~(issues[Candidate] > 0)
    BY <1>4, <2>2 DEF InternInv, Filing, FiledIsRemembered
  <2> QED
    BY <1>4, <2>3
<1>6. FirstFiling'
  BY <1>3, <1>5 DEF FirstFiling, Sound, Candidate
<1>7. DraftedIsRemembered' /\ FiledIsRemembered' /\ FiledOnce'
  BY <1>1, <1>3 DEF InternInv, Filing, DraftedIsRemembered, FiledIsRemembered, FiledOnce
<1> QED
  BY <1>1, <1>2, <1>6, <1>7 DEF InternInv, Filing

\* The write of a finding files no issue.
LEMMA WriteKeeps ==
  ASSUME InternInv, Written \/ WriteFails
  PROVE  InternInv'
<1>1. /\ at = "write" /\ recorded' \in {recorded, recorded \cup {Candidate}}
      /\ UNCHANGED <<beat, ages, issues, stray, env>>
  BY DEF Written, WriteFails, Done
<1>2. Control
  BY DEF InternInv
<1>3. Candidate \in Beats \X Findings
  BY <1>1, <1>2, TailIs DEF Handoff
<1>4. Around' /\ Ages'
  BY <1>1, <1>3 DEF InternInv, Around, Ages, ages, env
<1>5. CASE Done("write")
  <2>1. Control' /\ at' \in {"sleep", "seen"}
    BY <1>1, <1>2, <1>5, DoneControl DEF Handoff
  <2>2. Filing'
    BY <1>1, <2>1, RememberingFiling DEF InternInv, Past, env
  <2> QED
    BY <1>4, <2>1, <2>2 DEF InternInv
<1>6. ASSUME NEW to \in {"agent", "admin"}, Go("write", to), todo' = todo,
             Draftable, recorded' = recorded \cup {Candidate}
      PROVE  InternInv'
  <2>1. Control' /\ at' \in {"agent", "admin"}
    BY <1>1, <1>2, <1>6, GoControl DEF Handoff
  <2>2. UNCHANGED <<beat, todo, issues, faults>>
    BY <1>1, <1>6 DEF env
  <2>3. DraftedIsRemembered'
    BY <1>6, <2>2 DEF DraftedIsRemembered, Candidate, Draftable
  <2>4. FirstFiling'
    BY <1>1, <2>2 DEF InternInv, Filing, FirstFiling, Candidate, Past, Sound
  <2>5. FiledIsRemembered' /\ FiledOnce'
    BY <1>6, <2>2 DEF InternInv, Filing, FiledIsRemembered, FiledOnce
  <2> QED
    BY <1>4, <2>1, <2>3, <2>4, <2>5 DEF InternInv, Filing
<1>7. WriteFails \/ Done("write") \/ (Draftable /\ todo' = todo /\ recorded' = recorded \cup {Candidate}
        /\ \E to \in {"agent", "admin"} : Go("write", to))
  BY DEF Written
<1> QED
  BY <1>5, <1>6, <1>7 DEF WriteFails

\* The answer to a request ends the handover of its finding.
LEMMA PostKeeps ==
  ASSUME InternInv, AgentPosted \/ AdminPosts
  PROVE  InternInv'
<1>1. /\ Control /\ Around /\ Filing /\ at \in {"agent", "admin"} /\ issues' \in {issues, Filed}
      /\ UNCHANGED <<beat, ages, recorded, stray, env>>
      /\ Done("agent") \/ Done("admin")
  BY DEF AgentPosted, AdminPosts, InternInv, Done
<1>2. Control' /\ at' \in {"sleep", "seen"}
  BY <1>1, DoneControl DEF Handoff
<1>3. Ages' /\ Around'
  BY <1>1, FiledIs DEF InternInv, Ages, Around, ages, env, Handoff
<1>4. FiledIsRemembered' /\ FiledOnce'
  <2>1. CASE issues' = issues
    BY <1>1, <2>1 DEF Filing, FiledIsRemembered, FiledOnce, env
  <2>2. CASE issues' = Filed
    BY <1>1, <2>2, FilingOne DEF env
  <2> QED
    BY <1>1, <2>1, <2>2
<1> QED
  BY <1>2, <1>3, <1>4 DEF InternInv, Filing, DraftedIsRemembered, FirstFiling, Past

\* No id in the agent's answer: only where answers are lost is there an issue
\* behind it, and then nothing is promised of the second request.
LEMMA UnansweredKeeps ==
  ASSUME InternInv, AgentUnanswered
  PROVE  InternInv'
<1>1. /\ Control /\ Around /\ Filing /\ at = "agent" /\ Go("agent", "admin")
      /\ UNCHANGED <<beat, todo, ages, recorded, stray, env>>
      /\ issues' = issues \/ ("lost" \in faults /\ issues' = Filed)
  BY DEF AgentUnanswered, InternInv, Go
<1>2. Control' /\ at' = "admin"
  BY <1>1, GoControl DEF Handoff
<1>3. Ages' /\ Around'
  BY <1>1, FiledIs DEF InternInv, Ages, Around, ages, env, Handoff
<1>4. FiledIsRemembered' /\ FiledOnce'
  <2>1. CASE issues' = issues
    BY <1>1, <2>1 DEF Filing, FiledIsRemembered, FiledOnce, env
  <2>2. CASE issues' = Filed
    BY <1>1, <2>2, FilingOne DEF env
  <2> QED
    BY <1>1, <2>1, <2>2
<1>5. DraftedIsRemembered'
  BY <1>1 DEF Filing, DraftedIsRemembered, Candidate, Draftable
<1>6. FirstFiling'
  <2>1. Sound => issues' = issues /\ UNCHANGED <<beat, todo, faults>>
    BY <1>1 DEF Sound, env
  <2>2. faults' = faults
    BY <1>1 DEF env
  <2> QED
    BY <1>1, <2>1, <2>2 DEF Filing, FirstFiling, Past, Sound, Candidate
<1> QED
  BY <1>2, <1>3, <1>4, <1>5, <1>6 DEF InternInv, Filing

\* A unit that is cancelled leaves what its last request has done.
LEMMA TimeoutKeeps ==
  ASSUME InternInv, UnitTimeout
  PROVE  InternInv'
<1>1. /\ at \in Unit /\ at' = "sleep" /\ todo' = <<>>
      /\ recorded' \in {recorded} \cup (IF at = "write" THEN {recorded \cup {Candidate}} ELSE {})
      /\ issues' \in {issues} \cup (IF at \in {"agent", "admin"} THEN {Filed} ELSE {})
      /\ stray' = (stray \/ at = "opencode") /\ UNCHANGED <<beat, ages, env>>
  BY DEF UnitTimeout
<1>2. at = "write" => Candidate \in Beats \X Findings
  BY TailIs DEF InternInv, Handoff
<1>3. Control'
  BY <1>1, InternAssumption DEF InternInv, Control, Unit, Handoff
<1>4. Ages'
  BY <1>1 DEF InternInv, Ages, ages
<1>5. Around'
  <2>1. recorded' \in SUBSET (Beats \X Findings)
    BY <1>1, <1>2 DEF InternInv, Around
  <2>2. issues' \in [Beats \X Findings -> 0..2]
    BY <1>1, FiledIs DEF InternInv, Around, Handoff
  <2>3. stray' \in BOOLEAN
    BY <1>1
  <2> QED
    BY <1>1, <2>1, <2>2, <2>3 DEF InternInv, Around, env
<1>6. Filing'
  <2>1. CASE issues' = issues
    BY <1>1, <2>1, RememberingFiling DEF InternInv, Past, env
  <2>2. CASE at \in {"agent", "admin"} /\ issues' = Filed
    <3>1. UNCHANGED <<recorded, faults>>
      BY <1>1, <2>2 DEF env
    <3> QED
      BY <1>1, <2>2, <3>1, FilingOne DEF InternInv, Filing, DraftedIsRemembered, FirstFiling, Past
  <2> QED
    BY <1>1, <2>1, <2>2
<1> QED
  BY <1>3, <1>4, <1>5, <1>6 DEF InternInv

\* The beats grow older while the loop sleeps.
LEMMA WakeKeeps ==
  ASSUME InternInv, Wake
  PROVE  InternInv'
<1>1. Control'
  BY DEF Wake, Go, InternInv, Control, Unit, Handoff
<1>2. Ages'
  <2>1. ASSUME NEW n \in 1..2 PROVE Older(n) \in [Beats -> 0..AgeCap]
    BY InternAssumption DEF Older, InternInv, Ages
  <2> QED
    BY <2>1 DEF Wake, InternInv, Ages
<1>3. Around'
  BY DEF Wake, InternInv, Around, env
<1>4. Filing'
  BY QuietFiling DEF Wake, Go, InternInv, Past, env
<1> QED
  BY <1>1, <1>2, <1>3, <1>4 DEF InternInv

\* The operator and systemd touch only their own variables.
LEMMA SignalsKeep ==
  ASSUME InternInv, SignalChanges \/ Sigterm
  PROVE  InternInv'
<1>1. /\ signal' \in Signals /\ stop' \in BOOLEAN
      /\ UNCHANGED <<at, beat, todo, ages, recorded, issues, stray, faults>>
  BY DEF SignalChanges, Sigterm, InternInv, Around
<1>2. Filing'
  BY <1>1 DEF InternInv, Filing, DraftedIsRemembered, FiledIsRemembered, FirstFiling, FiledOnce,
              Candidate, Draftable, Sound
<1>3. Control' /\ Ages' /\ Around'
  BY <1>1 DEF InternInv, Control, Ages, Around, ages
<1> QED
  BY <1>2, <1>3 DEF InternInv

\* Every step keeps the invariant.
LEMMA InternStep == InternInv /\ [Next]_vars => InternInv'
<1> SUFFICES ASSUME InternInv, [Next]_vars PROVE InternInv'
  OBVIOUS
<1>1. CASE UNCHANGED vars
  <2>1. Control' /\ Ages' /\ Around'
    BY <1>1 DEF vars, ages, env, InternInv, Control, Ages, Around
  <2>2. Filing'
    BY <1>1 DEF vars, ages, env, InternInv, Filing, DraftedIsRemembered, FiledIsRemembered,
                FirstFiling, FiledOnce, Candidate, Draftable, Sound
  <2> QED
    BY <2>1, <2>2 DEF InternInv
<1> QED
  BY <1>1, BeforeFindings, StartKeeps, ReplyKeeps, SeenKeeps, UnseenKeeps, WriteKeeps, PostKeeps,
     UnansweredKeeps, TimeoutKeeps, WakeKeeps, SignalsKeep
     DEF Next, Gate, UnitStep

\* The invariant holds throughout.
LEMMA InternInvariant == Spec => []InternInv
  BY InternStarts, InternStep, PTL DEF Spec

\* The intern's loop keeps its types: a reply never yields more findings than
\* the limit, and findings are under way only during the handoff.
THEOREM InternTypeCorrect == Spec => []TypeOK
  BY Parts, InternInvariant, PTL

\* Whatever fails, is lost or is cancelled, Paperclip is given no finding that
\* memory does not hold, and none below the bar for a draft.
THEOREM FiledAreRemembered == Spec => []FiledIsRemembered
<1>1. InternInv => FiledIsRemembered
  BY DEF InternInv, Filing
<1> QED
  BY <1>1, InternInvariant, PTL

\* However often its beat comes up with it, a finding is filed once: the recall in
\* front of the handover finds what the write has left, and the second request
\* follows a first that filed nothing.
THEOREM FiledOnceAtMost == Spec => []FiledOnce
<1>1. InternInv => FiledOnce
  BY DEF InternInv, Filing
<1> QED
  BY <1>1, InternInvariant, PTL
=============================================================================
