---------------------------- MODULE ResearchIntern ----------------------------
(***************************************************************************)
(* agent/research_intern.py: the scout's loop.  While the stack is idle it *)
(* picks a beat, runs one unit of it under a timeout (a review by          *)
(* opencode, pages of the web, or old memories, then one call of the local *)
(* model) and hands each finding to the shared memory and, as a draft, to  *)
(* Paperclip.  The awaits of the loop are the values of `at`.              *)
(* Memory, Paperclip, nvidia-smi, the model and opencode answer, fail or   *)
(* hang; the operator pauses and stops the loop when he likes.             *)
(* Issues are counted per finding for as long as the loop runs.            *)
(***************************************************************************)
EXTENDS Naturals, FiniteSets, Sequences

CONSTANTS
  Beats, NoBeat,
  Kind,         \* its runner: codebase, web, synthesis; off: disabled or unknown
  Weight,       \* its weight
  MinInterval,  \* its cooldown, in sleeps of the loop
  BeatFiles,    \* what the beats file may hold: {} when it cannot be parsed
  Findings,
  Level,        \* how sure the scout is of a finding: noise, candidate or draft
  MaxFindings,  \* findings kept of one reply
  Resembles,    \* <<f, g>>: the title of f overlaps the stored text of g
  WebOn,        \* INTERN_ENABLE_WEB
  DraftsOn,     \* INTERN_ENABLE_DRAFTS and a real company
  AgentAuth,    \* an agent token can be minted
  FaultSets,    \* the sets of faults the loop may run under, see FaultKinds
  Uptime,       \* the age of a beat that never ran
  AgeCap        \* ages are counted up to here

FaultKinds ==
  { "lost",     \* Paperclip creates an issue and its answer says nothing of it
    "recall",   \* a recall fails, or does not bring up what memory holds
    "probe",    \* a probe of the gate is off, or fails, and counts as not busy
    "executor" }  \* opencode's own timeout is set above the unit's

ASSUME InternAssumption ==
  /\ NoBeat \notin Beats /\ Kind \in [Beats -> {"codebase", "web", "synthesis", "off"}]
  /\ Weight \in [Beats -> Nat \ {0}] /\ MinInterval \in [Beats -> Nat]
  /\ BeatFiles \subseteq SUBSET Beats
  /\ Level \in [Findings -> {"noise", "candidate", "draft"}]
  /\ MaxFindings \in Nat /\ Resembles \subseteq Findings \X Findings
  /\ {WebOn, DraftsOn, AgentAuth} \subseteq BOOLEAN
  /\ FaultSets \subseteq SUBSET FaultKinds
  /\ AgeCap \in Nat /\ Uptime \in 0..AgeCap

VARIABLES
  at,        \* the await at which the loop is suspended
  beat,      \* the beat of the unit
  todo,      \* the findings of the unit that are still to be handed over
  ran, idle, \* the keys of _last_run; the time since each beat began
  recorded,  \* what memory holds: <<beat, finding>>
  issues,    \* the issues that exist for each; 2 stands for more than one
  stray,     \* an opencode process has been left behind
  signal,    \* why the loop should yield: the pause file, live runs, the GPU
  stop,      \* _stop
  faults     \* the faults it runs under

ages == <<ran, idle>>
env  == <<signal, stop, faults>>
vars == <<at, beat, todo, ages, recorded, issues, stray, env>>

Handoff == {"seen", "write", "agent", "admin"}
Unit    == {"opencode", "search", "fetch", "recall", "llm"} \cup Handoff
Signals == {"none", "pause", "paperclip", "gpu"}

Init ==
  /\ at = "top" /\ beat = NoBeat /\ todo = <<>>
  /\ ran = {} /\ idle = [b \in Beats |-> Uptime]
  /\ recorded = {} /\ issues = [c \in Beats \X Findings |-> 0] /\ stray = FALSE
  /\ signal = "none" /\ stop = FALSE /\ faults \in FaultSets

-----------------------------------------------------------------------------
(* The gate                                                                *)

Go(from, to) == at = from /\ at' = to

\* Slip: the pause file is not looked at.
TopUnpaused ==
  /\ ~stop /\ Go("top", "paperclip")
  /\ UNCHANGED <<beat, todo, ages, recorded, issues, stray, env>>

\* `while not _stop.is_set()`, then the pause file.
Top ==
  /\ ~stop
  /\ IF signal = "pause" THEN Go("top", "sleep") ELSE Go("top", "paperclip")
  /\ UNCHANGED <<beat, todo, ages, recorded, issues, stray, env>>

\* A probe does not see its signal: "never wedge the loop on an outage".
Overlooks(probe) == signal # probe \/ "probe" \in faults

\* _paperclip_busy: a company with live runs is busy; the global tier, an error
\* status and a server that cannot be reached or read are not.
PaperclipRead ==
  /\ \/ signal = "paperclip" /\ Go("paperclip", "sleep")
     \/ Overlooks("paperclip") /\ Go("paperclip", "gpu")
  /\ UNCHANGED <<beat, todo, ages, recorded, issues, stray, env>>

\* _gpu_busy, when it says so: it is off without a threshold, and an nvidia-smi
\* that is missing, hangs or fails is not busy.
GpuBusy ==
  /\ signal = "gpu" /\ Go("gpu", "sleep")
  /\ UNCHANGED <<beat, todo, ages, recorded, issues, stray, env>>

\* _load_beats: the enabled beats of a known type.
LoadBeats(file) == {b \in file : Kind[b] # "off"}

Eligible(beats) == {b \in beats : b \notin ran \/ idle[b] >= MinInterval[b]}

\* Slip: the weight decides alone.
Weightiest(S) == {b \in S : \A c \in S : Weight[c] <= Weight[b]}

\* "idle longest, weighted"
Longest(S) == {b \in S : \A c \in S : idle[c] * Weight[c] <= idle[b] * Weight[b]}

\* _select_beat finds no beat.
NothingToDo ==
  /\ Overlooks("gpu") /\ Go("gpu", "sleep")
  /\ \E file \in BeatFiles : Eligible(LoadBeats(file)) = {}
  /\ UNCHANGED <<beat, todo, ages, recorded, issues, stray, env>>

\* The first await of a unit: a runner that has nothing to read returns at once.
FirstAwait(b) ==
  CASE Kind[b] = "codebase"  -> {"opencode", "sleep"}
    [] Kind[b] = "web"       -> IF WebOn THEN {"search", "fetch"} ELSE {"sleep"}
    [] Kind[b] = "synthesis" -> {"recall"}

\* Nothing stands in the way and b is picked: run_unit begins.
Start(b) ==
  /\ at = "gpu" /\ Overlooks("gpu")
  /\ \E file \in BeatFiles : b \in Longest(Eligible(LoadBeats(file)))
  /\ beat' = b /\ at' \in FirstAwait(b)
  /\ ran' = ran \cup {b} /\ idle' = [idle EXCEPT ![b] = 0]
  /\ UNCHANGED <<todo, recorded, issues, stray, env>>

-----------------------------------------------------------------------------
(* The runners                                                             *)

\* Slip: the reply is not cut.
ParsedUncut == UNION {[1..n -> Findings] : n \in 0..MaxFindings + 1}

\* What _parse_findings makes of a reply: nothing below the floor, and no more
\* than MaxFindings of what is left.
Parsed ==
  UNION {[1..n -> {f \in Findings : Level[f] # "noise"}] : n \in 0..MaxFindings}

After(rest) == IF rest = <<>> THEN "sleep" ELSE "seen"

HandOver(from) ==
  /\ todo' \in Parsed /\ Go(from, After(todo'))
  /\ UNCHANGED <<beat, ages, recorded, issues, stray, env>>

\* opencode_run returns: its process has exited or its timeout has killed it.
OpencodeReturns == HandOver("opencode")

\* _llm: an answer, or None, which is a reply without findings.
Completed == HandOver("llm")

Searched ==
  /\ Go("search", "fetch")
  /\ UNCHANGED <<beat, todo, ages, recorded, issues, stray, env>>

\* The pages, or none of them: then there is nothing to ask the model.
Fetched ==
  /\ at = "fetch" /\ at' \in {"llm", "sleep"}
  /\ UNCHANGED <<beat, todo, ages, recorded, issues, stray, env>>

RowsRecalled ==
  /\ at = "recall" /\ at' \in {"llm", "sleep"}
  /\ UNCHANGED <<beat, todo, ages, recorded, issues, stray, env>>

-----------------------------------------------------------------------------
(* The handoff of the first finding in todo                                *)

Done(from) == at = from /\ todo' = Tail(todo) /\ at' = After(todo')

\* What is remembered of the first finding: its text, tagged with the beat's name.
Candidate == <<beat, Head(todo)>>

\* _file_draft does not return at its guards.
Draftable == DraftsOn /\ Level[Head(todo)] = "draft"

\* A candidate of this beat that the title of the finding resembles.
KnownAlready == \E g \in Findings : <<beat, g>> \in recorded /\ <<Head(todo), g>> \in Resembles

\* _already_seen: such a candidate was recalled.
Seen ==
  /\ Done("seen") /\ KnownAlready
  /\ UNCHANGED <<beat, ages, recorded, issues, stray, env>>

\* There is none, or the recall did not bring it up.
Unseen ==
  /\ Go("seen", "write") /\ (~KnownAlready \/ "recall" \in faults)
  /\ UNCHANGED <<beat, todo, ages, recorded, issues, stray, env>>

\* _write_finding, and the guards of _file_draft behind it.
Written ==
  /\ at = "write" /\ recorded' = recorded \cup {Candidate}
  /\ IF Draftable
     THEN Go("write", IF AgentAuth THEN "agent" ELSE "admin") /\ todo' = todo
     ELSE Done("write")
  /\ UNCHANGED <<beat, ages, issues, stray, env>>

\* Slip: the result of the write is not looked at.
WriteUnchecked ==
  /\ at = "write" /\ recorded' \in {recorded, recorded \cup {Candidate}}
  /\ IF Draftable
     THEN Go("write", IF AgentAuth THEN "agent" ELSE "admin") /\ todo' = todo
     ELSE Done("write")
  /\ UNCHANGED <<beat, ages, issues, stray, env>>

\* An error, whether or not the write has landed: the finding gets no draft.
WriteFails ==
  /\ Done("write") /\ recorded' \in {recorded, recorded \cup {Candidate}}
  /\ UNCHANGED <<beat, ages, issues, stray, env>>

\* One more issue exists for the finding.
Filed == [issues EXCEPT ![Candidate] = IF @ < 2 THEN @ + 1 ELSE 2]

\* Slip: the issue that the agent has filed is filed by the admin too.
AgentPostedTwice ==
  /\ Go("agent", "admin") /\ issues' = Filed
  /\ UNCHANGED <<beat, todo, ages, recorded, stray, env>>

\* _post_draft as the agent, with an id in the answer.
AgentPosted ==
  /\ Done("agent") /\ issues' = Filed
  /\ UNCHANGED <<beat, ages, recorded, stray, env>>

\* No id: rejected, or created while the answer is lost or cannot be read.
AgentUnanswered ==
  /\ Go("agent", "admin")
  /\ issues' = issues \/ ("lost" \in faults /\ issues' = Filed)
  /\ UNCHANGED <<beat, todo, ages, recorded, stray, env>>

\* The second try, as the admin, whatever comes of it.
AdminPosts ==
  /\ Done("admin") /\ issues' \in {issues, Filed}
  /\ UNCHANGED <<beat, ages, recorded, stray, env>>

UnitStep ==
  \/ OpencodeReturns \/ Completed \/ Searched \/ Fetched \/ RowsRecalled
  \/ Seen \/ Unseen \/ Written \/ WriteFails
  \/ AgentPosted \/ AgentUnanswered \/ AdminPosts

-----------------------------------------------------------------------------
\* Slip: run_unit is awaited without a timeout.
NeverTimesOut == FALSE

\* wait_for cancels the unit wherever it is: a request that was under way may
\* have landed, and a process of opencode is not killed.
UnitTimeout ==
  /\ at \in Unit /\ (at = "opencode" => "executor" \in faults)
  /\ recorded' \in {recorded} \cup
       (IF at = "write" THEN {recorded \cup {Candidate}} ELSE {})
  /\ issues' \in {issues} \cup (IF at \in {"agent", "admin"} THEN {Filed} ELSE {})
  /\ at' = "sleep" /\ todo' = <<>> /\ stray' = (stray \/ at = "opencode")
  /\ UNCHANGED <<beat, ages, env>>

Older(n) == [b \in Beats |-> IF idle[b] + n > AgeCap THEN AgeCap ELSE idle[b] + n]

\* _sleep_or_stop returns; the unit before it may have taken as long again.
Wake ==
  /\ Go("sleep", "top") /\ \E n \in 1..2 : idle' = Older(n)
  /\ UNCHANGED <<beat, todo, ran, recorded, issues, stray, env>>

\* The loop is left, memory.close() runs.
Close ==
  /\ stop /\ Go("top", "closed")
  /\ UNCHANGED <<beat, todo, ages, recorded, issues, stray, env>>

(* The operator, the desk agents and systemd *)

SignalChanges ==
  /\ signal' \in Signals \ {signal}
  /\ UNCHANGED <<at, beat, todo, ages, recorded, issues, stray, stop, faults>>

Sigterm ==
  /\ ~stop /\ stop' = TRUE
  /\ UNCHANGED <<at, beat, todo, ages, recorded, issues, stray, signal, faults>>

Gate == Top \/ PaperclipRead \/ GpuBusy \/ NothingToDo \/ \E b \in Beats : Start(b)

Next == Gate \/ UnitStep \/ UnitTimeout \/ Wake \/ Close \/ SignalChanges \/ Sigterm

Spec == Init /\ [][Next]_vars

\* What comes in time: the gate's requests and the sleeps have timeouts, and so
\* have the unit and opencode.  What they wait for need not ever answer.
Timely == Gate \/ Wake \/ Close \/ UnitTimeout \/ OpencodeReturns

InternFairness == WF_vars(Timely)

FairSpec == Spec /\ InternFairness

-----------------------------------------------------------------------------
(* Properties                                                              *)

\* Every variable keeps its type; a reply never yields more than MaxFindings.
TypeOK ==
  /\ at \in {"top", "paperclip", "gpu", "sleep", "closed"} \cup Unit
  /\ beat \in Beats \cup {NoBeat} /\ (at \in Unit => beat \in Beats)
  /\ todo \in Seq(Findings) /\ Len(todo) <= MaxFindings
  /\ (todo # <<>> <=> at \in Handoff)
  /\ ran \in SUBSET Beats /\ idle \in [Beats -> 0..AgeCap]
  /\ recorded \in SUBSET (Beats \X Findings)
  /\ issues \in [Beats \X Findings -> 0..2] /\ stray \in BOOLEAN
  /\ signal \in Signals /\ stop \in BOOLEAN /\ faults \in FaultSets

\* "never duplicates ... the fallback POST is the only insert": a finding of a
\* beat becomes one issue at most.
NeverDuplicates == \A c \in Beats \X Findings : issues[c] <= 1

\* What is left of that promise: where recalls bring up what memory holds and
\* answers that report an issue arrive, a finding whose title is near the text
\* stored of it becomes one issue at most, however often its beat comes up with
\* it, whichever writes fail and wherever its units are cancelled.
FiledOnce ==
  faults \cap {"lost", "recall"} = {} =>
    \A c \in Beats \X Findings : <<c[2], c[2]>> \in Resembles => issues[c] <= 1

\* Under every fault an issue is filed only for a finding that memory holds and
\* that is sure enough for a draft, so that the gate in front of the next handover
\* has something to find.
FiledIsRemembered ==
  \A c \in Beats \X Findings : issues[c] > 0 => c \in recorded /\ Level[c[2]] = "draft"

\* A probe that has its signal before it lets the loop go on.
Overlooked == at = signal /\ at' \notin {at, "sleep"}

\* "every unit yields the GPU when the stack is busy": once one reason to yield
\* stays, and the probe that has to notice it does (the pause file is always
\* noticed), the unit under way ends and no other begins; and no opencode is left
\* behind, provided that its own timeout is the shorter one.
YieldsGpu ==
  \A s \in Signals \ {"none"} :
    <>[](signal = s) /\ <>[][~Overlooked]_vars
      => <>[](at \notin Unit /\ ("executor" \in faults \/ ~stray))

\* "clean SIGTERM drain": told to stop, the loop ends, whatever its unit waits for.
StopDrains == stop ~> at = "closed"

\* No beat of the file starves behind a heavier one: while units go on being
\* started on an idle stack and the beats file can be read, each beat gets its
\* turn again and again.
Listed(b) == \A file \in BeatFiles : LoadBeats(file) # {} => b \in LoadBeats(file)
Unread    == NothingToDo /\ \E file \in BeatFiles : Eligible(LoadBeats(file)) # {}
BeatsServed ==
  \A b \in {c \in Beats : Listed(c)} :
    /\ []<><<\E c \in Beats : Start(c)>>_vars
    /\ <>[](signal = "none") /\ <>[][~Unread]_vars
    => []<><<Start(b)>>_vars
=============================================================================
