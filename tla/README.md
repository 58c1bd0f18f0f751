# Verification of the Titan of Industry stack

TLA+ models of the control logic of this repository: what its processes and
coroutines may do to each other, checked by TLC on small instances and, where
TLAPS can reach it, proved for every value of the constants.

## The system

A workstation runs a coding agent against local models.  Its parts, the state
each keeps and how they meet:

| Part | Source | State | Operations | Meets |
|---|---|---|---|---|
| VRAM scheduler | `scripts/model_manager.py` | mode, lock, two engine handles, idle clock | start, ensure_vision, maybe_release_vision, aclose, the watchdog | launches and stops vLLM engines; called over HTTP by the proxy hook and the operator |
| Wake hook | `proxy/hooks.py:41-59` | none | POST /ensure-vision before a `qwen-vl` call | the scheduler, with its own 600 s limit |
| Opencode executor | `agent/opencode_tool.py` | one semaphore for the process | opencode_run | launches the `opencode` CLI; called by the agent and by the intern, which may cancel it |
| Throttle plugin | `agent/plugins/concurrency_throttle_plugin.py` | a semaphore and a counter | before/after callbacks of `call_subagent_as_tool` | the agent framework, which pairs the callbacks or fails to; subagents call from inside a call |
| Shared memory | `agent/memory.py` | `:Memory` nodes in Neo4j | remember, recall (which touches what it returns) | agents, memory-mcp, the intern, the dream pass |
| Dream pass | `agent/memory_dream.py` | archived flags, CONSOLIDATES edges, embeddings, scores | backfill, decay, dedup, reflect, contradict, forget, enrich | edits the store while agents use it |
| Memory graph | `agent/memory_graph.py` | topics, importances, SIMILAR_TO edges | rebuild | must run before the dream pass |
| Scope migration | `agent/migrate_memory_scope.py` | scope keys | one-off re-keying | the store |
| memory-mcp | `agent/memory_mcp.py` | a cache of token to company | resolve, remember, recall | Paperclip, which binds the tokens; the store |
| Research intern | `agent/research_intern.py` | cooldowns, a stop event | gate, select, run a unit, hand over findings | executor, memory, Paperclip |
| Snapshot plugin | `agent/plugins/periodic_snapshot_plugin.py` | a counter | on_event: persist every Nth | the agent framework |
| Codex link | `scripts/codex-auth-link.py` | symbolic links | a sweep that re-links | a CLI that replaces its own file |
| Voice sidecar | `voice/*.py` | a call's context, one refresh task | refresh the status, persist turns | Paperclip |
| Agent, approved MCP, Paperclip tool | `agent/agent.py`, `agent/approved_mcp.py`, `agent/paperclip_tool.py` | none | construction, single requests | |
| Usage logger, proxy config, launcher, deployment | `proxy/`, `scripts/start-stack.sh`, `deploy/` | totals that are printed | | |

What is hard in it, in the order of what it would cost to get wrong: transitions
of the scheduler that take minutes, interleave with its handlers at every await
and fail halfway (a card over-committed, a vision engine that is promised and
not there, a lock that is never released); permits that cross awaits,
cancellations and callbacks; consolidation of a store that others write to; a
background loop whose units are cut off by a timeout between two writes; and answers of
Paperclip that come late, out of order or not at all, to a cache that decides who may
read what and to a snapshot that is read aloud as current.
`PROJECT.json` lists these hazards line by line with the properties that cover
them.

## Modules

| Module | What it is |
|---|---|
| `VisionLease` | abstract: a vision service that is brought up on demand and leased |
| `ModelManager` | the scheduler, its callers and the engines; refines `VisionLease` under C3b |
| `ModelManagerInv`, `ModelManagerProofs` | its inductive invariants, and the proofs |
| `FifoSemaphore` (+`Proofs`) | `asyncio.Semaphore`, shared by the two caps |
| `BoundedPool` | abstract: users wait for places, at most `Max` are in |
| `ConcurrencyThrottle` (+`Proofs`) | the throttle plugin; refines `BoundedPool` |
| `OpencodeExecutor` (+`Proofs`) | `opencode_run` and its processes; refines `BoundedPool` |
| `SharedMemory` | the store and what agents do to it |
| `MemoryDream` (+`Proofs`) | a consolidation pass over that store |
| `ResearchIntern` (+`Proofs`) | the intern's loop and what it hands to memory and Paperclip |
| `CompanyCache` (+`Proofs`) | the memory server's resolution of tokens to companies |
| `VoiceDigest` (+`Proofs`) | the status snapshot of a voice call |
| `MC*` | instances for TLC; `MCPaperclipClients` holds the last three |

### ModelManager

A coroutine is cut at every `await`.  `pc[t]` says where task `t` waits; a task
is `Boot` (the lifespan's `start()`), one handler of `POST /ensure-vision` per
element of `Requests`, or a caller of `maybe_release_vision` (the `Watchdog`, or
a `POST /sleep-vision`).  `lock`, `mode`, `textProc`, `visionProc` are the
attributes of the object; the clock is reduced to `idle`, the outcome of
`clock() - _last_vision > VISION_IDLE_S`.  Engines are processes: `role` is what
one was launched as, `life` how far it is.  What a method does between two awaits
is one action: `EnsureLocked` is the entry of `ensure_vision` up to its first
await, `Drain`, `RestartText`, `TextHealthy`, `VisionHealthy` are the steps of a
transition, `ReleaseTick` the test before the lock, `ReleaseLocked` the re-check
under it, `ReleaseCheckBusy`, `ReleaseSleep`, `ReleaseStop` the teardown.  `Port`
models the one thing a health check cannot see, which process answers it.

`_stop` is two steps.  `Terminated` is SIGTERM: the engine stops answering, its calls
fail, and it holds the card until it is gone (`EngineGone`, a step of its own).
`StopResults` is the return: the poll has seen the process gone, or, with the fault
`grace`, the five seconds are over and the process is `killed`, which the code does not
wait for.  `RestartText` then launches the next engine at once, beside the killed one
if need be, and `ReleaseStop` and `CloseText` go on in the same way.  A waking call is
two steps as well (`EnsureWake`, `EnsureReturn`): between the engine's answer and the
handler's, a `/sleep` that was decided earlier may land.

`Faults` says what may go wrong.  The clock is free: `IdleElapses` may come at any
moment, because `VISION_IDLE_S` is 180 by default (line 67) while a transition may take
90 s of drain and two health waits of 300 s, and the clock is set only when a
handler takes the lock.

### The two caps

`FifoSemaphore` follows CPython: `release` hands the permit to the first waiter
(`HandOn`), which takes it when it resumes (`Resume`); a waiter cancelled in
between passes it on (`Withdraw`).  `ConcurrencyThrottle` adds the callbacks and
`_held`; whether a callback comes is up to the framework (`Faults`: a turn cancelled
in the queue, an after-callback that never comes, one without its before).
`OpencodeExecutor` adds the process, the timeout and the cancellation at each
await of `opencode_run` (`CancelAt`).

### MemoryDream

Every `session.run` is a transaction and every `await` between two of them lets
agents in.  A stage is cut where what it has read is used later: `Scan` reads the
candidates of the deduplication, `DedupHead` the neighbours of one, `Merge` decides
about one neighbour and archives in one transaction; `ReflectScan`, `Reflect`,
`StoreInsight` and `Link` are the reflection; `NodesScan`, `Query` and `Judge` the
contradiction.  `Forget` is one transaction.  Three actions stand for more than one
query: `Backfill` embeds all that it finds (each node by itself in the code),
`Reflect` reads the members, the coverage and the model's answer (no store in between
changes the members, which is all that is kept), `Judge` reads the two texts, asks
and archives (the pair is decided whatever has happened to it since it was found).
`StageFails` is an exception at a point in `FailAt`, which `_safe` turns into the
next stage; `Killed` is systemd's `TimeoutStartSec`, which ends the pass between any
two transactions and leaves what it wrote.  Agents `Remember` and `Recall` at any
moment.

Texts and vectors are reduced to two relations, `Twins` (above
`DREAM_DEDUP_SIM`) and `Close` (above `DREAM_CONTRADICT_SIM`), and the model's
answers to a choice: any insights with any evidence among the members, any
winner of a pair.  Ranks stay, with the access counts as they were read, because
the deduplication compares counts of different moments.  `Ts` gives each memory its
creation time, so memories come into being in that order.  Limits that the model
does not have: six neighbours per vector query, `DREAM_SCAN_CAP`, twenty members
per cluster.

### The clients of Paperclip

`ResearchIntern` is one coroutine; `at` is the await it is suspended at.  `Top`,
`PaperclipRead`, `GpuBusy`, `NothingToDo` and `Start` are the gate, read signal by
signal; `Start` picks a beat and marks its cooldown; each runner is its awaits
(`opencode`; `search`, `fetch`, `llm`; `recall`, `llm`), of which an empty answer
ends the unit.  For every finding `Seen`/`Unseen`, `Written`, `AgentPosted` and
`AdminPosts` are `_already_seen`, `_write_finding` and the two tries of
`_file_draft`; a request that fails may have landed (`WriteFails`,
`AgentUnanswered`).  `UnitTimeout` cancels the unit at any await.  `issues` counts what
exists in Paperclip for each finding of a beat, over all its handovers.  Replies, pages
and prompts are reduced to how sure a finding is (`Level`) and to which titles come
near which stored texts (`Resembles`).  Time is the cooldowns' only: `idle[b]` counts
sleeps of the loop up to `AgeCap`.

`FaultKinds` names what may go wrong, and a run starts with one set of `FaultSets`:
`lost`, Paperclip creates an issue and its answer does not say so; `recall`, a recall
fails or does not bring up what memory holds, so that the finding counts as new;
`probe`, a probe of the gate fails open (`_paperclip_busy` without a company, on an
error or a status of 400 and above; `_gpu_busy` without a threshold or when
nvidia-smi fails); `executor`, opencode's own timeout is longer than the unit's, so that
the cancelled unit leaves a process behind.

`CompanyCache` has requests that meet Paperclip at one await.  `Known` is what needs no
lookup, `Lookup` sweeps the cache and reads the clock, `Answer` is the moment at
which Paperclip decides, `Resolved` the moment at which the coroutine goes on and
writes the entry: between any two of them others run, time passes and tokens are
rebound, within `Bindable`.  `lastBound` is a history variable.

`VoiceDigest` has the fetch of the call's setup and the refreshes of its turns,
each of which is asked, made by the control plane (`DigestMade`), and returned or
failed, in any order.  A refresh outlives the call that made it; the next call
(`NextCall`) has a context of its own, so nothing is carried over.

## Runs

| Run | Instance | Shows |
|---|---|---|
| `manager_c3b` | 2 calls, watchdog and a hand-made release, 3 engine identities, shutdown; drains and control calls fail, hooks give up, engines take their time to exit | the card is never over-committed, the mode tells the truth between transitions, a handler's answer is true, fresh vision stays, nothing outlives `aclose`, and the manager implements `VisionLease` |
| `manager_faults` | fair; both strategies, 1 call, watchdog, 3 identities, every fault, shutdown | no two text engines live at once, a killed one aside; calls are still answered (with an error, if need be); the full slice comes back once health waits stop timing out |
| `manager_steady_race` | C3a | violated: the STEADY branch sleeps vision under a call that just woke it |
| `manager_timeout_ensure` | health timeouts | violated: a release that times out leaves MIXED without vision, and `ensure_vision` reports success |
| `manager_late_forward` | C3b, no fault | violated: vision is put to sleep under a call that was forwarded after the busy check |
| `throttle_pair` | fair; 3 calls of the orchestrator, two of which dispatch one and two of their own, 3 permits, cancellations; beside it 5 calls, two nested, under every fault | cap, exact count, pool; with fewer dispatchers than permits nobody stalls and queued calls run; under faults no permit is made or lost, no wake-up lost |
| `executor_run` | fair; 3 runs, 2 permits, 4 processes, cancelled anywhere but in `communicate()` | cap on processes, no orphan, permits, pool, every run returns |
| `executor_orphan` | the same, cancelled in `communicate()` too | violated: the permit is given back and the process lives |
| `dream_pass` | fair; a chain of three near-duplicates, an insight, one near-duplicate of another company; any number of passes | no cluster is lost and no twins are left, provenance within a company and from episodic memories, every pass ends |
| `dream_protected` | two near-duplicates of the global tier, one of a user | violated: the deduplication archives one of them |
| `clients_apart` | fair; the intern with two working beats and one switched off, three findings, two per unit, without faults and with all; the intern again with three beats of three kinds (`Turns`); two requests and two tokens, one configured, over three units of time; two minted tokens (`Rotation`); three turns of a call and two changes of status | an issue needs a memory, and a second issue for a finding near its stored text a lost answer or a recall that misses; the intern yields, drains and starves no beat; a lost token is soon refused and the cache stays swept; the snapshot of a call never goes back |
| `intern_duplicates` | the intern with lost answers | violated: the agent's request and the admin's both create the issue |

Why these bounds: a race of the scheduler needs two calls and two releasers at
most (each of its critical sections excludes the others, and what they share
outside the lock are the idle clock and the engines); three identities let an old
engine that is stopping or killed, its successor and vision coexist, which is the
violation looked for (a launch waits for a free identity, so a fourth engine is never
missed by a property, only delayed).  In the
executor two permits and three runs, in the throttle three permits and six calls,
give a full pool, a queue, and a cancellation between hand-over and resumption; two
dispatchers for three permits is the most that cannot stall.  A chain of three near-duplicates whose ends are
not near is the least in which a head is dropped with neighbours left, and a
memory is both keeper and dropped; the second company is near the chain so that the
filter matters, and only one more memory can be recalled, which changes one rank in
mid-pass.  `MaxTouch` stops counting accesses after one, `MaxInsights` answers
at one insight per cluster.

The clients share no variable and no action, so `clients_apart` explores each instance
while the others have not begun: every property is about one of them, and
its behaviours are those of that instance alone.  Two findings in one unit are the least
that lets the first be what the second resembles, and a finding handed over again
by a later unit is one that the first has left in memory, or in Paperclip only.  `Turns`
has a heavy beat, a light one and one with a longer cooldown, the least in which
one can starve, with a beats file that may fail to parse between two units; its
`AgeCap` of 6 gives a light beat a product above what the heavy one reaches between two
units of its own (at most two sleeps, a product of 4), so that a light beat that waits
outgrows it; where a light beat's age is cut off, that only counts against it.  Two requests for one token give concurrent misses, answers out of order
and a write over a newer entry.  `Rotation` mints two tokens, so that the entry to be
swept is not the one that is looked up, and its lookups take as long as an entry
lives, so that answers come too late to be of use.  Three turns give a refresh under way,
a turn that finds it there, and one that makes the next.  The throttle's two
instances are set beside each other in the same way.

The model values for engines and calls are symmetric where a run says so; no run with
liveness uses symmetry.

Some runs stop legitimately (`CHECK_DEADLOCK FALSE`): a manager that has been shut
down or did not come up, and, in the second instance of `throttle_pair`, calls whose
callbacks never come or which wait for the permits of their own callers; `NoStall` is
what says that the first instance does not.

## Fairness

Only steps that the event loop, a timeout or the operating system owes are fair.
The scheduler's steps are weakly fair because a coroutine that can run is run; the
two that take the lock are strongly fair because `asyncio.Lock` is first come, first
served, so a waiter is not passed over for ever.  `Await` is fair because a health
wait ends with an answer or at its deadline, `Drain` because it has one,
`EngineLoads` because a loading engine comes up or exits, `EngineGone` because one that
was told to stop goes or, under `grace`, is killed and then goes.  The watchdog ticks for
ever; hand-made releases, new calls, calls that end, and shutdown are not fair.  In
the throttle a tool call that runs ends and its after-callback comes, which is why
liveness is only claimed without the fault `lost`; in the executor `wait_for`
bounds `communicate()`.  In the pass `WF(Pass)` says that a running pass goes on;
nobody must start one and agents owe nothing.  The intern
(`InternFairness`, over the actions of `Timely`) owes its gate, its sleeps and its
close, whose requests have timeouts, `UnitTimeout`, which `wait_for` bounds, and the
return of opencode, which its own timeout bounds; nothing else that a unit waits for is
assumed to answer.  `YieldsGpu` is about a signal that the probe notices from some time on
(`Overlooked` names the step in which it does not), since a gate that fails open starts
units under it by design; the pause file has no probe that fails.  `BeatsServed` is
about an idle stack and a file that can be read, on which units go on being started;
nothing is assumed of the order in which beats are due.  A beat waits at most until
its product of age and weight exceeds the others', so the order is the model's to find.

## What is proved

TLAPS proves the following for every value of the constants.

*Scheduler.*  Type correctness.  `OneTextEngine`, under every fault, from
`TextInvariant`: every text engine that lives is the one `_text_proc` names, since
`_restart_text` waits for the one it names, or kills it, before it launches another.
A killed engine may still hold the card when its successor is launched; that is
what the code does, so `OneTextEngine` counts the engines that were not killed, and
`GpuFits`, which counts all that hold the card, is proved unless an engine outlasts its
grace period (`grace`) or a health wait times out (an engine that missed its deadline
may come up later, beside whatever the operator did meanwhile).  The invariant adds who holds
the lock and, for each place of the holder and each mode without one, which of the two
dangerous engines (vision, text at the full slice) is absent, the stopping ones
included.  Under C3b without health timeouts and crashes also `FreshVisionStaysUp`,
`ReportedServiceable` and the refinement of `VisionLease`; the invariant adds that
vision is loading or asleep only in a handler's wait or a release, and that a release
runs with the idle time over.  Under C3a there is no such theorem: a `/sleep` that was
decided before may land between the wake-up and the handler's answer, which is the
race of `manager_steady_race`.  That run and `manager_timeout_ensure` show that the
assumptions are needed.

`LockNeverLeaks`, under every fault and for either strategy: the lock is taken exactly
while its holder is at an await inside it, whichever exception ended the transition
before, and a call that waits for its answer has a handler that holds the lock or asks for
it.  It is the safety half of `EnsureReturns`: what remains to TLC is that the holder's
waits end.

`ModeTruthful`, for either strategy without health timeouts and crashes, from
`ModeInvariant`.  What the mode claims must hold whenever nobody is in a transition,
so the invariant says for each place of the lock's holder which text engine serves the
port, and for STEADY, which has an engine of its own and a releaser without the lock,
that both engines stay as they were launched.  `NothingOutlivesClose`, without
health timeouts but with crashes and failing calls, from `CloseInvariant`: an engine that
is alive was launched by the manager (`Launched`), and what was launched is named by one of its
handles at every place of a transition, so that a shutdown in the middle of one finds
it; what `aclose` had to kill is dying when it returns, and is not counted.

*Semaphore and caps.*  No waiter sleeps through a release, permits are conserved
whatever the framework does and wherever a run is cancelled, the cap of the throttle
holds unless after-callbacks come unpaired (and then a lost one only shrinks it),
at most `Max` processes exist and none is orphaned unless a run is cancelled in
`communicate()`.  The throttle implements `BoundedPool` unless after-callbacks come
unpaired, the executor wherever its runs are cancelled.

Who waits for whom in the throttle: `StallIsNested` holds for calls nested in any
way and cancelled in the queue at any moment, as long as a call that was let in gets its
after-callback.  When calls are queued, no permit is on its way and no call in the tool can end,
every permit is with a dispatcher: were one free, `NoLostWakeup` would have a waiter
about to resume, so all `Max` are with the calls in the tool (`HeldExact`), and a
call there that cannot end has made calls itself.  So with fewer dispatchers
than permits there is no stall (`NeverStalls`).  The bound is tight: with as many
dispatchers as permits TLC finds the stall at once, and the code has it.

`FirstComeFirstServed`, for both caps under every fault and cancellation: a permit goes to
the oldest waiter and no waiter moves back (`InTurn`; one lemma per operation of the
semaphore, the waiter that gives up in mid-queue being the one that takes work).
With `NoStall` it is what `QueuedCallsRun` rests on: somebody can always go
on, and each permit that comes back brings every waiter nearer; that it does come
back is fairness, which is TLC's.

Past the cap of the executor: `AttendedCapped` and `OrphanedByItsRun` hold also where a
run is cancelled in `communicate()`.  The finding of `executor_orphan` is therefore
exactly that one: every process in excess was left behind by its own run at that
await, and permits never admit two runs for one.

*Consolidation.*  Type correctness; `DuplicatesKept`; `TwinsMerged` for an
embedder that answers; `EdgesWithinCompany`, `EvidenceEpisodic`.  `DuplicatesKept` is the one worth reading.  It says that no
group of archived duplicates has its keepers only in itself.  It is not inductive,
because a head that was dropped goes on dropping its neighbours in favour of
itself.  `DedupSound` says why this is harmless: the neighbours left are visible,
and a dropped head has a keeper that is visible and no longer among them, so nothing
left in this turn can archive it.  A group that a merge would orphan contains the
memory it drops, so it contains the keeper, which is visible or is the head, whose own
visible keeper is in the group too; a visible memory is in no such group.  The ranks
are not needed: the code would be right with any comparison.

`TwinsMerged` needs that of two candidates both visible, one that has had its
turn has met the other or the limit is reached (`TurnsTaken`): the neighbours are read
at the turn itself, a candidate is visible until the pass drops it, and an
embedding is never lost while the embedder answers.

*Clients of Paperclip.*  Types of all three.  `FiledIsRemembered`: an issue is
filed only for a finding that memory holds and that is sure enough for a draft, whatever
fails, is lost or is cancelled between; the invariant is that a draft under way is for a
finding already written (`DraftedIsRemembered`), so that a unit cut off at any point
cannot file what its successors would not recognise.  `FiledOnce`, over any number of
units and handovers, where answers that report an issue arrive and recalls bring up what
memory holds: a finding that gets past `_already_seen` is not in memory, so, by the
former, has no issue, and it keeps none until a request for it creates one
(`FirstFiling`); a request without an answer has created none, and one that was
cancelled leaves a finding that memory holds.  The premise about the finding is
a real limit of the code: `_already_seen` compares the title with the whole stored text,
whose prefix alone (`[intern draft · beat · kind · conf=0.90]`) has seven words, and
asks for seven tenths in common (`INTERN_DEDUP_OVERLAP`).  A title of fewer than some
seventeen words never comes near its own text, and a finding with such a title is
written, and filed, each time its beat comes up with it.

`ScopeIsFresh` and `CacheSwept`, from `CacheInv`: an answer under way
was true at some moment of its lookup, so an entry, however late it is written, was
true `TTL` before it expires, because it is stamped with the clock of the question;
were it stamped with that of the answer, a lost token would live for the lookup
longer.  `SnapshotForward`, from `SingleFlight` (also a theorem, `OneRefresh`: only
the setup's fetch, then only the one `refresh_task` names, is under way) and `NotBehind` (its digest is no older than
what is shown): the guard on `refresh_task.done()` is what keeps the answers in order.

Every safety invariant, action property and refinement that a passing run checks is
also a theorem; of the second instances of throttle and token cache the properties are
those of their modules, `PermitsConserved`, `NoLostWakeup` and `CacheSwept`.  The
converse does not hold: `LockKept`, `LossOnlyShrinks`,
`StallIsNested`, `AttendedCapped`, `OrphanedByItsRun`,
`SingleFlight`, `FirstComeFirstServed`, the executor's `NoLostWakeup` and the type invariants of throttle, token
cache and voice call are in no run, because they are proved for every instance
and say, for more faults or in more detail, what a checked property rests on.

Only model-checked: the liveness properties, `SliceReturns`, `EnsureReturns`,
`QueuedCallsRun`, `RunsReturn`, `PassEnds`, `YieldsGpu`, `StopDrains` and
`BeatsServed`.  They rest on fairness, for which the proof system has no rules that would
reach them, and hold for the instances of their runs.

## Findings

The six violation runs are listed in `PROJECT.json` under `findings`, each with
the sentence of the code it contradicts.

| Run | What the code does | What it says of itself |
|---|---|---|
| `manager_steady_race` | sleeps vision without the lock, after an await | "All transitions hold `self._lock`" |
| `manager_timeout_ensure` | answers MIXED after a release that failed halfway, without a vision engine | "Make vision serviceable for an incoming request" |
| `manager_late_forward` | sleeps vision under a call that came after the busy check, `VISION_IDLE_S` after its handler took the lock | "don't tear down if a request snuck in or vision is still busy" |
| `executor_orphan` | gives the permit back when a cancelled run leaves its process behind | "Hold a permit for the subprocess's whole lifetime" |
| `dream_protected` | archives near-duplicates of the global tier and of users | "The shared ``global`` tier and user-sourced facts are never touched" |
| `intern_duplicates` | posts a draft again when the first answer was lost | "never duplicates" |

## Not modelled

Keep no state that the rest of the system depends on: usage totals, construction of
the agent and its list of approved servers, the Paperclip tool and the voice tools
(single requests, formatted answers), launcher, proxy configuration and deployment
files.

Keep some, and promise nothing that could go wrong across steps: the periodic
snapshot (a counter, then a call into the framework; with `SNAPSHOT_EVERY_N` above
one its sessions share the counter), the codex link (a sweep that is repeated for ever and
starts from what it reads), the scope migration (run once by hand), the turns
of a voice call (persisted by best effort, without order; a write whose answer is
lost is reported as one that did not land).

Of the modelled parts, left out are the one-shot mode of the intern and the contents
of its prompts, pages and replies; the stdio transport of memory-mcp and the closing of
its driver; tags and `related_keys` (they rank results and decide nothing
here), the mode of the pass that only backfills, a store without an embedding model
(deduplication and contradiction skip), two passes at once over one store, and a
graph rebuild beside a pass or a reader: the nightly unit runs one after the other.
A gated call that dispatches another gated call waits for a permit while it holds one,
so as many of them as there are permits wait for ever; this is why `NoStall` and
`QueuedCallsRun` are claimed for fewer dispatchers than permits.  A `start()` of the scheduler that fails leaves its engines to the operator, and
a restart of the intern forgets the cooldowns: the models have both, nothing promises
otherwise.  A draft whose unit is cut off after its finding was written is never
filed, since the finding then counts as seen; no document promises otherwise.
