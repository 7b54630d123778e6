# Phazex TillShield SCO Vision: formal model

This directory holds TLA+ modules for the self-checkout verification service in
`src/`: what the program does with cases, CCTV segments, sales, models and its
configuration when requests, threads, crashes and failures fall between its steps. The modules are checked
with TLC on small instances, and the results that matter most are proved with
TLAPS for every value of the constants.

    tlc -config CaseLifecycle_auto.cfg MCCaseLifecycle.tla     # one run
    tlapm CaseProofs.tla                                       # the proofs of one component

`PROJECT.json` lists the runs, the source lines each definition stands for, a
mutant (a plausible bug) for each property, the hazards of the code and the
places where the code and its documentation disagree.

## The system

A POS agent reports self-checkout sales. Each accepted sale opens a case. CCTV
of the till is recorded in 60 s segments; for each case a window around the sale
is cut from the segments (or fetched from the NVR), perception and a VLM look at
it, a deterministic policy turns their output into an outcome, and an evidence
package is written. Reviewers label cases or ask for a new analysis; results may
go to a refund agent. The service is one FastAPI process with a SQLite database,
several threads and a request thread pool, with a recorder process and the
Falcon engine server beside it, and a dashboard process that watches cameras live.

| part | state it keeps | operations | what is hard | what makes it correct | module |
|---|---|---|---|---|---|
| POS ingest (`pos/`) | `pos_batches`, `pos_events`, `cases`, `pos_poll_state` | poll cycle, posted batch or event | two writers of the same sales; SQLite commits at the release of an outermost savepoint; the agent delivers late, out of order and twice; a cycle that aborts | every sale delivered in time becomes an event and a case once; a replay changes nothing | `PosIngest` |
| Case lifecycle (`app/auto_analyzer.py`, `app/api/cases.py`, `app/api/review.py`, `app/case_runner.py`) | `cases`, `video_windows`, artifacts; pool queue in memory | select and claim, reprocess, review, analyse, restore after a failure, restart | rows are read in one transaction and written in another; the queue dies with the process; the failure handler can fail | a claimed case always has work on its way; one work item per case; verdict, window and package agree | `CaseLifecycle`, `CaseDesk` |
| Refund export (`pos/refund_agent_export.py`) | audit rows; a pool queue in memory | look up, post, audit | creation at the agent and audit row are two steps; random ids order the rows; the queue dies with the process | one refund per case; every analysis is reported | `CaseExport` |
| Segments (`video/`, `app/storage_guard.py`, `pos/correlation.py`) | files, `video_segments`, `video_windows` | record, index, expire, clean up, re-time, plan, link, build | files and rows change in different steps and processes; cleanup works from a list it read earlier | linked footage stays; a row describes its file; a clip covers what its plan counted | `SegmentStore` |
| One analysis (`app/case_runner.py`, `perception/`, `reasoning/`) | the window row and what each stage hands to the next | plan, build or fetch the clip, detect and track, select the episode, group and count, ask the model, decide | stages swallow their failures; boundary cases of windows; three prompts with a policy each; two detectors | VERIFIED rests on evidence; boxes seen apart are counted apart | `Analysis`, `ItemCount` |
| Memory guard, provider chain (`app/memory_guard.py`, `reasoning/providers/`) | guard state, registered callbacks, loaded weights | poll, unload, load, generate, build a chain | several threads poll; memory is measured outside the lock; a load may be under way; registration is by name | no inference starts above the limit; one model at a time; the hard limit unloads | `ModelMemory` |
| Falcon engine (`Falcon-Perception/falcon_perception`: `server/engine_worker.py`, `paged_inference.py`, `paged_attention.py`) | queues, slots, pages of the cache, pages of a layout half done | submit, prefill, decode, preempt, finish, fail, harvest | slots and pages run out; a step raises in the middle; several sequences make one answer | no slot is shared, no page lost; each request gets one whole answer | `FalconEngine` |
| Administration (`app/api/admin.py`, `app/config.py`, `app.py`) | `config.yaml` | four PATCH handlers, the dashboard's requests and saves | the file is emptied and rewritten without a lock, from copies of any age | the file stays legal; an edit is not lost | `ConfigFile` |
| Live monitor (`app.py`, `monitor.py`, `session_logger.py`) | open sessions, pending clips, inference queue, session numbers, the day's CSV, evidence files | record, merge, hand on, analyse, log, stop, start | a thread per camera, the dispatcher, the inference worker; a bounded queue; a stop that waits for none of them for ever | each session in one row or one of the named losses; ids and evidence are not confused | `LiveMonitor` |
| Evidence packages (`evidence/`) | artifacts, packages | build, hash, persist, verify | what is hashed and what changes later | a package verifies unless it was changed | outcome only, in `CaseLifecycle` |

They interact through the database, the disk and the pools. `PosIngest` opens the
cases that `CaseLifecycle` starts from. An analysis is one job of the worker
there; two modules look inside it. `SegmentStore` has its footage: `LoadCase` is
`PlanWindow` and `LinkWindow` there, `AcquireWindow` and `CloseInvalid` are
`BuildWindow` and `NoLocalClip`. `Analysis` has its data: what the stages make of
one window up to the verdict that `Decide` enters. `CaseExport` extends
`CaseLifecycle`: the worker puts its case in the exporter's queue in a step after
the verdict's commit, and a restart ends both. `AskModel` in `Analysis` is a run of `ModelMemory`, and
the detections of a scene come from the server of `FalconEngine`; those two keep
their state apart from cases, so they are composed by name only.

## Sessions and commits

What is one action follows from SQLAlchemy on SQLite. A `SELECT` opens no
transaction there, so a handler that reads a row and commits later lets others
commit in between: reading and committing are two actions. The unit of work
writes only the columns whose value differs from what it loaded; `NetColumn` and
`Flush` in `CaseLifecycle` say so. A flush takes the write lock until the commit,
so what follows a flush up to the commit is one action. `begin_nested` with no
transaction open makes a savepoint whose release commits (`PosIngest`,
posted batches); the poller has written its state row before, so its savepoints
are nested and its workstation is one commit.

## CaseLifecycle

State: the committed rows, the newest window row and package of each case, the
pool's queue and its one worker, the auto-analyzer's cycle, the request handlers.
`stranded` is a history variable: cases put in REPROCESSING by a step that queues
nothing. `spent` counts the bounded things.

| actor | actions | code |
|---|---|---|
| auto-analyzer | `AutoSelect`, `AutoClaim`, `AutoSubmit` | `queue_open_cases`, called when `_pool_backlog` is below 2 |
| request handlers | `ReadForClaim`, `CommitClaim`, `SubmitClaim`; `ReadForReview`, `CommitReview` | `_claim_for_reprocess`, `reprocess`; `submit_action` |
| worker | `FetchJob`, `LoadCase`, `AcquireWindow`, `CloseInvalid`, `Decide` | `_run_reprocess`, the three commits of `analyze_case` |
| worker, failing | `AnalysisRaises`, `ReadForRestore`, `CommitRestore`, `RestoreLost` | the failure handler |
| process | `Restart` | `_lifespan`, `_recover_stale` |

`RestoreLost(time)` is the failure handler that itself fails; `HandlerLost` says
when, up to the bound `MaxLost`. After it the case stays in REPROCESSING, as it
does when a failed analysis restores a status that was REPROCESSING already, and
`stranded` says so.

`CaseDesk` is what the automatic analysis promises: open cases are claimed in
batches, a claim is settled or given back, a verdict stands. `ImplementsDesk`
maps a row's status to the desk and checks that the code, with its fairness,
implements it.

`ClosedVerdictPackaged` ties verdict, package and window together: the newest
package of a closed case has the outcome in the row, and its window row is FAILED
exactly when the reason given is that there is no footage.
An INVALID_VIDEO verdict may also come with a clip that was acquired.

Run `auto`: four cases, batch 1, two failures, one restart, no requests. Four
cases are needed for one running, one queued, one being claimed and one more to
choose wrongly. It checks the refinement, one work item per case, the backlog
bound, agreement of verdict, package and window, and that every case is settled.
Requests are the subject of `races`, the next section. Deadlock checking is
off: with every bound spent and every case settled the model has nothing to do,
where the code waits.

Fairness: weak fairness of the auto-analyzer, the worker and a handler that has
begun. The first two are threads with no lock of the model's to wait for, whose
calls out have time-outs; a handler runs in the server's thread pool. Nobody is
obliged to send a request, and a failure is never required. `EventuallySettled`
rests on the bound on failures: a case that always fails is tried for ever.

## CaseExport

The lifecycle beside the pool thread that reports results to the refund agent,
with `integrations.refund_agent` enabled (the delivered configuration disables
it). The verdict is committed when an analysis returns (`Return`, conjoined with the
worker's step); the export is queued in a later step of the same worker, which takes
no other job in between (`returned`).

| actor | actions | code |
|---|---|---|
| worker | `Return`, `SubmitExport`, `NotSubmitted` | the else branch of `_run_reprocess`: the configuration is read, the case is queued, or reading, the setting or `submit` says no |
| exporter | `ExportSkipped` | `maybe_export_case`: the configuration is read again and says no, or a read raises |
| exporter | `ExportRead`, `ExportPosted`, `ExportQueued`, `ExportRaises` | `_export`: the lookup in the audit log, the post, a 202, a lost post or answer |
| exporter | `ExportAudited`, `ExportUnaudited` | the audit row, its commit failing |
| process | `ExportsLost`, with `Restart` | the pool's queue and the worker's hand-over, in memory only |

`refunds` is the agent's side. `blind` and `missed` are history: cases with a
refund whose id never reached the audit log, and cases an export of which came to
nothing: not queued, skipped, refused by the agent, or gone with the process between
the verdict's commit and the post. `OneRefund` and `Reported` exempt just these. The
row that is found is the one with the greatest id and ids are random, so a null id
may hide a refund (`PriorRefund`).

Run `races`: one case, two handlers, two reprocess requests, one review, one failure,
one lost failure handler, one restart, one fault of the export (a configuration
that says no, an answer that is no creation, a failing commit). Every property of it
speaks of one case at a time and cases interact only through the order of the
queues, which the `auto` run covers. The handlers are symmetric. It checks
`Custody` of the lifecycle beside the properties of the export. With 7.1 million
states it is the largest run, about two minutes.

## SegmentStore

State: the content of each file (partial, slow motion, real time: enough for its
hash to differ), the hash in each row, the corrupt flags, the segments named by
window rows, the retention horizon, the recorder, the cleanup requests, the
analysis job, each case's clip. `late`, `stale` and `leaked` are history: they
name the exact steps in which the code may lose a linked file, leave an old hash
or forget a file, so that the invariants say that there is no other way.

Recorder: `StartSegment`, `CloseSegment`, `IndexSegment`, `IndexFails`,
`RecorderCrash`. Cleanup: `ReadCandidates`, `RemoveFile`, `RemoveFails`,
`CommitCleanup`, `CleanupAborts`. Job: `StartJob`, the re-timing steps
`EncodeRetimed`, `ReplaceFile`, `SkipRetime`, `CommitRetime`, `RetimeRaises`, and
`PlanWindow`, `LinkWindow`, `BuildWindow`, `NoLocalClip`. `AppCrash` ends cleanup and job,
not the recorder.

Runs. `retention`: three segments, two of them there from the start in slow
motion, two cases whose windows share a segment, one job of either case, two
cleanups that may run at once, a crash and a failure. The hazards need a segment,
a job and a cleanup; the second cleanup removes what the first has chosen too.
The cleanup requests are symmetric. `linked` is a disagreement, see below. Deadlock checking is off: when everything
is recorded, expired and all runs are used the model stops.

## PosIngest

State: the clock, what the agent has landed, the cursor of each polled
workstation, the batches by payload hash, the events, the cases, the poller, the
posts in progress. `since`, `dropped` and `orphaned` are history.

The poller: `StartCycle`, `FetchRows`, `FetchFails`, `CommitPoll`, `CycleAborts`.
A post: `PostBatch`, `StoreEvent`, `OpenCase`, `PostDies`. The agent: `Land`
(any order, at most `MaxDelay` late, which `Tick` enforces).

Runs. `ingest`: two workstations, three sales and one row of another type, two
posts of the same two sales, one failure, overlap equal to the largest delay. It
checks the invariants and `CaughtUp`. `collision` is a disagreement, see below. The clock stops at 3, one more than the last
sale's time; the poller goes on for ever. Fairness: the poller's loop, and the
steps of a post that has begun.

## LiveMonitor

The dashboard process `app.py` is another program than the service above: it
watches cameras live and shares no state with the cases.

State: what each camera's worker records, the dispatcher's queue and its pending
clip per camera, the inference queue and worker, the numbers of the session ids,
the rows of the day's CSV, the evidence files, the running threads, the life of
the process. A clip is the sequence of sessions it was merged from. `ended`,
`parted`, `failed` and `lost` are history; the code counts `dropped`.

| thread | actions | code |
|---|---|---|
| camera | `StartSession`, `KeepRecording`, `EndSession` | one sampled frame of `CameraWorker.run` |
| dispatcher | `ReceiveFirst`, `Merge`, `Replace`, `FinalizeStale`, `DispatcherEnds` | `SessionDispatcher.run`; the similarity of two clips is a choice |
| inference | `TakeClip`, `SaveEvidence`, `LogRow`, `LogClosed`, `AnalysisRaises`, `InferenceEnds` | `analyze` in `build_analyzer`, `InferenceWorker.run` |
| process | `RequestStop`, `CloseLog`, `ProcessExits`, `ProcessDies`, `Boot` | `stop_pipeline`, `start_pipeline` |

After a stop is requested a camera may still process the frame it has read, and
the two other threads end when they see nothing left to do. The joins have
time-outs, so `CloseLog` waits for nobody, and a row that comes after it fails.

Run `monitor`: two cameras whose ids make the same prefix, one with a cooldown;
two sessions, a queue of one clip, and one trouble (a failed analysis or evidence
file, a stop, or a death with a restart). Two sessions and a queue of one are
enough for a merge, a full queue, a row out of order and an id given twice. The
times are the smallest for which a session can start and end within the time a
pending clip waits, and for which an id can be logged, the process restarted and
another one logged.
Sessions shorter than `MinSession` do not occur with these times. The last tick
stands for all the time after it, in which nothing is recorded. Fairness: time,
the dispatcher, the inference worker, and a stop that has begun; cameras owe
nothing. `EvidenceIsOwn` speaks of rows whose evidence was saved: for a row
without, the endpoints may show the file of a clip that had the id before.
Deadlock checking is off: everything settled is an end.

## Analysis and ItemCount

`ItemCount` holds the pure code of perception as functions on scenes: `Tracker`
(confirm, close), the union of the two detectors' results, the episode selector,
the grouper and the container merge. A scene is what Falcon sees in each frame and
the objects SAM 3 follows. A box is the spot it lies at, so that overlap is
equality and distance a difference; boxes have one size and scores are equal. Loops
of the code are recursive functions: the tracker over the frames, the grouper over
the generic tracks, a pass of the merger over the turns of its two loops (`Turn`).

`Analysis` runs them as the steps of one attempt at a case: `Plan`, `BuildLocal`
or `RetrieveNvr`, `Perceive`, `SelectEpisode`, `BuildPrompt`, `AskModel`, `Close`,
and `Raise` for what nobody catches. Perception, episode, grouping and chain may
each fail on their own; the code goes on without their result. `Close` is one of
three policies, by the active prompt version; each keeps the order of its gates.
`sale` is the frame the clip's time stamps give the sale, `real` the frame it has.
They differ when a clip of the recorder has other rolls than the plan, and when the
recording has a gap before the sale: a local clip is cut by its offset out of the
joined segments, in which the gap takes no time. Segments may also begin after the
plan or, joined whole, before it; then the stamps follow. A failing grouping is no
count, or that of a merger that was given nothing (`NoContainers`). `Raise` stands
for every exception that nobody catches, those of frame extraction and of the zone
views too.

Run `analysis`: seven frames, three spots (at the till, beside it, far from it),
some hundred scenes, every answer of a sure model under each prompt, one of an
unsure one and one that the parser rejects, bills of 0, 1 and 3 lines, a pre-roll of
four frames, local clips that begin a frame later or earlier than planned, with no
gap or with one in which the sale itself was lost. The horizon is
one more than an episode and its tolerances take, so that activity may be before,
about and after the sale, split, or too long; three lines and three boxes are
enough for a cluster to grow through a third. `VerifiedBacked` states the evidence
from the scene, not from what the stages computed of it; `ApartStayApart` is rule
R2 of the merger. Run `sale`, with two pre-rolls and a gap of two frames, is a
disagreement, see below. An attempt ends, so deadlock checking is off.

## ModelMemory

State: the guard's level, reason and callbacks, who is in its lock, what each
thread measured before it took it, each analysis, and the objects whose weights
are loaded. An object is a chain and a provider's name. `late` and `stale` are
history: objects loaded after the crossing of the hard limit by an analysis that
had polled before it, and whether a poll went by a state another poll had changed.

| actor | actions | code |
|---|---|---|
| any poll | `Probe`, `View`; `PollEnter`, `PollUnload` | `MemoryPolicy.poll`, `_on_state_change` |
| analysis | `StartRun`, `Defer`, `MarkLoaded`, `LoadStarts`, `LoadEnds`, `GenerateEnds`, `ExternalAnswers`, `UnloadFailed`, `MarkUnloaded`, `EndRun` | `build_active_provider`, `ChainProvider.analyze_evidence`, the in-process provider |
| panel | `PanelBuilds` | a chain built to be shown: it registers its objects all the same |

The memory in use is at any level at any poll. Objects nobody refers to are
collected with their weights (`Collected`). Run `memory`: a local primary with an
external fallback, two analyses, one viewer, two chains
built and two polls of the viewer. Two chains are the fewest of which one takes the
other's name, and two polls of others the fewest for a stale one. An analysis
goes by the answer of its one poll for every provider it comes to, whatever others
have polled since; `GateHeld` says so for loading and generating. Fairness is that of the threads' steps
once they have begun; `AnalysesEnd` says that the guard's lock and the load locks
are never waited for in a circle. The run ends when the bounds are used up:
deadlock checking is off. A chain of one provider polls nothing and registers
nothing (`Chained`). The delivered `config.yaml` is such a one, a single external
provider with `fallback_provider: null`: neither the run nor the theorem about
`GateHeld` is about it. With one local provider `GateHeld` does not hold, which is
why the theorem assumes two.

## FalconEngine

State: each request's future, the worker's queue and program counter, the
engine's queues, each sequence's slot and length, the cache's free slots, free
pages and page tables, the regions of a layout that are still to come. `struck`
and `refreed` are history: requests with a sequence in a batch whose step raised,
and whether a slot was erased for a sequence that had lost it before.

Actions: `Submit`; `Enqueue`, `AnswerAtOnce`, `StartStep` (the loop's drain);
`Admit`, `AdmitsNobody` (prefill), `Grow`, `Preempt`, `DecodesNobody` (decode),
`Forward` (the network, with any tokens); `Harvest`, `Harvested`; and what raises:
`TokenizeRaises`, `ForwardRaises`, `FinalizeRaises`, `Dies`. A cache page holds one
token, so a sequence asks for a page at each.

Run `engine`: two plain requests and a layout of two regions, three slots, four
pages, at most three new tokens, length four, two failures. Four sequences for
three slots and four pages make both run out; a sequence of the greatest length
fits alone, which `SizesAssumption` asks, for otherwise the engine preempts for ever.
Two failures are a failing step and another that erases the slot again. Fairness:
the worker's loop goes on. Deadlock checking is off: an idle or dead worker waits.

## ConfigFile

Everybody who writes `config.yaml`. A thread of the API: a PATCH is checked
against one reading (`PatchPrompts`, `PatchSettings`, `PatchRois`, `PatchModels`),
the file is read again (`ReadRaw`, `ReadFails`), emptied (`Truncate`), written
(`WriteText`) and the change audited (`Audit`). The dashboard reads the file once
(`DashboardStart`). Its POST handlers run on threads of their own, which share that
copy and set its keys one after another: `PostPrompts`, or `SetSource`,
`SetClassifier` (which resets the prompts) and `SetZone` of one camera. A classifier
nobody knows ends the request with 400 (`RefuseClassifier`) after its source has been
set; the source stays in the copy, and the next save writes it. A save turns the
whole copy into text (`Dump`), empties the file (`DashboardTruncate`) and writes
(`DashboardWrite`). `Crash` and `DashboardStops` may come between emptying and
writing. An empty file parses, as nothing; a text written over the longer text of
another writer may be no YAML (`garbled`). `laid`, `wanted`, `fresh`, `overlapped`
and `torn` are history: the keys the dashboard's requests have set since it started,
the file that all edits and saves in order would give, the writers and the copy that
hold the last write, whether a stale text was written, and whether a writer died.

Run `config`: two editors and two threads of the dashboard, one camera, two
workstations, one of them mapped, two edits, one save, one death, and the delivered
model flags. Requests of the dashboard are not counted, the texts made of its copy
are: one request may be refused and another save what it has set, or save half of
what it is still setting. Two edits and a save are the fewest for which an edit is
overwritten by each kind of writer; that an older text of the dashboard may follow a
later one needs two saves, which only the theorems cover. Threads are symmetric.
When the bounds are used up nothing happens: deadlock checking is off. With 4.6
million states the run takes three minutes. A request that fails for another
reason than its classifier ends before it has set anything. The name, the token
budget, the cool-down and the two options of the model are set in the same way as the
source and left out. `Dump` is one step: that `safe_dump` goes through the copy dict
by dict, and may take a later key of another request without an earlier one, is not
modelled.

## Where the code and its documentation disagree

Three are runs that must find a violation; the full text is in `PROJECT.json`.

- `linked`: cleanup removes the file of a segment linked after it read its list
  (`app/api/storage.py:54-56`: "Linked-to-case segments are NEVER touched").
- `collision`: the hash of a TillShield batch leaves out store and workstation, so a
  sale of another till with the same id is answered as a duplicate and dropped
  (`docs/TILLSHIELD_INTEGRATION.md:18-20`).
- `sale`: a clip of the recorder bears the plan's time stamps but shows the camera's
  rolls, and a local clip has no room for the gaps before the sale; with an operator's
  wider pre-roll, or a gap, another customer's visit is taken for the one at the sale
  (`video/window_builder.py:61-62`, `perception/episode_selector.py:13-14`).

The others are stated in the modules under "Not so" or by a constant of a run, and
TLC refutes each when it is given as an invariant; no run is kept for them.

- A failed analysis of a case that was in REPROCESSING restores REPROCESSING, and
  nothing moves it again, while `app/api/cases.py:36-38` says that it is never left
  stuck (`FailedNotStuck`).
- A clip may be built from fewer segments than its coverage was counted from
  (`CoverageBeforePerception`; `pos/correlation.py:11-13`).
- Rows later than the 600 s overlap are behind the cursor for good, while 30 minutes
  is documented as normal (`docs/TILLSHIELD_INTEGRATION.md:106-108`): `RowsStayReachable`
  with `MaxDelay` above `Overlap`.
- With a count at hand the policy of prompt v2 does not look at the model's
  `physical_count_match`, which its docstring requires (`VerifiedPassesGates`).
- The merger's rule R2 does not reach groups that Falcon saw (`ApartWhoeverSees`).
- Above the hard limit an object that a later chain displaced from the guard's
  registry keeps its weights (`HardLimitDropsWeights`), and a jump straight to
  EMERGENCY unloads nothing.
- A chain of one provider never polls, although `build_active_provider` says
  that "memory-state checks still apply".
- The agent may hold two refunds of a case (`NeverADuplicate`;
  `pos/refund_agent_export.py`: "never create a duplicate").
- The PATCH of the model controls may read the file another writer has just emptied
  and write it back without cameras (`CamerasStay`), and the PATCH of a camera may
  leave an allowed workstation unmapped, with which a production start refuses
  (`AllowedAreMapped`).
- A step of the engine that raises leaves its own batch unanswered, while
  `_fail_all_pending` says "every in-flight sequence" (`EveryInFlightAnswered`).

## Proofs

| module | theorems about |
|---|---|
| `CaseProofs` | `CaseLifecycle`, `CaseDesk`, `CaseExport` |
| `SegmentStoreProofs`, `PosIngestProofs`, `LiveMonitorProofs`, `ModelMemoryProofs`, `ConfigFileProofs`, `FalconEngineProofs` | the module each is named after |
| `AnalysisProofs` | `Analysis` with the functions of `ItemCount` |

Every invariant that a passing run checks is a theorem, under the assumptions on the
constants that the modules state and, where it is said below, one more.

`CaseProofs`, the lifecycle: `TypeCorrect` proves `TypeOK`, and `CustodyKept` proves
`Custody`: a case in REPROCESSING always has a work item on its way to the worker,
or was put there by one of the three steps that queue nothing. The assumptions are
those on the constants in `CaseLifecycle`, nothing else: any cases, any number of
handlers, any bounds.

`Custody` is not inductive. A work item may exist that will not move its case: one
whose analysis loaded the row in another status writes no status, because only
changed columns are written, and one whose prior status is REPROCESSING restores
just that. When such an item ends, the case must not depend on it. `CustodyInv`
therefore asks for a work item that is `Tended`: its prior status is not
REPROCESSING, and while the analysis runs, the row it loaded said REPROCESSING. It
also records that the auto-analyzer only holds rows it read as OPEN, and that the
failure handler only goes on when it read REPROCESSING. `CustodyInvariant` proves
it with a lemma for each action; `Flush` has a lemma of its own that tells which
status a commit can leave.

`SegmentStoreProofs`: `TypeCorrect`, `LinkedSegmentsKept` (`LinkedKept`),
`NoFileForgotten` (`FilesAccounted`) and `HashesCurrent` (`RowsDescribeFiles`), from
`StoreInv`, for any number of segments, cases, cleanups and crashes. What the three
lack on their own: that a segment the index does not know yet is the recorder's
alone, being written or waiting to be indexed exactly once (`RecorderInv`);
that a linked segment some cleanup has chosen is in the history of late links
(`ChosenLate`), because a cleanup chooses only unlinked segments; and that what a
re-timing session has replaced plays in real time until it commits, is removed, or
is in the history of stale rows (`ReplacedRealtime`).

`PosIngestProofs`: `TypeCorrect`, `EventsGetCases` (`EventsHaveCases`) and
`NothingLeftBehind`, that `RowsStayReachable` holds whenever the agent's largest
delay is at most the overlap. With a larger one TLC finds it violated.
The argument is `PollInv`: between its fetch and its commit a poll may miss sales
that land meanwhile, but what it did not fetch from its window was not overdue
when it began, so its time plus the delay is not before the poll's clock, which
the new cursor does not pass. `PostsInv` says that a post opens a case for an event
it has stored.

`CaseProofs`, the desk: the automatic analysis without requests (`NoClicks`, the
constants of `auto`, for any number of cases and any bounds). `PickedUpOnce`
(`NoDoublePickup`), `VerdictPackaged` (`ClosedVerdictPackaged`),
`BacklogIsBounded` (`BacklogBounded`, for a handler that is not lost, `NoLoss`) and
`ImplementsDeskSafety`: the initial state maps to the desk's, and every step to a
step or a stutter of it. `DeskInv` says where a case's work item may be: in the
auto-analyzer's batch, in the queue or with the worker, in one of them at most, and
in REPROCESSING from its claim on; and that what the worker has read of its row is
still what is committed, so that what it writes is what it decided.

`CaseProofs`, the exporter: `ExportTypeCorrect`, `RefundedOnce` (`OneRefund`),
`AnalysesReported` (`Reported`), and that the export is beside the lifecycle:
`ExportIsBeside` shows that each step of the whole is a step of `CaseLifecycle` or
leaves it alone, so that `CustodyBesideExport` takes `Custody` from the theorem
about the lifecycle. `ExportInv` says how far the audit log can be trusted: unless a case
is blind, its refund is in the log or in the exporter's hands and no row of it is
without an id, so that whichever row is found is the right one; and an id in the log
is that of a refund that exists. A case in need of a report passes from the worker
that has committed its verdict to the queue and to the thread, unless it is `missed`.

`ModelMemoryProofs`: `TypeInvariant`, `GateInvariant` (`GateHeld`, where the chain
has two providers), `OneHeldInvariant` (`OneOfAChain`) and `HardLimitInvariant`
(`HardLimitUnloads`), from `MemInv`, for any threads, providers and orders of
callbacks. It adds that the thread in the lock is in the middle of its callbacks, that
chains in use are different ones, that an analysis holds only what it loaded for the
provider it is at, and that a registered object with weights is still to be unloaded
or was loaded after the crossing.

`LiveMonitorProofs`: `TypeCorrect`, `EachSessionInOnePlace` (`EachSessionOnce`),
`RowsKeepOrder` (`RowsInOrder`) and `EvidenceInvariant` (`EvidenceIsOwn`), for any
cameras, cooldowns, windows and queue sizes. `FlowInv` follows the clips from the
dispatcher's queue to the log: a clip is over before any clip of its camera that is
behind it begins (`Placed`, `Ordered`), any two clips are apart wherever they are
(`Separate`), and every session is in one (`Covered`). It is inductive only with
`Timely`: a session that ends now is after all that ended before, and is not empty,
because both time-outs of `SettingsAssumption` are at least a second; an empty session
would be before and after itself. That a merge keeps all this rests on nothing lying
between the pending clip and the session merged into it. `EvidenceIsOwn` needs the
ids too: a file with an id that has not been given in this process is of an earlier
one, hence older than everything the process knows (`FilesOld`), and after a restart
the numbers go on where the log ends (`IdsGiven`).
`ReturnsAreMerged` (`ReturnsMerged`) rests on `ReturnInv`: a clip is handed on only
because a later session of its camera came, or because the wait for one is over.
After either, no session that ends can still begin within the merge window of the
clip: it would lie behind the one that overtook it, or end too late. And the session
that overtook it within the window was found dissimilar, which `parted` records.

`ConfigFileProofs`: `TypeInvariant`, `FlagsInvariant` (`FlagsLegal`),
`RouteInvariant` (`RouteUnambiguous`) and `EditsInvariant` (`EditsKept`), from
`ConfigInv`: every configuration in the file, in a writer's hands or in the
dashboard's memory is sound by itself, the empty one too; and until a write overlaps
another or ends half-way, a writer is alone and writes the last write's configuration
with its edit applied, or with the keys that the dashboard's requests have set (`Kept`).

`FalconEngineProofs`: `TypeCorrect`, `NoSlotIsShared` (`SlotsExclusive`),
`NoRequestIsForgotten` (`NothingForgotten`) and `PagesAreWhole` (`WholePage`), from
`EngineInv`, for any requests and layouts, any number of slots, pages and failures,
where a sequence of the greatest length fits into the cache (`SizesAssumption`).
A sequence is in one place of one queue (`Places`) and in none before its request
leaves the worker's queue (`Untouched`), so that no step takes it up twice. Pages are
counted in every state (`PageCount`), but that each slot has one owner (`Cache`)
needs that no slot was erased twice: a failing step erases the slot of a sequence
that was preempted, and that slot may be free or another's by then. `Counting` makes
the number a layout still waits for that of its regions not yet collected, which is
why the last one to be collected completes the page.

`AnalysisProofs`: `TypeCorrect`, `VerdictsAreBacked` (`VerifiedBacked`) and
`ApartAreNotMerged` (`ApartStayApart`), for any scenes, bills, answers, pre-rolls, gaps
and settings of the stages. About a scene they assume what the detectors' results are made
of (`ScenesAssumption`): finitely many boxes in a frame, at known spots with known
labels, and objects that each have a number, not 0, and at least one frame. An
attempt hands on what the stages computed (`AttemptInv`): the work is in the stages.

- An exported track was seen, with its label and in each of its zones, in its first
  frame and in its last (`TrackedType`, `Exported`): the tracker opens a track where a
  detection is and moves its end only there. A group of the episode selector begins
  and ends where tracks do (`GroupEnds`), so an episode that is neither ambiguous nor
  short is a visit the detectors saw about the sale (`EpisodeVisit`). Where the
  selector fails there is no episode, and neither policy that asks for one lets that
  pass. The gates of each policy give the rest
  (`Verified2`, `Verified1`, `VerifiedLegacy`).
- A track is in one group (`GroupsApart`), and under SAM 3 alone every object is one
  track with its number (`ObjectTracks`); so each number belongs to one candidate, and
  two objects seen apart in a frame make their candidates a conflict (`ConflictOf`).
  No turn of the greedy loops puts two candidates of a conflict into one cluster,
  though the clusters grow while they are compared (`Agreeing`, `TurnType`). Beside
  Falcon the first step fails: its boxes have no number, so that no conflict comes of
  them, and the numbers of its tracks are taken for those of objects.

Both modules prove statements about recursive functions on sequences and frames. The
library's induction theorems take an operator, which no installed prover instantiates.
A set can be instantiated: the counterexamples of a statement are a set, a set of
numbers or finite sets that is not empty has a least element (`LeastNatural`,
`LeastSet`, from the library's well-founded ordering of finite sets), and it has none.
`Recursion` shows in the same way that the function exists at all.

Only model-checked: all liveness, `EventuallySettled`, `CaughtUp`, `SessionsSettle`,
`AnalysesEnd`, `RequestsAnswered`, and the fair half of `ImplementsDesk`. Liveness under
fairness and ENABLED are out of the prover's reach. The disagreements are
counterexamples of TLC.

## Not modelled

- What neural models compute (`falcon_detector.py`, `gemma_reasoner.py`,
  `perception/*_client.py`, the network, tensors and CUDA graphs of
  Falcon-Perception): any answer or an error is an input of `Analysis` and
  `FalconEngine`. That code and the demos around it are most of the lines no
  definition stands for.
- The NVR's protocol and ffmpeg: a clip is delivered or not, with its rolls.
- What a report to the refund agent or an evidence package says, the masked clip, the
  hash of a package and its verification: nothing in the modelled code depends on
  them. OCR, keyframe choice and the translation of SKUs into prompts: text.
- Offline installation and scripts: checks of files without state over time.
- The pages under `static/` and the dashboard's. The review page keeps state that
  answers arriving out of order can confuse: `openCase` makes the clicked case
  current before its panel is rendered, so that an action chosen on the panel shown
  goes to the case clicked last; answers of two loads may be rendered in either
  order; two overlapping triggers share the disabled state of both buttons
  (`static/review.html:1325-1605`). The ROI tab may save a snapshot of the camera
  shown before and discards unsaved edits after a save; the model controls save all
  six flags from what they loaded. The service accepts each such request, and the
  modules above have it as a request of any client.
- `app/camera_rois.py`: geometry of a point in a polygon. Its docstring counts edges as
  inside, which holds for left and bottom edges only.

## Plan

Done: all modules of the table above, checked, with every invariant proved. What
would add most from here:

1. Abstract specifications beside `CaseDesk`, with the step-by-step refinement proved:
   a pool of slots and pages for the engine, and requests that are answered once; a
   log of the sessions for the live monitor.
2. The review page with its overlapping requests; the zone trigger and the frame
   broker of the live monitor; several Falcon workers behind one router.
3. The package's hash: what is hashed, what changes later, and what verifying tells.
