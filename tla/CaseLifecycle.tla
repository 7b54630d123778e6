---------------------------- MODULE CaseLifecycle ----------------------------
(***************************************************************************)
(* The life of a case row once POS ingest has opened it.  Four kinds of    *)
(* actor write the same rows, each in its own database session:            *)
(*   - the auto-analyzer thread, which claims OPEN cases and queues them   *)
(*     (app/auto_analyzer.py);                                             *)
(*   - request handlers, which claim one case for re-analysis              *)
(*     (app/api/cases.py) or record a reviewer's action                    *)
(*     (app/api/review.py);                                                *)
(*   - the single worker of the reprocess pool, which runs analyze_case    *)
(*     and, when that raises, the failure handler of _run_reprocess;       *)
(*   - a process restart, which loses everything that is not in the        *)
(*     database and then runs AutoAnalyzer._recover_stale.                 *)
(* A handler reads the row in one step and commits in a later one: SQLite  *)
(* opens no transaction for a SELECT, so other commits fall in between.    *)
(***************************************************************************)
EXTENDS Naturals, Sequences, FiniteSets

CONSTANTS
    Cases,         \* the cases ingest has opened
    OpenedAt,      \* Case.opened_at: the order the auto-analyzer serves
    Clients,       \* request handlers that can be in progress at once
    Risks,         \* abstract (risk_score, risk_reasons) pairs
    Decisions,     \* what the decision policy may return: [outcome, risk]
    ReviewForms,   \* the review bodies posted: [action, outcome]
    AutoEnabled,   \* reasoning.auto_analyze_enabled
    Batch,         \* reasoning.auto_analyze_batch
    MaxRequests, MaxReviews, MaxRestarts, MaxFailures, MaxLost
                   \* bounds of the model on what may happen in one behaviour

None == "none"
Statuses == {"OPEN", "IN_REVIEW", "CLOSED", "REPROCESSING"}
Outcomes == {"VERIFIED", "REVIEW", "HIGH_RISK_REVIEW", "INVALID_VIDEO"}
Reasons == {"reprocess_failed", "no_footage"}

\* A row of the cases table.  closed_at is kept as "is it set".
Row == [status: Statuses, outcome: Outcomes \union {None},
        risk: Risks \union {None}, reason: Reasons \union {None},
        closed: BOOLEAN]

\* A work item of the pool: _run_reprocess(case_id, prior).  The code keeps
\* only prior's status and outcome; the other fields are never read.
Job == [case: Cases, prior: Row]

ReviewForm == [action: {"label", "reprocess_requested"},
               outcome: Outcomes \union {None}]

ASSUME CasesAssumption == IsFiniteSet(Cases) /\ OpenedAt \in [Cases -> Nat]
ASSUME RisksAssumption == None \notin Risks
ASSUME DecisionsAssumption == Decisions \subseteq [outcome: Outcomes, risk: Risks]
ASSUME ReviewFormsAssumption == ReviewForms \subseteq ReviewForm
ASSUME AutoAssumption == AutoEnabled \in BOOLEAN /\ Batch \in Nat \ {0}
ASSUME BoundsAssumption ==
    {MaxRequests, MaxReviews, MaxRestarts, MaxFailures, MaxLost} \subseteq Nat

VARIABLES
    rows,      \* the committed cases table
    window,    \* status of the newest video_windows row of each case
    package,   \* outcome recorded in the newest PACKAGE artifact of each case
    queue,     \* _REPROCESS_POOL's work queue, oldest first
    worker,    \* the pool's single thread
    auto,      \* the auto-analyzer thread
    client,    \* the request handlers
    stranded,  \* history: cases put in REPROCESSING by a step that queues no work
    spent      \* how much of each bound has been used

vars == <<rows, window, package, queue, worker, auto, client, stranded, spent>>

Idle == [pc |-> "idle"]

-----------------------------------------------------------------------------
(* The session layer.                                                      *)

\* One column of an UPDATE: the unit of work emits a column only when its value
\* differs from the one the session loaded, so an assignment that restates the
\* loaded value leaves whatever another session committed since.
NetColumn(committed, loaded, assigned) ==
    IF assigned = loaded THEN committed ELSE assigned

\* The row after a session that loaded `seen` and assigned `new` flushes onto
\* the row that is committed by then.
Flush(committed, seen, new) ==
    [status  |-> NetColumn(committed.status, seen.status, new.status),
     outcome |-> NetColumn(committed.outcome, seen.outcome, new.outcome),
     risk    |-> NetColumn(committed.risk, seen.risk, new.risk),
     reason  |-> NetColumn(committed.reason, seen.reason, new.reason),
     closed  |-> NetColumn(committed.closed, seen.closed, new.closed)]

\* closed_at = now() differs from any value loaded earlier.
Stamped(row) == [row EXCEPT !.closed = TRUE]

InReprocessing(c) == rows[c].status = "REPROCESSING"

\* stranded only remembers cases still in REPROCESSING.
Stranding(added) ==
    stranded' = {c \in stranded \union added : rows'[c].status = "REPROCESSING"}

Spend(what, limit) ==
    /\ spent[what] < limit
    /\ spent' = [spent EXCEPT ![what] = @ + 1]

-----------------------------------------------------------------------------
(* The auto-analyzer: queue_open_cases.                                    *)

\* Defect: a cycle that also selects what an earlier cycle has claimed.
UnsettledCases == {c \in Cases : rows[c].status # "CLOSED"}

OpenCases == {c \in Cases : rows[c].status = "OPEN"}

\* Defect: the LIMIT of the query is lost.
AllOpen(picked) == picked = OpenCases

\* ORDER BY opened_at LIMIT Batch, over the OPEN rows.
OldestOpen(picked) ==
    /\ picked \subseteq OpenCases
    /\ Cardinality(picked) = Batch \/ (Cardinality(picked) < Batch /\ picked = OpenCases)
    /\ \A c \in picked, d \in OpenCases \ picked : OpenedAt[c] <= OpenedAt[d]

\* Defect: the backlog test off by one.
PoolHalfDrained == Len(queue) <= 2

PoolDrained == Len(queue) < 2

\* A cycle starts only when the pool has nearly drained.
AutoSelect ==
    /\ AutoEnabled
    /\ auto.pc = "idle"
    /\ PoolDrained
    /\ \E picked \in SUBSET OpenCases :
          /\ picked # {}
          /\ OldestOpen(picked)
          /\ auto' = [pc |-> "selected",
                      jobs |-> {[case |-> c, prior |-> rows[c]] : c \in picked}]
    /\ UNCHANGED <<rows, window, package, queue, worker, client, stranded, spent>>

\* One commit sets every selected row to REPROCESSING, whatever it has become.
AutoClaim ==
    /\ auto.pc = "selected"
    /\ rows' = [c \in Cases |->
                   IF \E j \in auto.jobs : j.case = c
                   THEN [rows[c] EXCEPT !.status = "REPROCESSING"]
                   ELSE rows[c]]
    /\ auto' = [auto EXCEPT !.pc = "claimed"]
    /\ UNCHANGED <<window, package, queue, worker, client, stranded, spent>>

\* The claimed cases are submitted one by one, oldest first.
AutoSubmit ==
    /\ auto.pc = "claimed"
    /\ \E j \in auto.jobs :
          /\ \A k \in auto.jobs : OpenedAt[j.case] <= OpenedAt[k.case]
          /\ queue' = Append(queue, j)
          /\ auto' = IF auto.jobs = {j} THEN Idle
                     ELSE [auto EXCEPT !.jobs = @ \ {j}]
    /\ UNCHANGED <<rows, window, package, worker, client, stranded, spent>>

-----------------------------------------------------------------------------
(* Request handlers: POST /cases/{id}/reprocess and /retime-reprocess.     *)

ReadForClaim(p, c) ==
    /\ client[p].pc = "idle"
    /\ Spend("requests", MaxRequests)
    /\ client' = [client EXCEPT ![p] = [pc |-> "claiming", case |-> c, seen |-> rows[c]]]
    /\ UNCHANGED <<rows, window, package, queue, worker, auto, stranded>>

\* _claim_for_reprocess wipes the verdict and returns the prior state.
CommitClaim(p) ==
    /\ client[p].pc = "claiming"
    /\ LET c == client[p].case
           seen == client[p].seen
           new == [status |-> "REPROCESSING", outcome |-> None, risk |-> None,
                   reason |-> None, closed |-> FALSE]
       IN /\ rows' = [rows EXCEPT ![c] = Flush(@, seen, new)]
          /\ client' = [client EXCEPT ![p] = [pc |-> "claimed",
                                              job |-> [case |-> c, prior |-> seen]]]
    /\ Stranding({})
    /\ UNCHANGED <<window, package, queue, worker, auto, spent>>

SubmitClaim(p) ==
    /\ client[p].pc = "claimed"
    /\ queue' = Append(queue, client[p].job)
    /\ client' = [client EXCEPT ![p] = Idle]
    /\ UNCHANGED <<rows, window, package, worker, auto, stranded, spent>>

-----------------------------------------------------------------------------
(* Request handlers: POST /cases/{id}/review-actions.                      *)

ReadForReview(p, c, form) ==
    /\ client[p].pc = "idle"
    /\ Spend("reviews", MaxReviews)
    /\ client' = [client EXCEPT ![p] = [pc |-> "reviewing", case |-> c,
                                        seen |-> rows[c], form |-> form]]
    /\ UNCHANGED <<rows, window, package, queue, worker, auto, stranded>>

\* What submit_action assigns: a request to reprocess only sets the status, an
\* outcome closes the case, anything else holds it for review.
Reviewed(row, form) ==
    IF form.action = "reprocess_requested" THEN [row EXCEPT !.status = "REPROCESSING"]
    ELSE IF form.outcome # None
         THEN [row EXCEPT !.status = "CLOSED", !.outcome = form.outcome]
         ELSE [row EXCEPT !.status = "IN_REVIEW"]

CommitReview(p) ==
    /\ client[p].pc = "reviewing"
    /\ LET c == client[p].case
           seen == client[p].seen
           form == client[p].form
       IN /\ rows' = [rows EXCEPT ![c] = Flush(@, seen, Reviewed(seen, form))]
          /\ Stranding(IF form.action = "reprocess_requested" /\ ~InReprocessing(c)
                       THEN {c} ELSE {})
    /\ client' = [client EXCEPT ![p] = Idle]
    /\ UNCHANGED <<window, package, queue, worker, auto, spent>>

-----------------------------------------------------------------------------
(* The pool's worker: _run_reprocess around analyze_case.                  *)

FetchJob ==
    /\ worker.pc = "idle"
    /\ queue # <<>>
    /\ worker' = [pc |-> "fetched", job |-> Head(queue)]
    /\ queue' = Tail(queue)
    /\ UNCHANGED <<rows, window, package, auto, client, stranded, spent>>

\* analyze_case loads the row once, for the whole run, plans the window and
\* commits a PENDING window row.
LoadCase ==
    /\ worker.pc = "fetched"
    /\ LET c == worker.job.case
       IN /\ worker' = [pc |-> "window", job |-> worker.job, seen |-> rows[c]]
          /\ window' = [window EXCEPT ![c] = "PENDING"]
    /\ UNCHANGED <<rows, package, queue, auto, client, stranded, spent>>

\* Defect: the package is built before the verdict is assigned to the row.
PackageOfLoadedRow(c, outcome) == package' = [package EXCEPT ![c] = rows[c].outcome]

\* write_package records the verdict of the run in a new artifact.
WritePackage(c, outcome) == package' = [package EXCEPT ![c] = outcome]

\* Neither local segments nor the NVR gave a clip: _close_invalid closes the
\* case, writes the package and commits, with the window row set to FAILED.
CloseInvalid ==
    /\ worker.pc = "window"
    /\ LET c == worker.job.case
           new == [worker.seen EXCEPT !.outcome = "INVALID_VIDEO",
                                      !.status = "CLOSED", !.reason = "no_footage"]
       IN /\ rows' = [rows EXCEPT ![c] = Stamped(Flush(@, worker.seen, new))]
          /\ window' = [window EXCEPT ![c] = "FAILED"]
          /\ WritePackage(c, "INVALID_VIDEO")
    /\ worker' = Idle
    /\ Stranding({})
    /\ UNCHANGED <<queue, auto, client, spent>>

\* The clip is built: the window row is committed as SUCCEEDED and the long
\* perception and VLM phases run with no transaction open.
AcquireWindow ==
    /\ worker.pc = "window"
    /\ window' = [window EXCEPT ![worker.job.case] = "SUCCEEDED"]
    /\ worker' = [worker EXCEPT !.pc = "analysing"]
    /\ UNCHANGED <<rows, package, queue, auto, client, stranded, spent>>

\* The verdict and the package land in one commit, on the row loaded at the
\* start of the run.  invalid_reason is not assigned.
Decide(d) ==
    /\ worker.pc = "analysing"
    /\ LET c == worker.job.case
           new == [worker.seen EXCEPT !.outcome = d.outcome, !.risk = d.risk,
                                      !.status = "CLOSED"]
       IN /\ rows' = [rows EXCEPT ![c] = Stamped(Flush(@, worker.seen, new))]
          /\ WritePackage(c, d.outcome)
    /\ worker' = Idle
    /\ Stranding({})
    /\ UNCHANGED <<window, queue, auto, client, spent>>

\* Any exception out of analyze_case rolls its open transaction back.
AnalysisRaises ==
    /\ worker.pc \in {"fetched", "window", "analysing"}
    /\ Spend("failures", MaxFailures)
    /\ worker' = [pc |-> "failed", job |-> worker.job]
    /\ UNCHANGED <<rows, window, package, queue, auto, client, stranded>>

\* Defect: the failure handler does not look at the status it finds.
AnyStatus(row) == row.status \in Statuses

StillClaimed(row) == row.status = "REPROCESSING"

\* The failure handler reads the row in a session of its own and leaves it
\* alone unless it is still in REPROCESSING.
ReadForRestore ==
    /\ worker.pc = "failed"
    /\ worker' = IF StillClaimed(rows[worker.job.case])
                 THEN [pc |-> "restoring", job |-> worker.job,
                       seen |-> rows[worker.job.case]]
                 ELSE Idle
    /\ UNCHANGED <<rows, window, package, queue, auto, client, stranded, spent>>

\* Defect: only the verdict is restored.
RestoredOutcome(row, prior) ==
    [row EXCEPT !.outcome = prior.outcome, !.reason = "reprocess_failed"]

\* Defect: a default outcome that is no outcome of a case.
RestoredDefault(row, prior) ==
    [row EXCEPT !.status = prior.status, !.reason = "reprocess_failed",
                !.outcome = IF prior.outcome = None THEN "UNDETERMINED" ELSE prior.outcome]

\* Risk and closed_at are not put back.
Restored(row, prior) ==
    [row EXCEPT !.status = prior.status, !.outcome = prior.outcome,
                !.reason = "reprocess_failed"]

CommitRestore ==
    /\ worker.pc = "restoring"
    /\ LET c == worker.job.case
       IN rows' = [rows EXCEPT ![c] =
                      Flush(@, worker.seen, Restored(worker.seen, worker.job.prior))]
    /\ worker' = Idle
    /\ Stranding({})
    /\ UNCHANGED <<window, package, queue, auto, client, spent>>

\* The failure handler itself fails (the database stays locked past its busy
\* timeout): that is only logged.  The bound allows MaxLost times.
RestoreLost(time) ==
    /\ worker.pc \in {"failed", "restoring"}
    /\ Spend("lost", time)
    /\ worker' = Idle
    /\ UNCHANGED rows
    /\ Stranding({worker.job.case})
    /\ UNCHANGED <<window, package, queue, auto, client>>

HandlerLost == \E time \in 1..MaxLost : RestoreLost(time)

-----------------------------------------------------------------------------
(* The process dies and comes back.  Queue, worker, threads and handlers   *)
(* are gone; before requests are served, _recover_stale reopens what is    *)
(* in REPROCESSING, if the auto-analyzer is enabled at all.                *)

\* Defect: nothing is recovered at start-up.
NotRecovered(row) == row

Recovered(row) ==
    IF AutoEnabled /\ row.status = "REPROCESSING" THEN [row EXCEPT !.status = "OPEN"] ELSE row

Restart ==
    /\ Spend("restarts", MaxRestarts)
    /\ rows' = [c \in Cases |-> Recovered(rows[c])]
    /\ queue' = <<>>
    /\ worker' = Idle
    /\ auto' = Idle
    /\ client' = [p \in Clients |-> Idle]
    /\ Stranding(Cases)
    /\ UNCHANGED <<window, package>>

-----------------------------------------------------------------------------
Init ==
    /\ rows = [c \in Cases |-> [status |-> "OPEN", outcome |-> None, risk |-> None,
                                reason |-> None, closed |-> FALSE]]
    /\ window = [c \in Cases |-> None]
    /\ package = [c \in Cases |-> None]
    /\ queue = <<>>
    /\ worker = Idle
    /\ auto = Idle
    /\ client = [p \in Clients |-> Idle]
    /\ stranded = {}
    /\ spent = [requests |-> 0, reviews |-> 0, restarts |-> 0, failures |-> 0, lost |-> 0]

AutoStep == AutoSelect \/ AutoClaim \/ AutoSubmit

WorkerStep ==
    \/ FetchJob
    \/ LoadCase
    \/ CloseInvalid
    \/ AcquireWindow
    \/ \E d \in Decisions : Decide(d)
    \/ AnalysisRaises
    \/ ReadForRestore
    \/ CommitRestore
    \/ HandlerLost

\* What a handler that has begun still does on its own.
ClientFinish(p) == CommitClaim(p) \/ SubmitClaim(p) \/ CommitReview(p)

ClientBegin(p) ==
    \E c \in Cases : \/ ReadForClaim(p, c)
                     \/ \E form \in ReviewForms : ReadForReview(p, c, form)

Next ==
    \/ AutoStep
    \/ WorkerStep
    \/ \E p \in Clients : ClientBegin(p) \/ ClientFinish(p)
    \/ Restart

Spec == Init /\ [][Next]_vars

\* The threads are never descheduled for ever and every phase of an analysis
\* ends (its calls out have timeouts); nobody is obliged to click or to crash.
Fairness ==
    /\ WF_vars(AutoStep)
    /\ WF_vars(WorkerStep)
    /\ \A p \in Clients : WF_vars(ClientFinish(p))

FairSpec == Spec /\ Fairness

-----------------------------------------------------------------------------
(* Type correctness.                                                       *)

WorkerStates ==
    [pc: {"idle"}]
        \union [pc: {"fetched", "failed"}, job: Job]
        \union [pc: {"window", "analysing", "restoring"}, job: Job, seen: Row]

AutoStates == [pc: {"idle"}] \union [pc: {"selected", "claimed"}, jobs: SUBSET Job]

ClientStates ==
    [pc: {"idle"}]
        \union [pc: {"claiming"}, case: Cases, seen: Row]
        \union [pc: {"claimed"}, job: Job]
        \union [pc: {"reviewing"}, case: Cases, seen: Row, form: ReviewForm]

\* Every variable has the shape its declaration describes.
TypeOK ==
    /\ rows \in [Cases -> Row]
    /\ window \in [Cases -> {None, "PENDING", "SUCCEEDED", "FAILED"}]
    /\ package \in [Cases -> Outcomes \union {None}]
    /\ queue \in Seq(Job)
    /\ worker \in WorkerStates
    /\ auto \in AutoStates
    /\ client \in [Clients -> ClientStates]
    /\ stranded \in SUBSET Cases
    /\ spent \in [{"requests", "reviews", "restarts", "failures", "lost"} -> Nat]

-----------------------------------------------------------------------------
(* Safety.                                                                 *)

\* The claimed work items that exist for case c, wherever they are.
QueuedFor(c) == {i \in 1..Len(queue) : queue[i].case = c}
HeldByAuto(c) == auto.pc = "claimed" /\ \E j \in auto.jobs : j.case = c
HeldBy(p, c) == client[p].pc = "claimed" /\ client[p].job.case = c
WorkedOn(c) == worker.pc # "idle" /\ worker.job.case = c

Pending(c) ==
    \/ QueuedFor(c) # {}
    \/ HeldByAuto(c)
    \/ \E p \in Clients : HeldBy(p, c)
    \/ WorkedOn(c)

\* A case shows REPROCESSING only while some work item for it is still on its
\* way to the worker, or after one of the three steps that set the status and
\* queue nothing: a reviewer's reprocess_requested, a failure handler that
\* fails, a restart with the auto-analyzer disabled.  No interleaving of claims,
\* failures, restores and restarts loses the last work item of a claimed case.
Custody == \A c \in Cases : InReprocessing(c) => Pending(c) \/ c \in stranded

\* Custody is not inductive: a work item whose analysis will not write the status
\* (it loaded the row in another status, or its prior status is REPROCESSING, so
\* that restoring it changes nothing) is no reason for the case to move on.
\* Tended(c): some work item for c is bound to take it out of REPROCESSING.
Moves(job, c) == job.case = c /\ job.prior.status # "REPROCESSING"

Tended(c) ==
    \/ \E i \in 1..Len(queue) : Moves(queue[i], c)
    \/ HeldByAuto(c)
    \/ \E p \in Clients : client[p].pc = "claimed" /\ Moves(client[p].job, c)
    \/ worker.pc \in {"fetched", "failed", "restoring"} /\ Moves(worker.job, c)
    \/ /\ worker.pc \in {"window", "analysing"}
       /\ Moves(worker.job, c)
       /\ worker.seen.status = "REPROCESSING"

\* The inductive form: also what the auto-analyzer and the failure handler know
\* of the rows they read.
CustodyInv ==
    /\ TypeOK
    /\ \A c \in Cases : InReprocessing(c) => Tended(c) \/ c \in stranded
    /\ auto.pc # "idle" => \A j \in auto.jobs : j.prior.status = "OPEN"
    /\ worker.pc = "restoring" => worker.seen.status = "REPROCESSING"

\* The number of work items for c that exist at once.
Claims(c) ==
    Cardinality(QueuedFor(c))
        + (IF HeldByAuto(c) THEN 1 ELSE 0)
        + Cardinality({p \in Clients : HeldBy(p, c)})
        + (IF WorkedOn(c) THEN 1 ELSE 0)

\* "a case is never picked up twice" (app/auto_analyzer.py): at no time do two
\* work items exist for one case.
NoDoublePickup == \A c \in Cases : Claims(c) <= 1

\* The backlog test of the auto-analyzer bounds how many cases sit in
\* REPROCESSING: one running, one waiting when the cycle starts, one batch.
BacklogBounded == Cardinality({c \in Cases : InReprocessing(c)}) <= Batch + 2

\* A verdict, the evidence package that documents it and the window it was taken
\* from stand or fall together: a case closed by analysis shows the outcome of its
\* newest package, its newest window is resolved, and it is the failed one of a
\* case without footage exactly if the row says so, across failures between the
\* three commits of a run and across restarts.  (A model may call a clip that was
\* acquired unusable: INVALID_VIDEO comes with either window.)
ClosedVerdictPackaged ==
    \A c \in Cases : rows[c].status = "CLOSED" =>
        /\ package[c] = rows[c].outcome
        /\ window[c] = IF rows[c].reason = "no_footage" THEN "FAILED" ELSE "SUCCEEDED"
        /\ rows[c].reason = "no_footage" => rows[c].outcome = "INVALID_VIDEO"

-----------------------------------------------------------------------------
(* Liveness, under FairSpec.                                               *)

\* What analysis without clicks promises: CaseDesk.  A case is open, claimed while
\* it shows REPROCESSING, and settled once it is closed.
DeskPlace == [c \in Cases |-> CASE rows[c].status = "OPEN" -> "open"
                               [] rows[c].status = "REPROCESSING" -> "claimed"
                               [] OTHER -> "settled"]

Desk == INSTANCE CaseDesk WITH desk <- DeskPlace

\* The auto-analyzer, the pool and restarts implement the desk: a cycle claims at
\* most one batch, of open cases only, a settled case is never claimed again, and
\* every claim ends, whatever fails and whenever the process dies.
ImplementsDesk == Desk!DeskSpec

\* When analyses fail and the process restarts only finitely often, every case
\* ends up decided or with a reviewer, for good.
EventuallySettled ==
    \A c \in Cases : <>[](rows[c].status \in {"CLOSED", "IN_REVIEW"})

\* Not so: once an analysis has failed, its case leaves REPROCESSING ("so it is
\* never left stuck in REPROCESSING", app/api/cases.py, _run_reprocess); a status
\* that a reviewer had set to REPROCESSING before the claim is restored as it was.
FailedNotStuck ==
    \A c \in Cases : worker.pc = "failed" /\ worker.job.case = c ~> ~InReprocessing(c)

=============================================================================
