------------------------------ MODULE CaseExport ------------------------------
(***************************************************************************)
(* The case lifecycle beside the export of its results to the refund agent *)
(* (pos/refund_agent_export.py), as it is with integrations.refund_agent   *)
(* enabled.  After an analysis that returned normally its worker hands the *)
(* case to a pool with a single thread; that thread looks the case up in   *)
(* the audit log, posts it to the agent unless it is there with a          *)
(* refund_id, and commits an audit row of the answer.  The verdict is      *)
(* committed before the case is handed over, and whatever fails from then  *)
(* on is logged and forgotten.                                             *)
(*                                                                         *)
(* The contents of a report (summary, times, the masked clip of step 2)    *)
(* are left out: nothing in the code depends on them.                      *)
(***************************************************************************)
EXTENDS CaseLifecycle

CONSTANT MaxFaults   \* bound of the model on answers that are not a creation

ASSUME FaultsAssumption == MaxFaults \in Nat

VARIABLES
    returned,  \* the worker after an analysis that returned, or idle
    exports,   \* _EXPORT_POOL's work queue, oldest first
    exporter,  \* the pool's single thread
    refunds,   \* the agent: how many refunds it holds of each case, numbered from 1
    audited,   \* refund_ids in the audit rows of each case, NoRefund for null
    blind,     \* history: cases with a refund whose id never reached the audit log
    missed,    \* history: cases an export of which came to nothing
    faults     \* how much of MaxFaults has been used

exportVars == <<returned, exports, exporter, refunds, audited, blind, missed, faults>>

NoRefund == 0

-----------------------------------------------------------------------------
(* _run_reprocess: the else branch of its try.                             *)

\* Defect: only a case that was closed with a verdict of the policy is exported.
DecidedReturns == worker.pc = "analysing" /\ worker'.pc = "idle"

\* analyze_case has closed the worker's case, for want of footage or on a decision.
AnalysisReturns == worker.pc \in {"window", "analysing"} /\ worker'.pc = "idle"

\* The worker is not done with the job: it is going to queue the export.
Return ==
    /\ returned.pc = "idle"
    /\ returned' = IF AnalysisReturns THEN [pc |-> "returned", case |-> worker.job.case] ELSE Idle

SubmitExport ==
    /\ returned.pc = "returned"
    /\ exports' = Append(exports, returned.case)
    /\ returned' = Idle
    /\ UNCHANGED <<exporter, refunds, audited, blind, missed, faults>>

Fault == faults < MaxFaults /\ faults' = faults + 1

\* The configuration cannot be read or says disabled by now, or submit raises.
NotSubmitted ==
    /\ returned.pc = "returned"
    /\ Fault
    /\ missed' = missed \union {returned.case}
    /\ returned' = Idle
    /\ UNCHANGED <<exports, exporter, refunds, audited, blind>>

-----------------------------------------------------------------------------
(* maybe_export_case and _export, in the pool's thread.                    *)

\* Defect: the audit log is not looked at.
NoPriorRefund(c) == {NoRefund}

\* The row that is found is the one with the greatest id, and ids are random.
PriorRefund(c) == IF audited[c] = {} THEN {NoRefund} ELSE audited[c]

\* An exported case is skipped, unless the configuration has an update_path by now.
ExportRead ==
    /\ exporter.pc = "idle"
    /\ exports # <<>>
    /\ exports' = Tail(exports)
    /\ \E prior \in PriorRefund(Head(exports)), updates \in BOOLEAN :
          exporter' = IF prior # NoRefund /\ ~updates THEN Idle
                      ELSE [pc |-> "posting", case |-> Head(exports), refund |-> prior]
    /\ UNCHANGED <<returned, refunds, audited, blind, missed, faults>>

\* The configuration is read once more and says no, or reading it or the case raises.
ExportSkipped ==
    /\ exporter.pc = "idle"
    /\ exports # <<>>
    /\ Fault
    /\ exports' = Tail(exports)
    /\ missed' = missed \union {Head(exports)}
    /\ UNCHANGED <<returned, exporter, refunds, audited, blind>>

\* The agent creates a refund for a post without refund_id and updates the one named.
AgentRefunds(c) ==
    IF exporter.refund = NoRefund THEN [refunds EXCEPT ![c] = @ + 1] ELSE refunds

\* The agent answers with the refund's id.
ExportPosted ==
    /\ exporter.pc = "posting"
    /\ refunds' = AgentRefunds(exporter.case)
    /\ exporter' = [exporter EXCEPT !.pc = "answered",
                                    !.refund = IF @ = NoRefund THEN refunds'[exporter.case] ELSE @]
    /\ UNCHANGED <<returned, exports, audited, blind, missed, faults>>

\* 202: the agent takes the post and has no id for it yet.
ExportQueued ==
    /\ exporter.pc = "posting"
    /\ Fault
    /\ refunds' = AgentRefunds(exporter.case)
    /\ exporter' = [exporter EXCEPT !.pc = "answered"]
    /\ UNCHANGED <<returned, exports, audited, blind, missed>>

\* The post raises: the agent has not had it, or its answer does not arrive.
ExportRaises ==
    /\ exporter.pc = "posting"
    /\ Fault
    /\ \/ /\ refunds' = AgentRefunds(exporter.case)
          /\ blind' = blind \union {exporter.case}
          /\ UNCHANGED missed
       \/ /\ missed' = missed \union {exporter.case}
          /\ UNCHANGED <<refunds, blind>>
    /\ exporter' = Idle
    /\ UNCHANGED <<returned, exports, audited>>

\* The audit row is committed with whatever id there is.
ExportAudited ==
    /\ exporter.pc = "answered"
    /\ audited' = [audited EXCEPT ![exporter.case] = @ \union {exporter.refund}]
    /\ blind' = IF exporter.refund = NoRefund THEN blind \union {exporter.case} ELSE blind
    /\ exporter' = Idle
    /\ UNCHANGED <<returned, exports, refunds, missed, faults>>

\* The commit fails: the refund stays at the agent, and nothing here tells.
ExportUnaudited ==
    /\ exporter.pc = "answered"
    /\ Fault
    /\ blind' = blind \union {exporter.case}
    /\ exporter' = Idle
    /\ UNCHANGED <<returned, exports, refunds, audited, missed>>

\* With the process the worker, the queue and the thread are gone, and with the
\* worker the export it was going to queue.
ExportsLost ==
    /\ blind' = IF exporter.pc = "answered" THEN blind \union {exporter.case} ELSE blind
    /\ missed' = missed \union {exports[i] : i \in 1..Len(exports)}
                        \union (IF exporter.pc = "posting" THEN {exporter.case} ELSE {})
                        \union (IF returned.pc = "returned" THEN {returned.case} ELSE {})
    /\ returned' = Idle
    /\ exports' = <<>>
    /\ exporter' = Idle
    /\ UNCHANGED <<refunds, audited, faults>>

-----------------------------------------------------------------------------
ExportInit ==
    /\ Init
    /\ returned = Idle
    /\ exports = <<>>
    /\ exporter = Idle
    /\ refunds = [c \in Cases |-> 0]
    /\ audited = [c \in Cases |-> {}]
    /\ blind = {}
    /\ missed = {}
    /\ faults = 0

\* A step of the lifecycle while the process lives; the worker takes no other job
\* until it is done with the export of the last one.
CaseStep ==
    /\ \/ WorkerStep /\ Return
       \/ /\ AutoStep \/ (\E p \in Clients : ClientBegin(p) \/ ClientFinish(p))
          /\ UNCHANGED returned
    /\ UNCHANGED <<exports, exporter, refunds, audited, blind, missed, faults>>

ExporterStep ==
    /\ \/ SubmitExport
       \/ NotSubmitted
       \/ ExportRead
       \/ ExportSkipped
       \/ ExportPosted
       \/ ExportQueued
       \/ ExportRaises
       \/ ExportAudited
       \/ ExportUnaudited
    /\ UNCHANGED vars

ExportNext == CaseStep \/ ExporterStep \/ (Restart /\ ExportsLost)

ExportSpec == ExportInit /\ [][ExportNext]_<<vars, exportVars>>

-----------------------------------------------------------------------------
ExporterStates ==
    [pc: {"idle"}] \union [pc: {"posting", "answered"}, case: Cases, refund: Nat]

\* Every variable has the shape its declaration describes.
ExportTypeOK ==
    /\ TypeOK
    /\ returned \in [pc: {"idle"}] \union [pc: {"returned"}, case: Cases]
    /\ exports \in Seq(Cases)
    /\ exporter \in ExporterStates
    /\ refunds \in [Cases -> Nat]
    /\ audited \in [Cases -> SUBSET Nat]
    /\ blind \subseteq Cases /\ missed \subseteq Cases
    /\ faults \in Nat

\* "SKIP - never create a duplicate on reprocess" (pos/refund_agent_export.py), as
\* far as it is so: however often a case is analysed again, claimed twice, failed
\* and restarted, the agent holds one refund of it, unless the id of a refund never
\* reached the audit log: the agent answered "queued", its answer was lost, or the
\* process or the commit failed between the answer and the audit row.
OneRefund == \A c \in Cases : refunds[c] <= 1 \/ c \in blind

\* Not so: the agent never holds two refunds of a case.
NeverADuplicate == \A c \in Cases : refunds[c] <= 1

ExportPending(c) ==
    \/ returned.pc = "returned" /\ returned.case = c
    \/ \E i \in 1..Len(exports) : exports[i] = c
    \/ exporter.pc = "posting" /\ exporter.case = c

\* An analysis that left an evidence package is known at the agent or on its way
\* there, unless an export of that case failed before the agent had it or died with
\* the process, the worker's last step included: no export that was skipped for an
\* earlier one was the first of its case (_run_reprocess, maybe_export_case).
Reported ==
    \A c \in Cases : package[c] # None => refunds[c] > 0 \/ ExportPending(c) \/ c \in missed

=============================================================================
