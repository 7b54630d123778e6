----------------------------- MODULE MCCaseExport -----------------------------
(* Constant values for model-checking the lifecycle with its export.       *)
EXTENDS CaseExport, TLC

\* The identifiers of cases are their opening order.
MCOpenedAt == [c \in Cases |-> c]

MCVerdicts == {[outcome |-> "VERIFIED", risk |-> "low"]}

\* A reviewer confirms, holds, or asks for a new analysis.
MCAllForms == {[action |-> "label", outcome |-> "HIGH_RISK_REVIEW"],
               [action |-> "label", outcome |-> None],
               [action |-> "reprocess_requested", outcome |-> None]}

MCSymmetry == Permutations(Clients)
=============================================================================
