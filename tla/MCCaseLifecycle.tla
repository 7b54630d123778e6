--------------------------- MODULE MCCaseLifecycle ---------------------------
(* Constant values for model-checking CaseLifecycle.                       *)
EXTENDS CaseLifecycle, TLC

\* The identifiers of cases are their opening order.
MCOpenedAt == [c \in Cases |-> c]

\* A verdict, and a clip the model calls unusable.
MCVerdicts == {[outcome |-> "VERIFIED", risk |-> "low"], [outcome |-> "INVALID_VIDEO", risk |-> "low"]}

\* A reviewer confirms, holds, or asks for a new analysis.
MCAllForms == {[action |-> "label", outcome |-> "HIGH_RISK_REVIEW"],
               [action |-> "label", outcome |-> None],
               [action |-> "reprocess_requested", outcome |-> None]}

MCSymmetry == Permutations(Clients)
=============================================================================
