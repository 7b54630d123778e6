------------------------------ MODULE CaseDesk ------------------------------
(* What the automatic analysis of cases promises, whoever carries it out:   *)
(* open cases are claimed in batches, a claim ends in a verdict or gives    *)
(* the case back, and a verdict stands.                                     *)
EXTENDS Naturals, FiniteSets

CONSTANTS Cases, Batch

VARIABLE desk

DeskTypeOK == desk \in [Cases -> {"open", "claimed", "settled"}]

At(place) == {c \in Cases : desk[c] = place}

Move(moved, place) == desk' = [c \in Cases |-> IF c \in moved THEN place ELSE desk[c]]

Claim ==
    \E batch \in SUBSET At("open") :
        /\ Cardinality(batch) \in 1..Batch
        /\ Move(batch, "claimed")

Settle(c) == desk[c] = "claimed" /\ Move({c}, "settled")

\* An analysis that fails gives its case back, a restart gives back all of them.
GiveBack(cs) == cs \subseteq At("claimed") /\ Move(cs, "open")

DeskInit == desk = [c \in Cases |-> "open"]

DeskNext ==
    \/ Claim
    \/ \E c \in Cases : Settle(c) \/ GiveBack({c})
    \/ GiveBack(At("claimed"))

\* A claim ends, in one way or another.
Leave(c) == Settle(c) \/ GiveBack({c}) \/ (c \in At("claimed") /\ GiveBack(At("claimed")))

DeskSafety == DeskInit /\ [][DeskNext]_desk

DeskSpec == DeskSafety /\ \A c \in Cases : WF_desk(Leave(c))
=============================================================================
