---------------------------- MODULE MCLiveMonitor ----------------------------
(***************************************************************************)
(* The live monitor with two cameras whose ids make the same session-id    *)
(* prefix ("cam_1" and "cam1"); one of them pauses after a session.  There *)
(* is no symmetry: the run checks a liveness property.                     *)
(***************************************************************************)
EXTENDS LiveMonitor

CONSTANTS c1, c2

MCPrefix == [c \in Cameras |-> "CAM1"]
MCCooldown == [c \in Cameras |-> IF c = c1 THEN 0 ELSE 2]

=============================================================================
