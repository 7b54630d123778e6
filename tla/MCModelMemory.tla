---------------------------- MODULE MCModelMemory ----------------------------
(***************************************************************************)
(* Two analyses and a viewer; the primary provider loads weights into the  *)
(* process, the fallback is a server.  No symmetry: the run checks a       *)
(* liveness property.                                                      *)
(***************************************************************************)
EXTENDS ModelMemory

MCChain == <<"qwen3_vl", "gemma">>
MCSingle == <<"qwen3_vl">>

=============================================================================
