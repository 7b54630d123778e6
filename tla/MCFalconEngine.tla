---------------------------- MODULE MCFalconEngine ----------------------------
(***************************************************************************)
(* Two plain requests and a page with two regions, with fewer slots than   *)
(* sequences and too few pages for all that fit in the slots.              *)
(***************************************************************************)
EXTENDS FalconEngine

CONSTANTS r1, r2, page

MCRequests == {r1, r2, page}
MCLayout == {page}
MCRegions == [r \in MCRequests |-> IF r = page THEN 2 ELSE 1]
MCPrompt == [r \in MCRequests |-> IF r = r1 THEN 2 ELSE 1]

=============================================================================
