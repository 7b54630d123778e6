---------------------------- MODULE MCPosIngest -----------------------------
(* Constant values for model-checking PosIngest.                            *)
EXTENDS PosIngest, TLC

\* Two sales at workstation 1, one of them followed by a type that is not
\* accepted, and one sale at workstation 2 with the id of the first.
MCSales == {"a", "b", "c", "x"}
MCWs == [s \in MCSales |-> IF s = "c" THEN 2 ELSE 1]
MCAt == ("a" :> 0) @@ ("b" :> 1) @@ ("c" :> 1) @@ ("x" :> 2)
MCTag == ("a" :> 101) @@ ("b" :> 102) @@ ("c" :> 101) @@ ("x" :> 103)
MCDistinctTag == [MCTag EXCEPT !["c"] = 201]
MCCheckouts == MCSales \ {"x"}
MCPolled == <<1, 2>>
MCPosts == {{"a", "b"}}
=============================================================================
