---------------------------- MODULE MCConfigFile ----------------------------
(***************************************************************************)
(* The configuration of a site with one camera, the workstation it         *)
(* watches, and the model flags of the repository's config.yaml.  No zone  *)
(* is drawn yet, so that drawing one shows.                                *)
(***************************************************************************)
EXTENDS ConfigFile, TLC

CONSTANT c1

MCInitial ==
    [cameras |-> [c \in Cameras |-> [source |-> "delivered", prompts |-> "delivered",
                                     zones |-> {}, view |-> {}]],
     route |-> [w \in {"w1"} |-> c1],
     allowed |-> {"w1"},
     flags |-> [s \in Stages |-> s \in {"falcon", "qwen3_vl", "gemma"}]]

MCPayloads == {[falcon |-> FALSE], [ocr |-> TRUE]}

MCSymmetry == Permutations(Editors) \union Permutations(Savers)

=============================================================================
