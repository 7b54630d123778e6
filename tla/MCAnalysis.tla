------------------------------ MODULE MCAnalysis ------------------------------
EXTENDS Analysis

\* Spot 1 is the till: audit and counter zone; spot 2 beside it, where customers
\* stand; spot 4 is further than Near from spot 1 and in no zone.
MCZonesAt == 1 :> {"audit", "counter"} @@ 2 :> {"audit", "customer"} @@ 4 :> {}

Seen(label, spot) == [label |-> label, spot |-> spot]
Object(n, l, at) == [num |-> n, label |-> l, at |-> at]
Still(fs, spot) == [f \in fs |-> spot]

\* What Falcon may report: a person who comes, stays, returns or never comes, an item
\* at the till and a line of the bill at one of two spots.
Presences == {{}, {2, 3}, {0, 4}, {5, 6}, 0 .. 6}
FalconViews ==
    {[f \in Frames |-> {Seen(x[1], x[2]) : x \in {y \in DOMAIN v : f \in v[y]}}] :
        v \in {w \in [{<<"person", 2>>, <<"item", 1>>, <<"line1", 1>>, <<"item", 4>>} -> Presences] :
                   /\ w[<<"item", 1>>] \in {{}, {2, 3}, 0 .. 6}
                   /\ w[<<"line1", 1>>] \in {{}, {2, 3}}
                   /\ w[<<"item", 4>>] \in (IF w[<<"item", 1>>] = 0 .. 6 THEN {{}} ELSE {{}, {2, 3}})}}
Nothing == [f \in Frames |-> {}]

\* Objects SAM 3 may follow: fragments of a box at the till, boxes apart in one frame,
\* a box carried along, a line of the bill, a bag.
Objects == {Object(1, "box", Still({0, 1}, 1)), Object(2, "box", Still({2, 3}, 1)),
            Object(3, "box", Still({3, 4}, 2)), Object(4, "line1", Still({1, 2}, 2)),
            Object(5, "line1", 2 :> 1 @@ 3 :> 2), Object(6, "bag", Still({2, 3}, 4)),
            Object(7, "line2", Still({2, 3}, 4))}
Boxes(S) == {o \in S : o.label = "box"}
Sam3Views == {S \in SUBSET Objects : Cardinality(S) <= 2 \/ (Cardinality(S) = 3 /\ Cardinality(Boxes(S)) >= 2)}

MCScenes ==
    {[falcon |-> v, sam3 |-> {}] : v \in FalconViews}
    \union {[falcon |-> Nothing, sam3 |-> S] : S \in Sam3Views}
    \union {[falcon |-> [f \in Frames |-> IF f \in 1 .. 3 THEN {Seen("person", 2), Seen("item", 1)} ELSE {}],
             sam3 |-> S] : S \in {T \in Sam3Views : Cardinality(T) = 1 \/ Boxes(T) = T}}

\* Segments that begin a frame after the plan, or that were joined whole and begin a
\* frame before it.
MCShifts == {1, -1}

\* Every answer of a sure model, one that is unsure of a matched basket, an unusable one.
MCAnswers == [p \in Prompts |->
    CASE p = "v2" -> {a \in Answer2 : a.usable /\ a.sure}
                     \union {CHOOSE a \in Answer2 : a.usable /\ ~ a.sure /\ a.count = "yes" /\ a.same = "yes"
                                                   /\ ~ a.missing /\ ~ a.extra}
                     \union {CHOOSE a \in Answer2 : ~ a.usable /\ a.same = "yes"}
      [] p = "v1" -> {a \in Answer1 : a.usable} \union {CHOOSE a \in Answer1 : ~ a.usable /\ a.match = "yes"}
      [] OTHER -> {a \in AnswerLegacy : ~ a.obstructed} \union {CHOOSE a \in AnswerLegacy : a.obstructed}]
=============================================================================
