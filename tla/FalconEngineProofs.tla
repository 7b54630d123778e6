-------------------------- MODULE FalconEngineProofs --------------------------
(***************************************************************************)
(* Proofs about FalconEngine, for any requests, lengths, numbers of slots  *)
(* and pages, limits and bounds.                                           *)
(*                                                                         *)
(* EngineInv, the inductive invariant, says where a sequence can be: in    *)
(* one place of one queue, and nowhere before its request was taken from   *)
(* the worker's queue (Places, Untouched); who owns a slot and its pages   *)
(* (PageCount in every state, Cache as long as no slot was erased twice);  *)
(* that the count of a page is that of its sequences still there (Counted, *)
(* Counting); and NothingForgotten and WholePage (Remembered, Whole).      *)
(*                                                                         *)
(* The lemmas about Kept and Total are proved by induction, in the form    *)
(* that a set of counterexamples has a least element.                      *)
(***************************************************************************)
EXTENDS FalconEngine, SequenceTheorems, FiniteSetTheorems, WellFoundedInduction, TLAPS

-----------------------------------------------------------------------------
(* Queues.                                                                 *)

\* The members of a sequence over S are in S.
LEMMA MembersType ==
    ASSUME NEW S, NEW q \in Seq(S)
    PROVE  ToSet(q) \subseteq S
BY DEF ToSet

\* The members of the empty sequence and of a sequence of one.
LEMMA FewMembers ==
    /\ ToSet(<<>>) = {} /\ IsInjective(<<>>)
    /\ \A x : ToSet(<<x>>) = {x} /\ IsInjective(<<x>>)
BY DEF ToSet, IsInjective

\* The members of a concatenation.
LEMMA MembersConcat ==
    ASSUME NEW S, NEW p \in Seq(S), NEW q \in Seq(S)
    PROVE  ToSet(p \o q) = ToSet(p) \union ToSet(q)
<1>1. ToSet(p \o q) \subseteq ToSet(p) \union ToSet(q)
    <2> SUFFICES ASSUME NEW i \in 1..Len(p) + Len(q)
                 PROVE  (p \o q)[i] \in ToSet(p) \union ToSet(q)
        BY ConcatProperties, LenProperties DEF ToSet
    <2>1. CASE i <= Len(p)
        BY <2>1, ConcatProperties DEF ToSet
    <2>2. CASE i > Len(p)
        <3>1. i - Len(p) \in 1..Len(q) BY <2>2, LenProperties
        <3> QED BY <2>2, <3>1, ConcatProperties DEF ToSet
    <2> QED BY <2>1, <2>2, LenProperties
<1>2. ToSet(p) \subseteq ToSet(p \o q)
    <2> SUFFICES ASSUME NEW i \in 1..Len(p) PROVE p[i] \in ToSet(p \o q)
        BY LenProperties DEF ToSet
    <2>1. i \in 1..Len(p) + Len(q) BY LenProperties
    <2> QED BY <2>1, ConcatProperties, LenProperties DEF ToSet
<1>3. ToSet(q) \subseteq ToSet(p \o q)
    <2> SUFFICES ASSUME NEW i \in 1..Len(q) PROVE q[i] \in ToSet(p \o q)
        BY LenProperties DEF ToSet
    <2>1. i + Len(p) \in 1..Len(p) + Len(q) /\ ~(i + Len(p) <= Len(p))
        BY LenProperties
    <2>2. (p \o q)[i + Len(p)] = q[(i + Len(p)) - Len(p)]
        BY <2>1, ConcatProperties
    <2>3. (i + Len(p)) - Len(p) = i
        BY LenProperties
    <2> QED BY <2>1, <2>2, <2>3, ConcatProperties, LenProperties DEF ToSet
<1> QED BY <1>1, <1>2, <1>3

\* A concatenation repeats nothing if its parts do not and have nothing in common.
LEMMA InjectiveConcat ==
    ASSUME NEW S, NEW p \in Seq(S), NEW q \in Seq(S),
           IsInjective(p), IsInjective(q), ToSet(p) \intersect ToSet(q) = {}
    PROVE  IsInjective(p \o q)
<1> SUFFICES ASSUME NEW i \in 1..Len(p) + Len(q), NEW j \in 1..Len(p) + Len(q),
                    (p \o q)[i] = (p \o q)[j]
             PROVE  i = j
    BY ConcatProperties, LenProperties DEF IsInjective
<1>1. \A k \in 1..Len(p) + Len(q) :
            \/ k \in 1..Len(p) /\ (p \o q)[k] = p[k] /\ p[k] \in ToSet(p)
            \/ /\ k - Len(p) \in 1..Len(q) /\ (p \o q)[k] = q[k - Len(p)]
               /\ q[k - Len(p)] \in ToSet(q)
    BY ConcatProperties, LenProperties DEF ToSet
<1>2. \A k, l \in 1..Len(p) : p[k] = p[l] => k = l
    BY LenProperties DEF IsInjective
<1>3. \A k, l \in 1..Len(q) : q[k] = q[l] => k = l
    BY LenProperties DEF IsInjective
<1>4. CASE i \in 1..Len(p) /\ j \in 1..Len(p)
    BY <1>2, <1>4, ConcatProperties, LenProperties
<1>5. CASE ~(i \in 1..Len(p)) /\ ~(j \in 1..Len(p))
    <2>1. i - Len(p) \in 1..Len(q) /\ j - Len(p) \in 1..Len(q)
        BY <1>5, LenProperties
    <2>2. q[i - Len(p)] = q[j - Len(p)]
        BY <1>1, <1>5
    <2> QED BY <1>3, <2>1, <2>2, LenProperties
<1>6. CASE ~(i \in 1..Len(p) <=> j \in 1..Len(p))
    <2>1. \/ (p \o q)[i] \in ToSet(p) /\ (p \o q)[j] \in ToSet(q)
          \/ (p \o q)[i] \in ToSet(q) /\ (p \o q)[j] \in ToSet(p)
        BY <1>1, <1>6
    <2> QED BY <2>1
<1> QED BY <1>4, <1>5, <1>6

\* Appending, at the end and at the front.
LEMMA MembersAppend ==
    ASSUME NEW S, NEW q \in Seq(S), NEW x \in S
    PROVE  /\ Append(q, x) \in Seq(S)
           /\ ToSet(Append(q, x)) = ToSet(q) \union {x}
           /\ IsInjective(q) /\ x \notin ToSet(q) => IsInjective(Append(q, x))
<1>1. Append(q, x) = q \o <<x>> /\ <<x>> \in Seq(S)
    BY AppendIsConcat
<1>2. /\ q \o <<x>> \in Seq(S)
      /\ ToSet(q \o <<x>>) = ToSet(q) \union {x}
    <2>1. ToSet(<<x>>) = {x} BY FewMembers
    <2>2. ToSet(q \o <<x>>) = ToSet(q) \union ToSet(<<x>>) BY <1>1, MembersConcat
    <2>3. q \o <<x>> \in Seq(S) BY <1>1, ConcatProperties
    <2> QED BY <2>1, <2>2, <2>3
<1>3. ASSUME IsInjective(q), x \notin ToSet(q) PROVE IsInjective(q \o <<x>>)
    <2>1. ToSet(q) \intersect ToSet(<<x>>) = {} /\ IsInjective(<<x>>)
        BY <1>3, FewMembers
    <2> QED BY <1>1, <1>3, <2>1, InjectiveConcat
<1> QED BY <1>1, <1>2, <1>3

\* A queue without its first.
LEMMA MembersTail ==
    ASSUME NEW S, NEW q \in Seq(S), q # <<>>
    PROVE  /\ Head(q) \in ToSet(q) /\ Head(q) \in S /\ Tail(q) \in Seq(S)
           /\ IsInjective(q) => /\ ToSet(Tail(q)) = ToSet(q) \ {Head(q)}
                                /\ IsInjective(Tail(q))
<1>1. /\ Head(q) = q[1] /\ 1 \in 1..Len(q) /\ Head(q) \in S
      /\ Tail(q) \in Seq(S) /\ Len(Tail(q)) = Len(q) - 1
      /\ \A i \in 1..Len(Tail(q)) : Tail(q)[i] = q[i + 1]
    BY HeadTailProperties, EmptySeq
<1>2. DOMAIN q = 1..Len(q) /\ DOMAIN Tail(q) = 1..Len(q) - 1 /\ Len(q) \in Nat
    BY <1>1, LenProperties
<1>3. ASSUME IsInjective(q)
      PROVE  ToSet(Tail(q)) = ToSet(q) \ {Head(q)} /\ IsInjective(Tail(q))
    <2>1. \A i, j \in 1..Len(q) : q[i] = q[j] => i = j
        BY <1>2, <1>3 DEF IsInjective
    <2>2. IsInjective(Tail(q))
        BY <1>1, <1>2, <2>1 DEF IsInjective
    <2>3. ToSet(Tail(q)) \subseteq ToSet(q) \ {Head(q)}
        BY <1>1, <1>2, <2>1 DEF ToSet
    <2>4. ASSUME NEW i \in 1..Len(q), q[i] # Head(q) PROVE q[i] \in ToSet(Tail(q))
        <3>1. i - 1 \in 1..Len(q) - 1 /\ (i - 1) + 1 = i BY <1>1, <1>2, <2>4
        <3>2. Tail(q)[i - 1] = q[i] BY <1>1, <3>1
        <3> QED BY <1>2, <3>1, <3>2 DEF ToSet
    <2> QED BY <1>2, <2>2, <2>3, <2>4 DEF ToSet
<1> QED BY <1>1, <1>2, <1>3 DEF ToSet

\* A queue without its last.
LEMMA MembersFront ==
    ASSUME NEW S, NEW q \in Seq(S), q # <<>>
    PROVE  /\ Last(q) \in ToSet(q) /\ Last(q) \in S /\ Front(q) \in Seq(S)
           /\ IsInjective(q) => /\ ToSet(Front(q)) = ToSet(q) \ {Last(q)}
                                /\ IsInjective(Front(q))
<1>1. DOMAIN q = 1..Len(q) /\ Len(q) \in Nat \ {0}
    BY LenProperties, EmptySeq
<1>2. /\ Last(q) = q[Len(q)] /\ Last(q) \in S
      /\ Front(q) \in Seq(S) /\ Len(Front(q)) = Len(q) - 1
      /\ \A i \in 1..Len(q) - 1 : Front(q)[i] = q[i]
    BY <1>1 DEF Last, Front
<1>3. DOMAIN Front(q) = 1..Len(q) - 1
    BY <1>2, LenProperties
<1>4. ASSUME IsInjective(q)
      PROVE  ToSet(Front(q)) = ToSet(q) \ {Last(q)} /\ IsInjective(Front(q))
    <2>1. \A i, j \in 1..Len(q) : q[i] = q[j] => i = j
        BY <1>1, <1>4 DEF IsInjective
    <2>2. IsInjective(Front(q))
        BY <1>1, <1>2, <1>3, <2>1 DEF IsInjective
    <2>3. ToSet(Front(q)) \subseteq ToSet(q) \ {Last(q)}
        BY <1>1, <1>2, <1>3, <2>1 DEF ToSet
    <2>4. ASSUME NEW i \in 1..Len(q), q[i] # Last(q) PROVE q[i] \in ToSet(Front(q))
        <3>1. i \in 1..Len(q) - 1 BY <1>1, <1>2, <2>4
        <3> QED BY <1>2, <1>3, <3>1 DEF ToSet
    <2> QED BY <1>1, <2>2, <2>3, <2>4 DEF ToSet
<1>5. Len(q) \in 1..Len(q) BY <1>1
<1> QED BY <1>1, <1>2, <1>4, <1>5 DEF ToSet

-----------------------------------------------------------------------------
(* Induction: a set of natural numbers or of finite sets that is not empty *)
(* has a least element; so a statement without a least counterexample      *)
(* holds.                                                                  *)

LEMMA LeastNatural ==
    ASSUME NEW T, T \subseteq Nat, T # {}
    PROVE  \E m \in T : \A n \in T : m <= n
<1> DEFINE U == {1..n : n \in T}
<1>1. U \subseteq FiniteSubsetsOf(Nat)
    BY FS_Interval DEF FiniteSubsetsOf
<1>2. U # {}
    OBVIOUS
<1>3. \E u \in U : \A v \in U : ~ (<<v, u>> \in StrictSubsetOrdering(Nat))
    <2> HIDE DEF U
    <2> QED BY <1>1, <1>2, WFMin, FS_StrictSubsetOrderingWellFounded
<1>4. PICK m \in T : \A v \in U : ~ (<<v, 1..m>> \in StrictSubsetOrdering(Nat))
    BY <1>3
<1>5. ASSUME NEW n \in T, n < m PROVE FALSE
    <2>1. 1..n \in U OBVIOUS
    <2>2. 1..n \subseteq 1..m /\ m \in 1..m /\ m \notin 1..n BY <1>5
    <2>3. <<1..n, 1..m>> \in StrictSubsetOrdering(Nat)
        BY <2>2 DEF StrictSubsetOrdering
    <2> QED BY <1>4, <2>1, <2>3
<1> QED BY <1>5

LEMMA LeastSet ==
    ASSUME NEW S, IsFiniteSet(S), NEW T, T \subseteq SUBSET S, T # {}
    PROVE  \E u \in T : \A v \in T : v \subseteq u => v = u
<1>1. T \subseteq FiniteSubsetsOf(S)
    BY FS_Subset DEF FiniteSubsetsOf
<1>2. PICK u \in T : \A v \in T : ~ (<<v, u>> \in StrictSubsetOrdering(S))
    BY <1>1, WFMin, FS_StrictSubsetOrderingWellFounded
<1> QED BY <1>2 DEF StrictSubsetOrdering

-----------------------------------------------------------------------------
(* What is kept of a queue.                                                *)

\* The first n of Kept's recursion.
KeptTo(g, q, S, n) ==
    g = [m \in 0..n |-> IF m = 0 THEN <<>>
                        ELSE IF q[m] \in S THEN Append(g[m - 1], q[m]) ELSE g[m - 1]]

LEMMA KeptExists ==
    ASSUME NEW q, NEW S, NEW n \in Nat
    PROVE  \E g : KeptTo(g, q, S, n)
<1> DEFINE T == {k \in Nat : ~ \E g : KeptTo(g, q, S, k)}
<1> SUFFICES ASSUME T # {} PROVE FALSE
    OBVIOUS
<1>1. PICK k \in T : \A l \in T : k <= l
    <2> HIDE DEF T
    <2>1. T \subseteq Nat BY DEF T
    <2> QED BY <2>1, LeastNatural
<1>2. CASE k = 0
    <2>1. KeptTo([m \in 0..0 |-> <<>>], q, S, 0)
        BY DEF KeptTo
    <2> QED BY <1>2, <2>1
<1>3. CASE k # 0
    <2>1. k - 1 \in Nat /\ k - 1 \notin T
        BY <1>1, <1>3
    <2>2. PICK g : KeptTo(g, q, S, k - 1)
        BY <2>1
    <2> DEFINE h == [m \in 0..k |->
                        IF m = k THEN IF q[k] \in S THEN Append(g[k - 1], q[k]) ELSE g[k - 1]
                                 ELSE g[m]]
    <2>3. \A m \in 0..(k - 1) :
                g[m] = IF m = 0 THEN <<>>
                       ELSE IF q[m] \in S THEN Append(g[m - 1], q[m]) ELSE g[m - 1]
        BY <2>2 DEF KeptTo
    <2>4. ASSUME NEW m \in 0..k
          PROVE  h[m] = IF m = 0 THEN <<>>
                        ELSE IF q[m] \in S THEN Append(h[m - 1], q[m]) ELSE h[m - 1]
        <3>1. CASE m = k
            <4>1. k - 1 \in 0..k /\ k - 1 # k BY <1>3
            <4> QED BY <1>3, <3>1, <4>1
        <3>2. CASE m # k /\ m # 0
            <4>1. m \in 0..(k - 1) /\ m - 1 \in 0..k /\ m - 1 # k BY <3>2
            <4> QED BY <2>3, <3>2, <4>1
        <3>3. CASE m # k /\ m = 0
            <4>1. m \in 0..(k - 1) BY <3>3
            <4> QED BY <2>3, <3>3, <4>1
        <3> QED BY <3>1, <3>2, <3>3
    <2>5. KeptTo(h, q, S, k)
        BY <2>4 DEF KeptTo
    <2> QED BY <2>5
<1> QED BY <1>2, <1>3

\* Kept gives the members that are in S, each as often as before.
LEMMA KeptMembers ==
    ASSUME NEW P, NEW q \in Seq(P), NEW S
    PROVE  /\ Kept(q, S) \in Seq(P)
           /\ ToSet(Kept(q, S)) = ToSet(q) \intersect S
           /\ IsInjective(q) => IsInjective(Kept(q, S))
<1>1. Len(q) \in Nat /\ DOMAIN q = 1..Len(q) /\ \A i \in 1..Len(q) : q[i] \in P
    BY LenProperties
<1> DEFINE g == CHOOSE h : KeptTo(h, q, S, Len(q))
<1>2. KeptTo(g, q, S, Len(q))
    BY <1>1, KeptExists
<1>3. Kept(q, S) = g[Len(q)]
    BY DEF Kept, KeptTo
<1> DEFINE Good(n) == /\ g[n] \in Seq(P)
                      /\ ToSet(g[n]) = {q[i] : i \in 1..n} \intersect S
                      /\ IsInjective(q) => IsInjective(g[n])
<1> HIDE DEF g
<1>4. g[0] = <<>>
    BY <1>1, <1>2 DEF KeptTo
<1>5. ASSUME NEW n \in 1..Len(q)
      PROVE  g[n] = IF q[n] \in S THEN Append(g[n - 1], q[n]) ELSE g[n - 1]
    <2>1. n \in 0..Len(q) /\ n # 0 BY <1>1
    <2> QED BY <1>2, <2>1 DEF KeptTo
<1>6. Good(0)
    <2>1. ToSet(g[0]) = {} /\ IsInjective(g[0])
        BY <1>4, FewMembers
    <2>2. {q[i] : i \in 1..0} = {}
        OBVIOUS
    <2>3. g[0] \in Seq(P)
        BY <1>4, EmptySeq
    <2> QED BY <2>1, <2>2, <2>3
<1>7. ASSUME NEW n \in 1..Len(q), Good(n - 1) PROVE Good(n)
    <2>1. {q[i] : i \in 1..n} = {q[i] : i \in 1..(n - 1)} \union {q[n]}
        <3>1. 1..n = (1..(n - 1)) \union {n} BY <1>1
        <3> QED BY <3>1
    <2>2. CASE q[n] \notin S
        <3>1. g[n] = g[n - 1] BY <1>5, <2>2
        <3> QED BY <1>7, <2>1, <2>2, <3>1
    <2>3. CASE q[n] \in S
        <3>1. g[n] = Append(g[n - 1], q[n]) BY <1>5, <2>3
        <3>2. q[n] \in P BY <1>1
        <3>3. IsInjective(q) => q[n] \notin ToSet(g[n - 1])
            <4> SUFFICES ASSUME IsInjective(q), q[n] \in ToSet(g[n - 1]) PROVE FALSE
                OBVIOUS
            <4>1. PICK i \in 1..(n - 1) : q[n] = q[i] BY <1>7
            <4>2. i \in 1..Len(q) /\ i # n BY <1>1
            <4> QED BY <1>1, <4>1, <4>2 DEF IsInjective
        <3> QED BY <1>7, <2>1, <2>3, <3>1, <3>2, <3>3, MembersAppend
    <2> QED BY <2>2, <2>3
<1> DEFINE T == {n \in 0..Len(q) : ~ Good(n)}
<1>8. T = {}
    <2> SUFFICES ASSUME T # {} PROVE FALSE
        OBVIOUS
    <2>1. PICK n \in T : \A k \in T : n <= k
        <3>1. T \subseteq Nat BY <1>1
        <3> HIDE DEF T
        <3> QED BY <3>1, LeastNatural
    <2>2. n # 0 BY <1>6, <2>1
    <2>3. n \in 1..Len(q) /\ n - 1 \in 0..Len(q) /\ ~(n <= n - 1) BY <1>1, <2>2
    <2>4. Good(n - 1) BY <2>1, <2>3
    <2> HIDE DEF Good
    <2>5. ~Good(n) OBVIOUS
    <2> QED BY <1>7, <2>3, <2>4, <2>5
<1>9. Len(q) \in 0..Len(q)
    BY <1>1
<1>10. Good(Len(q))
    BY <1>8, <1>9
<1>11. {q[i] : i \in 1..Len(q)} = ToSet(q)
    BY <1>1 DEF ToSet
<1> QED BY <1>3, <1>10, <1>11

-----------------------------------------------------------------------------
(* Sums over a finite set.                                                 *)

OneOf(T) == CHOOSE x \in T : TRUE

\* The recursion of MapThenSumSet.
IsSum(g, f, S) ==
    g = [T \in SUBSET S |-> IF T = {} THEN 0 ELSE f[OneOf(T)] + g[T \ {OneOf(T)}]]

LEMMA TotalIsSum ==
    ASSUME NEW f, NEW S
    PROVE  Total(f, S) = (CHOOSE g : IsSum(g, f, S))[S]
BY DEF Total, MapThenSumSet, MapThenFoldSet, IsSum, OneOf

LEMMA OneOfIn == \A T : T # {} => OneOf(T) \in T
BY DEF OneOf

\* Two solutions of the recursion agree.
LEMMA SumUnique ==
    ASSUME NEW f, NEW S, IsFiniteSet(S), NEW R \in SUBSET S, NEW g, NEW h,
           IsSum(g, f, S), IsSum(h, f, R)
    PROVE  \A T \in SUBSET R : g[T] = h[T]
<1> DEFINE C == {T \in SUBSET R : g[T] # h[T]}
<1> SUFFICES ASSUME C # {} PROVE FALSE
    OBVIOUS
<1>1. PICK T \in C : \A U \in C : U \subseteq T => U = T
    <2> HIDE DEF C
    <2>1. IsFiniteSet(R) BY FS_Subset
    <2>2. C \subseteq SUBSET R BY DEF C
    <2> QED BY <2>1, <2>2, LeastSet
<1>2. /\ g[T] = IF T = {} THEN 0 ELSE f[OneOf(T)] + g[T \ {OneOf(T)}]
      /\ h[T] = IF T = {} THEN 0 ELSE f[OneOf(T)] + h[T \ {OneOf(T)}]
    BY DEF IsSum
<1>3. T # {}
    BY <1>2
<1>4. OneOf(T) \in T
    BY <1>3, OneOfIn
<1>5. T \ {OneOf(T)} \in SUBSET R /\ T \ {OneOf(T)} \notin C
    BY <1>1, <1>4
<1>6. g[T \ {OneOf(T)}] = h[T \ {OneOf(T)}]
    BY <1>5
<1> QED BY <1>2, <1>3, <1>6

\* It has a solution.
LEMMA SumExists ==
    ASSUME NEW f, NEW S, IsFiniteSet(S)
    PROVE  \E g : IsSum(g, f, S)
<1> DEFINE C == {T \in SUBSET S : ~ \E g : IsSum(g, f, T)}
<1> SUFFICES ASSUME C # {} PROVE FALSE
    OBVIOUS
<1>1. PICK T \in C : \A U \in C : U \subseteq T => U = T
    <2> HIDE DEF C
    <2>1. C \subseteq SUBSET S BY DEF C
    <2> QED BY <2>1, LeastSet
<1> DEFINE sum(U) == CHOOSE g : IsSum(g, f, U)
           h == [U \in SUBSET T |-> IF U = {} THEN 0
                                    ELSE f[OneOf(U)] + sum(U \ {OneOf(U)})[U \ {OneOf(U)}]]
<1>2. ASSUME NEW U \in SUBSET T, U # T PROVE IsSum(sum(U), f, U)
    <2>1. U \in SUBSET S /\ U \notin C BY <1>1, <1>2
    <2> QED BY <2>1
<1>3. ASSUME NEW U \in SUBSET T, U # {}
      PROVE  h[U \ {OneOf(U)}] = sum(U \ {OneOf(U)})[U \ {OneOf(U)}]
    <2> DEFINE V == U \ {OneOf(U)}
    <2>1. V \in SUBSET T /\ V # T /\ IsFiniteSet(V) /\ OneOf(U) \notin V
        BY <1>3, OneOfIn, FS_Subset
    <2>2. IsSum(sum(V), f, V)
        BY <1>2, <2>1
    <2> HIDE DEF V, sum, h
    <2>3. CASE V = {}
        <3>1. sum(V)[V] = 0 BY <2>2, <2>3 DEF IsSum
        <3>2. h[V] = 0 BY <2>1, <2>3 DEF h
        <3> QED BY <3>1, <3>2 DEF V
    <2>4. CASE V # {}
        <3> DEFINE W == V \ {OneOf(V)}
        <3>1. W \in SUBSET V /\ W \in SUBSET T /\ W # T
            BY <2>1
        <3>2. IsSum(sum(W), f, W)
            BY <1>2, <3>1
        <3>3. sum(V)[W] = sum(W)[W]
            BY <2>1, <2>2, <3>1, <3>2, SumUnique
        <3>4. sum(V)[V] = f[OneOf(V)] + sum(V)[W]
            BY <2>2, <2>4 DEF IsSum
        <3>5. h[V] = f[OneOf(V)] + sum(W)[W]
            BY <2>1, <2>4 DEF h
        <3> QED BY <3>3, <3>4, <3>5 DEF V
    <2> QED BY <2>3, <2>4
<1>4. IsSum(h, f, T)
    <2> HIDE DEF sum
    <2> SUFFICES ASSUME NEW U \in SUBSET T
                 PROVE  h[U] = IF U = {} THEN 0 ELSE f[OneOf(U)] + h[U \ {OneOf(U)}]
        BY DEF IsSum
    <2> QED BY <1>3
<1> QED BY <1>4

LEMMA TotalStep ==
    ASSUME NEW f, NEW S, IsFiniteSet(S)
    PROVE  /\ Total(f, {}) = 0
           /\ S # {} => Total(f, S) = f[OneOf(S)] + Total(f, S \ {OneOf(S)})
<1>1. \A U \in SUBSET S : /\ IsSum(CHOOSE g : IsSum(g, f, U), f, U)
                          /\ Total(f, U) = (CHOOSE g : IsSum(g, f, U))[U]
    BY FS_Subset, SumExists, TotalIsSum
<1>2. Total(f, {}) = 0
    BY <1>1 DEF IsSum
<1>3. ASSUME S # {} PROVE Total(f, S) = f[OneOf(S)] + Total(f, S \ {OneOf(S)})
    <2> DEFINE R == S \ {OneOf(S)}
               g == CHOOSE h : IsSum(h, f, S)
               k == CHOOSE h : IsSum(h, f, R)
    <2>1. R \in SUBSET S /\ IsSum(g, f, S) /\ IsSum(k, f, R)
        BY <1>1
    <2>2. Total(f, S) = g[S] /\ Total(f, R) = k[R]
        BY <1>1
    <2> HIDE DEF g, k, R
    <2>3. \A T \in SUBSET R : g[T] = k[T]
        BY <2>1, SumUnique
    <2>4. g[R] = k[R]
        BY <2>3
    <2>5. g[S] = f[OneOf(S)] + g[R]
        BY <1>3, <2>1 DEF IsSum, R
    <2> QED BY <2>2, <2>4, <2>5 DEF R
<1> QED BY <1>2, <1>3

\* A sum of natural numbers is one.
LEMMA TotalType ==
    ASSUME NEW f, NEW S, IsFiniteSet(S), \A x \in S : f[x] \in Nat
    PROVE  \A T \in SUBSET S : Total(f, T) \in Nat
<1> DEFINE C == {T \in SUBSET S : Total(f, T) \notin Nat}
<1> SUFFICES ASSUME C # {} PROVE FALSE
    OBVIOUS
<1>1. PICK T \in C : \A U \in C : U \subseteq T => U = T
    <2> HIDE DEF C
    <2>1. C \subseteq SUBSET S BY DEF C
    <2> QED BY <2>1, LeastSet
<1>2. IsFiniteSet(T)
    BY FS_Subset
<1>3. T # {}
    <2>1. Total(f, {}) = 0 BY <1>2, TotalStep
    <2> QED BY <2>1
<1>4. OneOf(T) \in T /\ Total(f, T) = f[OneOf(T)] + Total(f, T \ {OneOf(T)})
    BY <1>2, <1>3, TotalStep, OneOfIn
<1>5. T \ {OneOf(T)} \in SUBSET S /\ T \ {OneOf(T)} \notin C
    BY <1>1, <1>4
<1> QED BY <1>4, <1>5

\* A sum depends on the members only.
LEMMA TotalSame ==
    ASSUME NEW f, NEW g, NEW S, IsFiniteSet(S), \A x \in S : f[x] = g[x]
    PROVE  Total(f, S) = Total(g, S)
<1> DEFINE C == {T \in SUBSET S : Total(f, T) # Total(g, T)}
<1> SUFFICES ASSUME C # {} PROVE FALSE
    OBVIOUS
<1>1. PICK T \in C : \A U \in C : U \subseteq T => U = T
    <2> HIDE DEF C
    <2>1. C \subseteq SUBSET S BY DEF C
    <2> QED BY <2>1, LeastSet
<1>2. IsFiniteSet(T)
    BY FS_Subset
<1>3. T # {}
    <2>1. Total(f, {}) = 0 /\ Total(g, {}) = 0 BY <1>2, TotalStep
    <2> QED BY <2>1
<1>4. /\ OneOf(T) \in T
      /\ Total(f, T) = f[OneOf(T)] + Total(f, T \ {OneOf(T)})
      /\ Total(g, T) = g[OneOf(T)] + Total(g, T \ {OneOf(T)})
    BY <1>2, <1>3, TotalStep, OneOfIn
<1>5. T \ {OneOf(T)} \in SUBSET S /\ T \ {OneOf(T)} \notin C
    BY <1>1, <1>4
<1> QED BY <1>4, <1>5

\* It does not matter which member is taken out first.
LEMMA TotalWithout ==
    ASSUME NEW f, NEW S, IsFiniteSet(S), \A x \in S : f[x] \in Nat, NEW x \in S
    PROVE  Total(f, S) = f[x] + Total(f, S \ {x})
<1> DEFINE C == {T \in SUBSET S : \E y \in T : Total(f, T) # f[y] + Total(f, T \ {y})}
<1> SUFFICES ASSUME C # {} PROVE FALSE
    OBVIOUS
<1>1. PICK T \in C : \A U \in C : U \subseteq T => U = T
    <2> HIDE DEF C
    <2>1. C \subseteq SUBSET S BY DEF C
    <2> QED BY <2>1, LeastSet
<1>2. PICK y \in T : Total(f, T) # f[y] + Total(f, T \ {y})
    OBVIOUS
<1> DEFINE a == OneOf(T)
<1>3. IsFiniteSet(T) /\ IsFiniteSet(T \ {y})
    BY FS_Subset
<1>4. a \in T /\ Total(f, T) = f[a] + Total(f, T \ {a})
    BY <1>2, <1>3, TotalStep, OneOfIn
<1> HIDE DEF a
<1>5. a # y
    BY <1>2, <1>4
<1> DEFINE R == T \ {a, y}
<1>6. \A U \in SUBSET S : U \subseteq T /\ U # T => U \notin C
    BY <1>1
<1>7. Total(f, T \ {a}) = f[y] + Total(f, R)
    <2>1. T \ {a} \in SUBSET S /\ T \ {a} \notin C
        BY <1>4, <1>6
    <2>2. y \in T \ {a} /\ (T \ {a}) \ {y} = R
        BY <1>5
    <2> QED BY <2>1, <2>2
<1>8. Total(f, T \ {y}) = f[a] + Total(f, R)
    <2>1. T \ {y} \in SUBSET S /\ T \ {y} \notin C
        BY <1>2, <1>6
    <2>2. a \in T \ {y} /\ (T \ {y}) \ {a} = R
        BY <1>4, <1>5
    <2> QED BY <2>1, <2>2
<1>9. f[a] \in Nat /\ f[y] \in Nat /\ Total(f, R) \in Nat
    <2>1. R \in SUBSET S OBVIOUS
    <2> QED BY <1>4, <2>1, TotalType
<1> HIDE DEF C, R
<1> QED BY <1>2, <1>4, <1>7, <1>8, <1>9

\* A sum is that of a part and that of the rest.
LEMMA TotalSplit ==
    ASSUME NEW f, NEW S, IsFiniteSet(S), \A x \in S : f[x] \in Nat, NEW A \in SUBSET S
    PROVE  Total(f, S) = Total(f, A) + Total(f, S \ A)
<1> DEFINE C == {T \in SUBSET A : Total(f, S) # Total(f, T) + Total(f, S \ T)}
<1> SUFFICES ASSUME C # {} PROVE FALSE
    OBVIOUS
<1>1. IsFiniteSet(A)
    BY FS_Subset
<1>2. PICK T \in C : \A U \in C : U \subseteq T => U = T
    <2> HIDE DEF C
    <2>1. C \subseteq SUBSET A BY DEF C
    <2> QED BY <1>1, <2>1, LeastSet
<1>3. \A U \in SUBSET S : Total(f, U) \in Nat /\ IsFiniteSet(U)
    BY TotalType, FS_Subset
<1>4. T # {}
    <2>1. Total(f, {}) = 0 /\ S \ {} = S BY TotalStep
    <2> QED BY <1>3, <2>1
<1>5. PICK x \in T : TRUE
    BY <1>4
<1>6. Total(f, T) = f[x] + Total(f, T \ {x})
    BY <1>3, TotalWithout
<1> DEFINE V == T \ {x}
<1>7. x \in S \ V /\ (S \ V) \ {x} = S \ T /\ S \ V \in SUBSET S
    OBVIOUS
<1>8. Total(f, S \ V) = f[x] + Total(f, S \ T)
    BY <1>3, <1>7, TotalWithout
<1>9. V \in SUBSET A /\ V \notin C
    BY <1>2
<1>10. Total(f, S) = Total(f, V) + Total(f, S \ V)
    BY <1>9
<1>11. /\ f[x] \in Nat /\ Total(f, V) \in Nat /\ Total(f, S \ T) \in Nat
       /\ Total(f, S) # Total(f, T) + Total(f, S \ T)
    BY <1>3, <1>5
<1> HIDE DEF V, C
<1> QED BY <1>6, <1>8, <1>10, <1>11 DEF V

\* A sum of zeros.
LEMMA TotalZero ==
    ASSUME NEW f, NEW S, IsFiniteSet(S), \A x \in S : f[x] = 0
    PROVE  Total(f, S) = 0
<1> DEFINE C == {T \in SUBSET S : Total(f, T) # 0}
<1> SUFFICES ASSUME C # {} PROVE FALSE
    OBVIOUS
<1>1. PICK T \in C : \A U \in C : U \subseteq T => U = T
    <2> HIDE DEF C
    <2>1. C \subseteq SUBSET S BY DEF C
    <2> QED BY <2>1, LeastSet
<1>2. IsFiniteSet(T)
    BY FS_Subset
<1>3. T # {}
    BY <1>2, TotalStep
<1>4. OneOf(T) \in T /\ Total(f, T) = f[OneOf(T)] + Total(f, T \ {OneOf(T)})
    BY <1>2, <1>3, TotalStep, OneOfIn
<1>5. T \ {OneOf(T)} \in SUBSET S /\ T \ {OneOf(T)} \notin C
    BY <1>1, <1>4
<1> QED BY <1>4, <1>5

-----------------------------------------------------------------------------
(* The invariant.                                                          *)

Batch == ToSet(batch)
Running == ToSet(running)
Waiting == ToSet(waiting)
Done == ToSet(done)
AtSlot == Batch \union Running
Held == AtSlot \union Waiting \union Done
HeldOf(r) == {s \in Held : Of(s) = r}

\* A sequence is in one place of one queue.
Places ==
    /\ IsInjective(batch) /\ IsInjective(running)
    /\ IsInjective(waiting) /\ IsInjective(done)
    /\ Batch \intersect (Running \union Waiting \union Done) = {}
    /\ Running \intersect (Waiting \union Done) = {}
    /\ Waiting \intersect Done = {}

\* Where the loop is, and what can be in its hands there.
Loop ==
    /\ pc \in {"drain", "harvest"} => batch = <<>>
    /\ pc \in {"drain", "admit", "reserve"} => \A s \in Done : Of(s) \in struck

\* A request in the worker's queue has not been touched: it is there once, and
\* has no answer, no sequence and no token.
Untouched ==
    /\ IsInjective(inbox)
    /\ \A r \in ToSet(inbox) : answer[r] = "pending"
    /\ \A r \in Requests : answer[r] = "none" \/ r \in ToSet(inbox) =>
            /\ HeldOf(r) = {}
            /\ r \notin struck
            /\ \A s \in Seqs : Of(s) = r => out[s] = 0

\* What is not over may generate one token more.
Unfinished == \A s \in AtSlot \union Waiting : out[s] < MaxNew

\* No page is lost or listed twice.
PageCount ==
    /\ freePages + Total(table, Slots) = NPages
    /\ \A b \in Slots : capacity[b] <= table[b]

\* What is at work has a slot.
Slotted == \A s \in AtSlot : slot[s] \in Slots

\* As long as no slot was erased twice.
Cache ==
    ~refreed =>
        /\ IsInjective(freeSlots)
        /\ \A s, t \in AtSlot : slot[s] = slot[t] => s = t
        /\ \A s \in AtSlot : slot[s] \notin ToSet(freeSlots)
        /\ \A b \in ToSet(freeSlots) : table[b] = 0
        /\ capacity = table
        /\ \A s \in Running : capacity[slot[s]] + 1 >= Tokens(s)
        /\ \A s \in Batch : capacity[slot[s]] >= Tokens(s)

\* The count of a page is that of its sequences.
Counted == \A r \in Requests : left[r] # 0 => left[r] = Cardinality(HeldOf(r))

\* A page that is not answered and of which there is a sequence is counted.
Counting ==
    \A r \in Layout :
        answer[r] = "pending" /\ r \notin struck /\ HeldOf(r) # {} => left[r] # 0

\* NothingForgotten and WholePage, of the sequences that are held.
Remembered ==
    \A r \in Requests :
        answer[r] = "pending" /\ r \notin struck /\ pc # "dead" =>
            r \in ToSet(inbox) \/ HeldOf(r) # {}
Whole == \A r \in Layout : answer[r] = "ok" => HeldOf(r) = {}

EngineInv ==
    /\ TypeOK /\ Places /\ Loop /\ Untouched /\ Unfinished
    /\ PageCount /\ Slotted /\ Cache
    /\ Counted /\ Counting /\ Remembered /\ Whole

-----------------------------------------------------------------------------
(* The slots and pages.                                                    *)

LEMMA SlotsFinite == IsFiniteSet(Slots)
BY SizesAssumption, FS_Interval DEF Slots

LEMMA SlotsOfMembers ==
    ASSUME NEW q \in Seq(Seqs), \A s \in ToSet(q) : slot[s] \in Slots
    PROVE  /\ SlotsOf(q) \in Seq(Slots)
           /\ ToSet(SlotsOf(q)) = {slot[s] : s \in ToSet(q)}
           /\ IsInjective(q) /\ (\A s, t \in ToSet(q) : slot[s] = slot[t] => s = t)
                => IsInjective(SlotsOf(q))
<1>1. Len(q) \in Nat /\ DOMAIN q = 1..Len(q) /\ \A i \in 1..Len(q) : q[i] \in ToSet(q)
    BY LenProperties DEF ToSet
<1>2. SlotsOf(q) \in [1..Len(q) -> Slots]
    BY <1>1 DEF SlotsOf
<1>3. SlotsOf(q) \in Seq(Slots)
    BY <1>1, <1>2, SeqDef
<1>4. ToSet(SlotsOf(q)) = {slot[s] : s \in ToSet(q)}
    BY <1>1 DEF SlotsOf, ToSet
<1>5. ASSUME IsInjective(q), \A s, t \in ToSet(q) : slot[s] = slot[t] => s = t
      PROVE  IsInjective(SlotsOf(q))
    <2>1. \A i, j \in 1..Len(q) : slot[q[i]] = slot[q[j]] => q[i] = q[j]
        BY <1>1, <1>5
    <2>2. \A i, j \in 1..Len(q) : q[i] = q[j] => i = j
        BY <1>1, <1>5 DEF IsInjective
    <2> QED BY <1>1, <2>1, <2>2 DEF IsInjective, SlotsOf
<1> QED BY <1>3, <1>4, <1>5

\* erase: the pages that are listed no more are free.
LEMMA ErasePages ==
    ASSUME TypeOK, PageCount, NEW q \in Seq(Slots), Erase(q)
    PROVE  /\ freeSlots' \in Seq(Slots) /\ freePages' \in 0..NPages
           /\ table' \in [Slots -> 0..NPages] /\ capacity' \in [Slots -> 0..NPages]
           /\ PageCount'
<1> DEFINE A == ToSet(q)
<1>1. A \in SUBSET Slots /\ IsFiniteSet(Slots) /\ IsFiniteSet(A) /\ IsFiniteSet(Slots \ A)
    BY MembersType, SlotsFinite, FS_Subset
<1>2. /\ \A b \in Slots : table[b] \in Nat /\ table'[b] \in Nat
      /\ \A b \in Slots \ A : table[b] = table'[b]
      /\ \A b \in A : table'[b] = 0
      /\ table' \in [Slots -> 0..NPages] /\ capacity' \in [Slots -> 0..NPages]
      /\ \A b \in Slots : capacity'[b] <= table'[b]
    BY <1>1, SizesAssumption DEF TypeOK, Erase, PageCount
<1>3. freePages' = freePages + Total(table, A)
    BY DEF Erase
<1>4. freePages \in Nat /\ NPages \in Nat
    BY SizesAssumption DEF TypeOK
<1> HIDE DEF A
<1>5. /\ Total(table, Slots) = Total(table, A) + Total(table, Slots \ A)
      /\ Total(table', Slots) = Total(table', A) + Total(table', Slots \ A)
    <2>1. \A b \in Slots : table[b] \in Nat BY <1>2
    <2>2. \A b \in Slots : table'[b] \in Nat BY <1>2
    <2>3. Total(table, Slots) = Total(table, A) + Total(table, Slots \ A)
        BY <1>1, <2>1, TotalSplit
    <2>4. Total(table', Slots) = Total(table', A) + Total(table', Slots \ A)
        BY <1>1, <2>2, TotalSplit
    <2> QED BY <2>3, <2>4
<1>6. Total(table', A) = 0 /\ Total(table, Slots \ A) = Total(table', Slots \ A)
    BY <1>1, <1>2, TotalZero, TotalSame
<1>7. Total(table, A) \in Nat /\ Total(table, Slots \ A) \in Nat
    BY <1>1, <1>2, TotalType
<1>8. freePages + Total(table, Slots) = NPages
    BY DEF PageCount
<1>9. freePages' \in 0..NPages /\ freePages' + Total(table', Slots) = NPages
    BY <1>3, <1>4, <1>5, <1>6, <1>7, <1>8
<1>10. freeSlots' \in Seq(Slots)
    BY ConcatProperties DEF TypeOK, Erase
<1>11. (freePages + Total(table, Slots) = NPages)' <=> freePages' + Total(table', Slots) = NPages
    BY DEF Slots
<1> QED BY <1>2, <1>9, <1>10, <1>11 DEF PageCount, Slots

\* reserve: the pages that come to a slot were free.
LEMMA ReservePages ==
    ASSUME TypeOK, PageCount, NEW b \in Slots, NEW has \in 0..capacity[b], NEW n \in Nat,
           Reserve(b, has, n)
    PROVE  /\ freePages' \in 0..NPages
           /\ table' \in [Slots -> 0..NPages] /\ capacity' \in [Slots -> 0..NPages]
           /\ PageCount'
           /\ capacity'[b] >= n /\ capacity'[b] + table[b] = table'[b] + has
           /\ \A c \in Slots \ {b} : capacity'[c] = capacity[c] /\ table'[c] = table[c]
<1>1. PICK more \in Nat :
        /\ more = IF n <= has THEN 0 ELSE n - has
        /\ more <= freePages
        /\ freePages' = freePages - more
        /\ table' = [table EXCEPT ![b] = @ + more]
        /\ capacity' = [capacity EXCEPT ![b] = has + more]
    <2>1. capacity[b] \in Nat BY SizesAssumption DEF TypeOK
    <2>2. (IF n <= has THEN 0 ELSE n - has) \in Nat BY <2>1
    <2> QED BY <2>2 DEF Reserve
<1>2. /\ freePages \in 0..NPages /\ NPages \in Nat
      /\ table \in [Slots -> 0..NPages] /\ capacity \in [Slots -> 0..NPages]
      /\ freePages + Total(table, Slots) = NPages
      /\ \A c \in Slots : capacity[c] <= table[c]
    BY SizesAssumption DEF TypeOK, PageCount
<1>3. /\ table'[b] = table[b] + more /\ capacity'[b] = has + more
      /\ \A c \in Slots \ {b} : capacity'[c] = capacity[c] /\ table'[c] = table[c]
      /\ table' \in [Slots -> Nat] /\ capacity' \in [Slots -> Nat]
    BY <1>1, <1>2
<1>4. IsFiniteSet(Slots) /\ IsFiniteSet(Slots \ {b}) /\ Slots \ {b} \in SUBSET Slots
    BY SlotsFinite, FS_Subset
<1>5. \A c \in Slots : table[c] \in Nat /\ table'[c] \in Nat
    BY <1>2, <1>3
<1>6. /\ Total(table, Slots) = table[b] + Total(table, Slots \ {b})
      /\ Total(table', Slots) = table'[b] + Total(table', Slots \ {b})
    BY <1>4, <1>5, TotalWithout
<1>7. Total(table, Slots \ {b}) = Total(table', Slots \ {b})
    BY <1>3, <1>4, TotalSame
<1>8. Total(table, Slots \ {b}) \in Nat
    BY <1>4, <1>5, TotalType
<1>9. /\ freePages' \in 0..NPages /\ table'[b] <= NPages
      /\ freePages' + Total(table', Slots) = NPages
    BY <1>1, <1>2, <1>3, <1>5, <1>6, <1>7, <1>8
<1>10. /\ capacity'[b] <= table'[b] /\ capacity'[b] >= n
       /\ capacity'[b] + table[b] = table'[b] + has
    BY <1>1, <1>2, <1>3, <1>5
<1>11. \A c \in Slots : capacity'[c] <= table'[c] /\ table'[c] <= NPages
    BY <1>2, <1>3, <1>9, <1>10
<1>12. table' \in [Slots -> 0..NPages] /\ capacity' \in [Slots -> 0..NPages]
    BY <1>2, <1>3, <1>11
<1>13. (freePages + Total(table, Slots) = NPages)' <=> freePages' + Total(table', Slots) = NPages
    BY DEF Slots
<1> QED BY <1>3, <1>9, <1>10, <1>11, <1>12, <1>13 DEF PageCount, Slots

-----------------------------------------------------------------------------
(* What most steps leave alone.                                            *)

LEMMA QueueTypes ==
    ASSUME TypeOK
    PROVE  /\ batch \in Seq(Seqs) /\ running \in Seq(Seqs)
           /\ waiting \in Seq(Seqs) /\ done \in Seq(Seqs)
           /\ Batch \subseteq Seqs /\ Running \subseteq Seqs
           /\ Waiting \subseteq Seqs /\ Done \subseteq Seqs
<1>1. /\ batch \in Seq(Seqs) /\ running \in Seq(Seqs)
      /\ waiting \in Seq(Seqs) /\ done \in Seq(Seqs)
    BY DEF TypeOK
<1> QED BY <1>1, MembersType DEF Batch, Running, Waiting, Done

LEMMA SeqsType ==
    /\ \A s \in Seqs : Of(s) \in Requests
    /\ \A s \in Seqs : Prompt[Of(s)] \in 1..MaxSeq
    /\ \A r \in Requests, i \in Nat : i \in 1..Regions[r] => <<r, i>> \in Seqs
BY RequestsAssumption DEF Seqs, Of

\* A step that moves sequences between queues.
LEMMA MovesKeep ==
    ASSUME EngineInv, Held' = Held, UNCHANGED <<answer, inbox, left, struck>>,
           pc # "dead", \A s \in Seqs \ Held : out'[s] = out[s]
    PROVE  Untouched' /\ Counted' /\ Counting' /\ Remembered' /\ Whole'
<1>1. \A r : HeldOf(r)' = HeldOf(r)
    BY DEF HeldOf
<1>2. Untouched'
    <2>1. \A r \in Requests, s \in Seqs : Of(s) = r /\ HeldOf(r) = {} => s \in Seqs \ Held
        BY DEF HeldOf
    <2> QED BY <1>1, <2>1 DEF EngineInv, Untouched
<1>3. Counted'
    BY <1>1 DEF EngineInv, Counted
<1>4. Counting' /\ Whole'
    BY <1>1, RequestsAssumption DEF EngineInv, Counting, Whole
<1>5. Remembered'
    BY <1>1 DEF EngineInv, Remembered
<1> QED BY <1>2, <1>3, <1>4, <1>5

\* A step that leaves slots and pages alone, and what is at work.
LEMMA QuietCache ==
    ASSUME EngineInv,
           UNCHANGED <<batch, running, slot, out, freeSlots, freePages, table, capacity, refreed>>
    PROVE  PageCount' /\ Slotted' /\ Cache'
<1>1. PageCount'
    BY DEF EngineInv, PageCount, Slots
<1>2. Batch' = Batch /\ Running' = Running /\ AtSlot' = AtSlot
    BY DEF Batch, Running, AtSlot
<1>3. Slotted'
    BY <1>2 DEF EngineInv, Slotted
<1>4. \A s : Tokens(s)' = Tokens(s)
    BY DEF Tokens
<1>5. Cache'
    BY <1>2, <1>4 DEF EngineInv, Cache
<1> QED BY <1>1, <1>3, <1>5

\* A step that leaves the queues of the engine alone.
LEMMA QuietQueues ==
    ASSUME EngineInv, UNCHANGED <<batch, running, waiting, done, out>>
    PROVE  /\ Places' /\ Unfinished' /\ Held' = Held /\ Done' = Done
           /\ \A r : HeldOf(r)' = HeldOf(r)
<1>1. /\ Batch' = Batch /\ Running' = Running /\ Waiting' = Waiting /\ Done' = Done
      /\ AtSlot' = AtSlot
    BY DEF Batch, Running, Waiting, Done, AtSlot
<1>2. Held' = Held
    BY <1>1 DEF Held
<1>3. Places'
    BY <1>1 DEF EngineInv, Places, IsInjective
<1>4. Unfinished'
    BY <1>1 DEF EngineInv, Unfinished
<1>5. \A r : HeldOf(r)' = HeldOf(r)
    BY <1>2 DEF HeldOf
<1> QED BY <1>1, <1>2, <1>3, <1>4, <1>5

-----------------------------------------------------------------------------
(* The steps that only move the worker's loop.                             *)

LEMMA StartStepKeeps == ASSUME EngineInv, StartStep PROVE EngineInv'
<1>1. TypeOK'
    BY DEF EngineInv, TypeOK, StartStep, engine, cache, history
<1>2. PageCount' /\ Slotted' /\ Cache'
    BY QuietCache DEF StartStep, engine, cache, history
<1>3. Places' /\ Unfinished' /\ Held' = Held /\ Done' = Done
    BY QuietQueues DEF StartStep, engine
<1>4. Loop'
    BY <1>3 DEF EngineInv, Loop, StartStep, engine, history
<1>5. Untouched' /\ Counted' /\ Counting' /\ Remembered' /\ Whole'
    BY <1>3, MovesKeep DEF StartStep, engine, history
<1> QED BY <1>1, <1>2, <1>3, <1>4, <1>5 DEF EngineInv

LEMMA AdmitsNobodyKeeps == ASSUME EngineInv, AdmitsNobody PROVE EngineInv'
<1>1. TypeOK'
    BY DEF EngineInv, TypeOK, AdmitsNobody, engine, cache, history
<1>2. PageCount' /\ Slotted' /\ Cache'
    BY QuietCache DEF AdmitsNobody, engine, cache, history
<1>3. Places' /\ Unfinished' /\ Held' = Held /\ Done' = Done
    BY QuietQueues DEF AdmitsNobody, engine
<1>4. Loop'
    BY <1>3 DEF EngineInv, Loop, AdmitsNobody, engine, history
<1>5. Untouched' /\ Counted' /\ Counting' /\ Remembered' /\ Whole'
    BY <1>3, MovesKeep DEF AdmitsNobody, engine, history
<1> QED BY <1>1, <1>2, <1>3, <1>4, <1>5 DEF EngineInv

LEMMA DecodesNobodyKeeps == ASSUME EngineInv, DecodesNobody PROVE EngineInv'
<1>1. TypeOK'
    BY DEF EngineInv, TypeOK, DecodesNobody, engine, cache, history
<1>2. PageCount' /\ Slotted' /\ Cache'
    BY QuietCache DEF DecodesNobody, engine, cache, history
<1>3. Places' /\ Unfinished' /\ Held' = Held /\ Done' = Done
    BY QuietQueues DEF DecodesNobody, engine
<1>4. Loop'
    BY <1>3 DEF EngineInv, Loop, DecodesNobody, engine, history
<1>5. Untouched' /\ Counted' /\ Counting' /\ Remembered' /\ Whole'
    BY <1>3, MovesKeep DEF DecodesNobody, engine, history
<1> QED BY <1>1, <1>2, <1>3, <1>4, <1>5 DEF EngineInv

LEMMA HarvestedKeeps == ASSUME EngineInv, Harvested PROVE EngineInv'
<1>1. TypeOK'
    BY DEF EngineInv, TypeOK, Harvested, engine, cache, history
<1>2. PageCount' /\ Slotted' /\ Cache'
    BY QuietCache DEF Harvested, engine, cache, history
<1>3. Places' /\ Unfinished' /\ Held' = Held /\ Done' = Done
    BY QuietQueues DEF Harvested, engine
<1>4. Done = {}
    BY FewMembers DEF Harvested, Done
<1>5. Loop'
    BY <1>3, <1>4 DEF EngineInv, Loop, Harvested, engine, history
<1>6. Untouched' /\ Counted' /\ Counting' /\ Remembered' /\ Whole'
    BY <1>3, MovesKeep DEF Harvested, engine, history
<1> QED BY <1>1, <1>2, <1>3, <1>5, <1>6 DEF EngineInv

LEMMA DiesKeeps == ASSUME EngineInv, Dies PROVE EngineInv'
<1>1. TypeOK'
    BY SizesAssumption DEF EngineInv, TypeOK, Dies, engine, cache
<1>2. PageCount' /\ Slotted' /\ Cache'
    BY QuietCache DEF Dies, engine, cache
<1>3. Places' /\ Unfinished' /\ Held' = Held /\ Done' = Done
    BY QuietQueues DEF Dies, engine
<1>4. Loop'
    BY DEF Loop, Dies
<1>5. Untouched' /\ Counted' /\ Counting' /\ Remembered' /\ Whole'
    BY <1>3, MovesKeep DEF Dies, engine
<1> QED BY <1>1, <1>2, <1>3, <1>4, <1>5 DEF EngineInv

LEMMA StutterKeeps == ASSUME EngineInv, UNCHANGED vars PROVE EngineInv'
<1>1. TypeOK'
    BY DEF EngineInv, TypeOK, vars, engine, cache, history
<1>2. PageCount' /\ Slotted' /\ Cache'
    BY QuietCache DEF vars, engine, cache, history
<1>3. Places' /\ Unfinished' /\ Held' = Held /\ Done' = Done /\ \A r : HeldOf(r)' = HeldOf(r)
    BY QuietQueues DEF vars, engine
<1>4. Loop'
    BY <1>3 DEF EngineInv, Loop, vars, engine, history
<1>5. Untouched' /\ Remembered'
    BY <1>3 DEF EngineInv, Untouched, Remembered, vars, history
<1>6. Counted' /\ Counting' /\ Whole'
    BY <1>3, RequestsAssumption DEF EngineInv, Counted, Counting, Whole, vars, history
<1> QED BY <1>1, <1>2, <1>3, <1>4, <1>5, <1>6 DEF EngineInv

-----------------------------------------------------------------------------
(* The API and the worker's queue.                                         *)

LEMMA SubmitKeeps == ASSUME EngineInv, NEW r \in Requests, Submit(r) PROVE EngineInv'
<1>1. inbox \in Seq(Requests) /\ r \notin ToSet(inbox)
    BY DEF EngineInv, TypeOK, Untouched, Submit
<1>2. /\ inbox' \in Seq(Requests) /\ ToSet(inbox') = ToSet(inbox) \union {r}
      /\ IsInjective(inbox')
    BY <1>1, MembersAppend DEF EngineInv, Untouched, Submit
<1>3. TypeOK'
    BY <1>2 DEF EngineInv, TypeOK, Submit, engine, cache, history
<1>4. PageCount' /\ Slotted' /\ Cache'
    BY QuietCache DEF Submit, engine, cache, history
<1>5. Places' /\ Unfinished' /\ Done' = Done /\ \A q : HeldOf(q)' = HeldOf(q)
    BY QuietQueues DEF Submit, engine
<1>6. Loop'
    BY <1>5 DEF EngineInv, Loop, Submit, engine, history
<1>7. /\ answer'[r] = "pending" /\ \A q \in Requests \ {r} : answer'[q] = answer[q]
      /\ answer[r] = "none" /\ UNCHANGED <<left, struck, out, pc>>
      /\ ToSet(inbox) \subseteq Requests
    BY <1>1, MembersType DEF EngineInv, TypeOK, Submit, history
<1>8. Untouched'
    BY <1>2, <1>5, <1>7 DEF EngineInv, Untouched
<1>9. Counted'
    BY <1>5, <1>7 DEF EngineInv, Counted
<1>10. Counting' /\ Whole'
    BY <1>5, <1>7, RequestsAssumption DEF EngineInv, Untouched, Counting, Whole
<1>11. Remembered'
    BY <1>2, <1>5, <1>7 DEF EngineInv, Remembered
<1> QED BY <1>3, <1>4, <1>5, <1>6, <1>8, <1>9, <1>10, <1>11 DEF EngineInv

\* Taking a request off the worker's queue.
LEMMA TakeRequestDoes ==
    ASSUME EngineInv, TakeRequest
    PROVE  /\ Head(inbox) \in Requests /\ Head(inbox) \in ToSet(inbox)
           /\ inbox' \in Seq(Requests) /\ IsInjective(inbox')
           /\ ToSet(inbox') = ToSet(inbox) \ {Head(inbox)}
           /\ answer[Head(inbox)] = "pending" /\ HeldOf(Head(inbox)) = {}
           /\ Head(inbox) \notin struck
           /\ \A s \in Seqs : Of(s) = Head(inbox) => out[s] = 0
<1>1. inbox \in Seq(Requests) /\ inbox # <<>> /\ IsInjective(inbox)
    BY DEF EngineInv, TypeOK, Untouched, TakeRequest
<1>2. /\ Head(inbox) \in Requests /\ Head(inbox) \in ToSet(inbox)
      /\ Tail(inbox) \in Seq(Requests) /\ IsInjective(Tail(inbox))
      /\ ToSet(Tail(inbox)) = ToSet(inbox) \ {Head(inbox)}
    BY <1>1, MembersTail
<1> QED BY <1>2 DEF EngineInv, Untouched, TakeRequest

\* Resolved answers the requests it is given that are pending, and no other.
LEMMA ResolvedIs ==
    ASSUME TypeOK, NEW rs, NEW with \in {"ok", "error"}
    PROVE  /\ Resolved(rs, with) \in [Requests -> {"none", "pending", "ok", "error"}]
           /\ \A r \in Requests :
                /\ r \notin rs => Resolved(rs, with)[r] = answer[r]
                /\ answer[r] # "pending" => Resolved(rs, with)[r] = answer[r]
                /\ r \in rs /\ answer[r] = "pending" => Resolved(rs, with)[r] = with
BY DEF TypeOK, Resolved

LEMMA AnswerAtOnceKeeps == ASSUME EngineInv, AnswerAtOnce PROVE EngineInv'
<1> DEFINE r == Head(inbox)
<1>1. TakeRequest
    BY DEF AnswerAtOnce
<1>2. /\ r \in Requests /\ r \in ToSet(inbox)
      /\ inbox' \in Seq(Requests) /\ IsInjective(inbox')
      /\ ToSet(inbox') = ToSet(inbox) \ {r}
      /\ answer[r] = "pending" /\ HeldOf(r) = {} /\ r \notin struck
    BY <1>1, TakeRequestDoes
<1>3. PICK result \in {"ok", "error"} : answer' = Resolved({r}, result)
    BY DEF AnswerAtOnce
<1> HIDE DEF r
<1>4. /\ answer' \in [Requests -> {"none", "pending", "ok", "error"}]
      /\ \A q \in Requests \ {r} : answer'[q] = answer[q]
      /\ answer'[r] = result
    BY <1>2, <1>3, ResolvedIs DEF EngineInv
<1>5. UNCHANGED <<pc, batch, running, waiting, done, since, slot, out, left,
                  freeSlots, freePages, table, capacity, failures, struck, refreed>>
    BY <1>1 DEF AnswerAtOnce, TakeRequest, cache, history
<1>6. TypeOK'
    BY <1>2, <1>4, <1>5 DEF EngineInv, TypeOK
<1>7. PageCount' /\ Slotted' /\ Cache'
    BY <1>5, QuietCache
<1>8. Places' /\ Unfinished' /\ Done' = Done /\ \A q : HeldOf(q)' = HeldOf(q)
    BY <1>5, QuietQueues
<1>9. Loop'
    BY <1>5, <1>8 DEF EngineInv, Loop
<1>10. Untouched'
    <2>1. ToSet(inbox) \subseteq Requests BY MembersType DEF EngineInv, TypeOK
    <2> QED BY <1>2, <1>4, <1>5, <1>8, <2>1 DEF EngineInv, Untouched
<1>11. Counted'
    BY <1>5, <1>8 DEF EngineInv, Counted
<1>12. Counting' /\ Whole'
    BY <1>2, <1>4, <1>5, <1>8, RequestsAssumption DEF EngineInv, Counting, Whole
<1>13. Remembered'
    BY <1>2, <1>4, <1>5, <1>8 DEF EngineInv, Remembered
<1> QED BY <1>6, <1>7, <1>8, <1>9, <1>10, <1>11, <1>12, <1>13 DEF EngineInv

\* The sequences that a request gets.
SequencesOf(r) == [i \in 1..Regions[r] |-> <<r, i>>]

LEMMA SequencesOfIs ==
    ASSUME NEW r \in Requests
    PROVE  /\ SequencesOf(r) \in Seq(Seqs) /\ IsInjective(SequencesOf(r))
           /\ ToSet(SequencesOf(r)) = {<<r, i>> : i \in 1..Regions[r]}
           /\ \A s \in ToSet(SequencesOf(r)) : Of(s) = r
           /\ IsFiniteSet(ToSet(SequencesOf(r)))
           /\ Cardinality(ToSet(SequencesOf(r))) = Regions[r]
           /\ ToSet(SequencesOf(r)) # {}
<1>1. Regions[r] \in Nat \ {0}
    BY RequestsAssumption
<1>2. SequencesOf(r) \in [1..Regions[r] -> Seqs]
    BY <1>1, SeqsType DEF SequencesOf
<1>3. SequencesOf(r) \in Seq(Seqs)
    BY <1>1, <1>2, SeqDef
<1>4. IsInjective(SequencesOf(r))
    BY DEF SequencesOf, IsInjective
<1>5. ToSet(SequencesOf(r)) = {<<r, i>> : i \in 1..Regions[r]}
    BY DEF SequencesOf, ToSet
<1>6. 1 \in 1..Regions[r]
    BY <1>1
<1>7. ToSet(SequencesOf(r)) # {} /\ \A s \in ToSet(SequencesOf(r)) : Of(s) = r
    <2>1. <<r, 1>> \in ToSet(SequencesOf(r)) BY <1>5, <1>6
    <2>2. \A i : Of(<<r, i>>) = r BY DEF Of
    <2> QED BY <1>5, <2>1, <2>2
<1>8. SequencesOf(r) \in Bijection(1..Regions[r], ToSet(SequencesOf(r)))
    <2>1. SequencesOf(r) \in [1..Regions[r] -> ToSet(SequencesOf(r))]
        BY <1>2 DEF ToSet
    <2>2. DOMAIN SequencesOf(r) = 1..Regions[r]
        BY DEF SequencesOf
    <2> QED BY <1>4, <2>1, <2>2 DEF Bijection, Injection, Surjection, ToSet
<1>9. /\ IsFiniteSet(ToSet(SequencesOf(r)))
      /\ Cardinality(ToSet(SequencesOf(r))) = Regions[r]
    <2>1. IsFiniteSet(1..Regions[r]) /\ Cardinality(1..Regions[r]) = Regions[r]
        BY <1>1, FS_Interval
    <2>2. ExistsBijection(1..Regions[r], ToSet(SequencesOf(r)))
        BY <1>8 DEF ExistsBijection
    <2> QED BY <2>1, <2>2, FS_Bijection
<1> QED BY <1>3, <1>4, <1>5, <1>7, <1>9

LEMMA EnqueueKeeps == ASSUME EngineInv, Enqueue PROVE EngineInv'
<1> PICK r : r = Head(inbox)
    OBVIOUS
<1> DEFINE N == ToSet(SequencesOf(r))
<1>1. TakeRequest
    BY DEF Enqueue
<1>2. /\ r \in Requests /\ r \in ToSet(inbox)
      /\ inbox' \in Seq(Requests) /\ IsInjective(inbox')
      /\ ToSet(inbox') = ToSet(inbox) \ {r}
      /\ answer[r] = "pending" /\ HeldOf(r) = {} /\ r \notin struck
      /\ \A s \in Seqs : Of(s) = r => out[s] = 0
    BY <1>1, TakeRequestDoes
<1>3. /\ waiting' = waiting \o SequencesOf(r)
      /\ left' = [left EXCEPT ![r] = IF r \in Layout THEN Regions[r] ELSE 0]
      /\ UNCHANGED <<answer, pc, batch, running, done, since, slot, out,
                     freeSlots, freePages, table, capacity, failures, struck, refreed>>
    BY <1>1 DEF Enqueue, TakeRequest, SequencesOf, cache, history
<1> HIDE DEF N
<1>4. /\ SequencesOf(r) \in Seq(Seqs) /\ IsInjective(SequencesOf(r))
      /\ \A s \in N : Of(s) = r
      /\ IsFiniteSet(N) /\ Cardinality(N) = Regions[r] /\ N # {} /\ N \subseteq Seqs
      /\ Regions[r] \in Nat \ {0}
    BY <1>2, SequencesOfIs, MembersType, RequestsAssumption DEF N
<1>5. N \intersect Held = {}
    BY <1>2, <1>4 DEF HeldOf
<1>6. /\ waiting \in Seq(Seqs) /\ IsInjective(waiting)
      /\ ToSet(waiting) \intersect ToSet(SequencesOf(r)) = {}
    BY <1>5, QueueTypes DEF EngineInv, Places, Held, Waiting, N
<1>7. waiting' \in Seq(Seqs) /\ IsInjective(waiting')
    <2>1. waiting \o SequencesOf(r) \in Seq(Seqs) BY <1>4, <1>6, ConcatProperties
    <2>2. IsInjective(waiting \o SequencesOf(r)) BY <1>4, <1>6, InjectiveConcat
    <2> QED BY <1>3, <2>1, <2>2
<1>8. Waiting' = Waiting \union N
    <2>1. ToSet(waiting \o SequencesOf(r)) = ToSet(waiting) \union ToSet(SequencesOf(r))
        BY <1>4, <1>6, MembersConcat
    <2> QED BY <1>3, <2>1 DEF Waiting, N
<1>9. Batch' = Batch /\ Running' = Running /\ Done' = Done /\ AtSlot' = AtSlot
    BY <1>3 DEF Batch, Running, Done, AtSlot
<1>10. /\ Held' = Held \union N
       /\ \A q : q # r => HeldOf(q)' = HeldOf(q)
       /\ HeldOf(r)' = N
    <2>1. Held' = Held \union N BY <1>8, <1>9 DEF Held
    <2>2. \A s \in Held : Of(s) # r BY <1>2 DEF HeldOf
    <2> QED BY <1>4, <2>1, <2>2 DEF HeldOf
<1>11. TypeOK'
    BY <1>2, <1>3, <1>4, <1>7 DEF EngineInv, TypeOK
<1>12. Places'
    BY <1>3, <1>5, <1>7, <1>8, <1>9 DEF EngineInv, Places, Held, AtSlot
<1>13. Loop'
    BY <1>1, <1>3, <1>9 DEF EngineInv, Loop
<1>14. Untouched'
    <2>1. ToSet(inbox) \subseteq Requests BY MembersType DEF EngineInv, TypeOK
    <2> QED BY <1>2, <1>3, <1>10, <2>1 DEF EngineInv, Untouched
<1>15. Unfinished'
    <2>1. \A s \in N : out[s] < MaxNew
        BY <1>2, <1>4, SizesAssumption
    <2> QED BY <1>3, <1>8, <1>9, <2>1 DEF EngineInv, Unfinished
<1>16. PageCount' /\ Slotted' /\ Cache'
    BY <1>3, QuietCache
<1>17. Counted'
    <2> SUFFICES ASSUME NEW q \in Requests, left'[q] # 0
                 PROVE  left'[q] = Cardinality(HeldOf(q))'
        BY DEF Counted
    <2>1. CASE q = r
        <3>1. left'[r] = Regions[r] BY <1>2, <1>3, <2>1 DEF EngineInv, TypeOK
        <3> QED BY <1>4, <1>10, <2>1, <3>1
    <2>2. CASE q # r
        <3>1. left'[q] = left[q] /\ HeldOf(q)' = HeldOf(q)
            BY <1>3, <1>10, <2>2 DEF EngineInv, TypeOK
        <3> QED BY <3>1 DEF EngineInv, Counted
    <2> QED BY <2>1, <2>2
<1>18. Counting'
    <2>1. \A q \in Requests \ {r} : left'[q] = left[q] BY <1>3 DEF EngineInv, TypeOK
    <2>2. r \in Layout => left'[r] # 0 BY <1>2, <1>3, <1>4 DEF EngineInv, TypeOK
    <2> QED BY <1>3, <1>10, <2>1, <2>2, RequestsAssumption DEF EngineInv, Counting
<1>19. Remembered'
    BY <1>2, <1>3, <1>4, <1>10 DEF EngineInv, Remembered
<1>20. Whole'
    BY <1>2, <1>3, <1>10 DEF EngineInv, Whole
<1> QED BY <1>11, <1>12, <1>13, <1>14, <1>15, <1>16, <1>17, <1>18, <1>19, <1>20 DEF EngineInv

-----------------------------------------------------------------------------
(* The harvest.                                                            *)

LEMMA SeqsFinite == ASSUME TypeOK PROVE IsFiniteSet(Held)
<1>1. ASSUME NEW q \in Seq(Seqs) PROVE IsFiniteSet(ToSet(q))
    <2>1. q \in Surjection(1..Len(q), ToSet(q))
        BY LenProperties DEF ToSet, Surjection
    <2>2. IsFiniteSet(1..Len(q))
        BY LenProperties, FS_Interval
    <2> QED BY <2>1, <2>2, FS_Surjection
<1>2. IsFiniteSet(Batch) /\ IsFiniteSet(Running) /\ IsFiniteSet(Waiting) /\ IsFiniteSet(Done)
    BY <1>1, QueueTypes DEF Batch, Running, Waiting, Done
<1>3. IsFiniteSet(Batch \union Running) BY <1>2, FS_Union
<1>4. IsFiniteSet((Batch \union Running) \union Waiting) BY <1>2, <1>3, FS_Union
<1> QED BY <1>2, <1>4, FS_Union DEF Held, AtSlot

LEMMA HarvestKeeps == ASSUME EngineInv, Harvest PROVE EngineInv'
<1> PICK d : d = Head(done)
    OBVIOUS
<1> PICK r : r = Of(d)
    OBVIOUS
<1> PICK n : n = left[r]
    OBVIOUS
<1> DEFINE ends == r \in Layout => n = 1
<1>1. done \in Seq(Seqs) /\ done # <<>> /\ IsInjective(done)
    BY QueueTypes DEF EngineInv, Places, Harvest
<1>2. /\ d \in Done /\ d \in Seqs /\ Tail(done) \in Seq(Seqs)
      /\ ToSet(Tail(done)) = Done \ {d} /\ IsInjective(Tail(done))
    BY <1>1, MembersTail DEF Done
<1>3. /\ done' = Tail(done) /\ pc = "harvest"
      /\ UNCHANGED <<inbox, pc, batch, waiting, running, since, slot, out,
                     freeSlots, freePages, table, capacity, failures, struck, refreed>>
    BY DEF Harvest, cache, history
<1>4. /\ \/ ends /\ \E result \in {"ok", "error"} : answer' = Resolved({r}, result)
         \/ ~ends /\ answer' = answer
      /\ \/ (left[r] = 0 \/ ends) /\ left' = [left EXCEPT ![r] = 0]
         \/ ~(left[r] = 0 \/ ends) /\ left' = [left EXCEPT ![r] = left[r] - 1]
    <2>1. CASE r \in Layout /\ n = 1
        BY <2>1 DEF Harvest, Collected
    <2>2. CASE r \in Layout /\ n # 1
        BY <2>2 DEF Harvest, Collected
    <2>3. CASE r \notin Layout
        BY <2>3 DEF Harvest, Collected
    <2> QED BY <2>1, <2>2, <2>3
<1> HIDE DEF ends
<1>5. r \in Requests /\ Of(d) = r
    BY <1>2, SeqsType
<1>6. /\ Done' = Done \ {d}
      /\ Batch' = Batch /\ Running' = Running /\ Waiting' = Waiting /\ AtSlot' = AtSlot
    BY <1>2, <1>3 DEF Done, Batch, Running, Waiting, AtSlot
<1>7. /\ Held' = Held \ {d} /\ d \in Held
      /\ HeldOf(r)' = HeldOf(r) \ {d} /\ d \in HeldOf(r)
      /\ \A q : q # r => HeldOf(q)' = HeldOf(q)
    <2>1. Held' = Held \ {d} /\ d \in Held
        BY <1>2, <1>6 DEF EngineInv, Places, Held, AtSlot
    <2> QED BY <1>5, <2>1 DEF HeldOf
<1>8. /\ IsFiniteSet(HeldOf(r)) /\ Cardinality(HeldOf(r)) \in Nat \ {0}
      /\ IsFiniteSet(HeldOf(r)')
      /\ Cardinality(HeldOf(r)') = Cardinality(HeldOf(r)) - 1
      /\ Cardinality(HeldOf(r)) = 1 => HeldOf(r)' = {}
      /\ Cardinality(HeldOf(r)) # 1 => HeldOf(r)' # {}
    <2>1. IsFiniteSet(HeldOf(r))
        BY SeqsFinite, FS_Subset DEF EngineInv, HeldOf
    <2>2. Cardinality(HeldOf(r)) \in Nat /\ Cardinality(HeldOf(r)) # 0
        BY <1>7, <2>1, FS_CardinalityType, FS_EmptySet
    <2>3. /\ IsFiniteSet(HeldOf(r) \ {d})
          /\ Cardinality(HeldOf(r) \ {d}) = Cardinality(HeldOf(r)) - 1
        BY <1>7, <2>1, FS_RemoveElement
    <2>4. Cardinality(HeldOf(r) \ {d}) = 0 <=> HeldOf(r) \ {d} = {}
        BY <2>3, FS_EmptySet
    <2>5. Cardinality(HeldOf(r)') = Cardinality(HeldOf(r) \ {d})
        BY <1>7
    <2>6. IsFiniteSet(HeldOf(r)')
        BY <1>7, <2>3
    <2>7. /\ Cardinality(HeldOf(r)) = 1 => HeldOf(r)' = {}
          /\ Cardinality(HeldOf(r)) # 1 => HeldOf(r)' # {}
        BY <1>7, <2>2, <2>3, <2>4
    <2>8. Cardinality(HeldOf(r)') = Cardinality(HeldOf(r)) - 1
        BY <2>3, <2>5
    <2> QED BY <2>1, <2>2, <2>6, <2>7, <2>8
<1>9. /\ answer' \in [Requests -> {"none", "pending", "ok", "error"}]
      /\ \A q \in Requests : answer[q] # "pending" => answer'[q] = answer[q]
      /\ \A q \in Requests \ {r} : answer'[q] = answer[q]
      /\ \A q \in Requests : answer'[q] = "none" => answer[q] = "none"
      /\ ends => answer'[r] # "pending"
    <2>1. CASE ends
        <3>1. PICK result \in {"ok", "error"} : answer' = Resolved({r}, result)
            BY <1>4, <2>1
        <3> QED BY <1>5, <3>1, ResolvedIs DEF EngineInv
    <2>2. CASE ~ends
        BY <1>4, <2>2 DEF EngineInv, TypeOK
    <2> QED BY <2>1, <2>2
<1>10. /\ left' \in [Requests -> Nat] /\ \A q \in Requests \ {r} : left'[q] = left[q]
       /\ left'[r] = IF left[r] = 0 \/ ends THEN 0 ELSE left[r] - 1
       /\ left[r] \in Nat
    <2>1. left \in [Requests -> Nat] BY DEF EngineInv, TypeOK
    <2>2. CASE left[r] = 0 \/ ends
        <3>1. left' = [left EXCEPT ![r] = 0] BY <1>4, <2>2
        <3> QED BY <1>5, <2>1, <2>2, <3>1
    <2>3. CASE ~(left[r] = 0 \/ ends)
        <3>1. left' = [left EXCEPT ![r] = left[r] - 1] BY <1>4, <2>3
        <3>2. left[r] - 1 \in Nat BY <1>5, <2>1, <2>3
        <3> QED BY <1>5, <2>1, <2>3, <3>1, <3>2
    <2> QED BY <2>2, <2>3
<1>11. left[r] # 0 => left[r] = Cardinality(HeldOf(r))
    BY <1>5 DEF EngineInv, Counted
<1>12. TypeOK'
    BY <1>2, <1>3, <1>9, <1>10 DEF EngineInv, TypeOK
<1>13. Places'
    BY <1>2, <1>3, <1>6 DEF EngineInv, Places
<1>14. Loop'
    BY <1>3 DEF EngineInv, Loop
<1>15. Untouched'
    <2>1. \A q \in Requests : answer[q] = "none" \/ q \in ToSet(inbox) => q # r
        BY <1>7 DEF EngineInv, Untouched
    <2>2. ToSet(inbox) \subseteq Requests BY MembersType DEF EngineInv, TypeOK
    <2> QED BY <1>3, <1>7, <1>9, <2>1, <2>2 DEF EngineInv, Untouched
<1>16. Unfinished'
    BY <1>3, <1>6 DEF EngineInv, Unfinished
<1>17. PageCount' /\ Slotted' /\ Cache'
    BY <1>3, QuietCache
<1>18. Counted'
    <2> SUFFICES ASSUME NEW q \in Requests, left'[q] # 0
                 PROVE  left'[q] = Cardinality(HeldOf(q))'
        BY DEF Counted
    <2>1. CASE q = r
        BY <1>8, <1>10, <1>11, <2>1
    <2>2. CASE q # r
        <3>1. left'[q] = left[q] /\ HeldOf(q)' = HeldOf(q) BY <1>7, <1>10, <2>2
        <3> QED BY <3>1 DEF EngineInv, Counted
    <2> QED BY <2>1, <2>2
<1>19. Counting'
    <2> SUFFICES ASSUME NEW q \in Layout, answer'[q] = "pending", q \notin struck,
                        HeldOf(q)' # {}
                 PROVE  left'[q] # 0
        BY <1>3 DEF Counting
    <2>1. q \in Requests BY RequestsAssumption
    <2>2. answer[q] = "pending" BY <1>9, <2>1
    <2>3. HeldOf(q) # {} BY <1>7
    <2>4. left[q] # 0 BY <2>2, <2>3 DEF EngineInv, Counting
    <2>5. CASE q = r
        <3>1. ~ends BY <1>9, <2>5
        <3>2. left[r] # 1 BY <2>5, <3>1 DEF ends
        <3> QED BY <1>10, <2>4, <2>5, <3>1, <3>2
    <2>6. CASE q # r
        BY <1>10, <2>1, <2>4, <2>6
    <2> QED BY <2>5, <2>6
<1>20. Remembered'
    <2> SUFFICES ASSUME NEW q \in Requests, answer'[q] = "pending", q \notin struck
                 PROVE  q \in ToSet(inbox) \/ HeldOf(q)' # {}
        BY <1>3 DEF Remembered
    <2>1. answer[q] = "pending" BY <1>9
    <2>2. q \in ToSet(inbox) \/ HeldOf(q) # {}
        BY <1>3, <2>1 DEF EngineInv, Remembered
    <2>3. CASE q = r
        <3>1. ~ends BY <1>9, <2>3
        <3>2. r \in Layout /\ left[r] # 1 BY <3>1 DEF ends
        <3>3. left[r] # 0 BY <1>7, <2>1, <2>3, <3>2 DEF EngineInv, Counting
        <3> QED BY <1>8, <1>11, <2>3, <3>2, <3>3
    <2>4. CASE q # r
        BY <1>7, <2>2, <2>4
    <2> QED BY <2>3, <2>4
<1>21. Whole'
    <2> SUFFICES ASSUME NEW q \in Layout, answer'[q] = "ok" PROVE HeldOf(q)' = {}
        BY DEF Whole
    <2>1. q \in Requests BY RequestsAssumption
    <2>2. CASE answer[q] = "ok"
        BY <1>7, <2>2 DEF EngineInv, Whole
    <2>3. CASE answer[q] # "ok"
        <3>1. q = r /\ ends BY <1>4, <1>9, <2>1, <2>3
        <3>2. left[r] = 1 BY <3>1 DEF ends
        <3> QED BY <1>8, <1>11, <3>1, <3>2
    <2> QED BY <2>2, <2>3
<1> QED BY <1>12, <1>13, <1>14, <1>15, <1>16, <1>17, <1>18, <1>19, <1>20, <1>21 DEF EngineInv

-----------------------------------------------------------------------------
(* The steps of the engine.                                                *)

LEMMA TokensType == ASSUME TypeOK PROVE \A s \in Seqs : Tokens(s) \in Nat
BY SeqsType, SizesAssumption DEF TypeOK, Tokens

\* The oldest sequence that waits gets a slot that was free, and its pages.
LEMMA AdmitKeeps == ASSUME EngineInv, Admit PROVE EngineInv'
<1> PICK s : s = Head(waiting)
    OBVIOUS
<1> PICK b : b = Last(freeSlots)
    OBVIOUS
<1> PICK n : n = Tokens(s)
    OBVIOUS
<1>1. /\ waiting # <<>> /\ freeSlots # <<>> /\ pc = "admit"
      /\ waiting' = Tail(waiting) /\ freeSlots' = Front(freeSlots)
      /\ slot' = [slot EXCEPT ![s] = b] /\ Reserve(b, 0, n)
      /\ batch' = Append(batch, s)
      /\ UNCHANGED <<answer, inbox, pc, running, done, since, out, left, failures, struck,
                     refreed>>
    BY DEF Admit, MayAdmit, history
<1>2. /\ s \in Waiting /\ s \in Seqs /\ waiting' \in Seq(Seqs)
      /\ Waiting' = Waiting \ {s} /\ IsInjective(waiting')
    BY <1>1, QueueTypes, MembersTail DEF EngineInv, Places, Waiting
<1>3. /\ b \in ToSet(freeSlots) /\ b \in Slots /\ freeSlots' \in Seq(Slots)
      /\ IsInjective(freeSlots) => /\ ToSet(freeSlots') = ToSet(freeSlots) \ {b}
                                   /\ IsInjective(freeSlots')
    BY <1>1, MembersFront DEF EngineInv, TypeOK
<1>4. s \notin Batch /\ s \notin Running /\ s \notin Done
    BY <1>2 DEF EngineInv, Places
<1>5. /\ batch' \in Seq(Seqs) /\ Batch' = Batch \union {s} /\ IsInjective(batch')
    BY <1>1, <1>2, <1>4, QueueTypes, MembersAppend DEF EngineInv, Places, Batch
<1>6. Running' = Running /\ Done' = Done
    BY <1>1 DEF Running, Done
<1>7. AtSlot' = AtSlot \union {s} /\ Held' = Held
    BY <1>2, <1>5, <1>6 DEF AtSlot, Held
<1>8. n \in Nat
    BY <1>2, TokensType DEF EngineInv
<1>9. /\ freePages' \in 0..NPages
      /\ table' \in [Slots -> 0..NPages] /\ capacity' \in [Slots -> 0..NPages]
      /\ PageCount'
      /\ capacity'[b] >= n /\ capacity'[b] + table[b] = table'[b] + 0
      /\ \A c \in Slots \ {b} : capacity'[c] = capacity[c] /\ table'[c] = table[c]
    <2>1. 0 \in 0..capacity[b] BY <1>3, SizesAssumption DEF EngineInv, TypeOK
    <2> QED BY <1>1, <1>3, <1>8, <2>1, ReservePages DEF EngineInv
<1>10. /\ slot \in [Seqs -> Slots \union {NoSlot}]
       /\ slot' \in [Seqs -> Slots \union {NoSlot}] /\ slot'[s] = b
       /\ \A t \in Seqs \ {s} : slot'[t] = slot[t]
    BY <1>1, <1>2, <1>3 DEF EngineInv, TypeOK
<1>11. TypeOK'
    BY <1>1, <1>2, <1>3, <1>5, <1>9, <1>10 DEF EngineInv, TypeOK
<1>12. Places'
    BY <1>1, <1>2, <1>4, <1>5, <1>6 DEF EngineInv, Places
<1>13. Loop'
    BY <1>1, <1>6 DEF EngineInv, Loop
<1>14. Untouched' /\ Counted' /\ Counting' /\ Remembered' /\ Whole'
    BY <1>1, <1>7, MovesKeep
<1>15. Unfinished'
    BY <1>1, <1>2, <1>7 DEF EngineInv, Unfinished
<1>16. AtSlot \subseteq Seqs \ {s}
    BY <1>4, QueueTypes DEF EngineInv, AtSlot
<1>17. Slotted'
    BY <1>3, <1>7, <1>10, <1>16 DEF EngineInv, Slotted
<1>18. Cache'
    <2> SUFFICES ASSUME ~refreed PROVE Cache'
        BY <1>1 DEF Cache
    <2>1. /\ IsInjective(freeSlots)
          /\ \A t, u \in AtSlot : slot[t] = slot[u] => t = u
          /\ \A t \in AtSlot : slot[t] \notin ToSet(freeSlots)
          /\ \A c \in ToSet(freeSlots) : table[c] = 0
          /\ capacity = table
          /\ \A t \in Running : capacity[slot[t]] + 1 >= Tokens(t)
          /\ \A t \in Batch : capacity[slot[t]] >= Tokens(t)
        BY DEF EngineInv, Cache
    <2>2. \A t \in AtSlot : slot'[t] = slot[t] /\ slot[t] # b /\ slot[t] \in Slots
        BY <1>3, <1>10, <1>16, <2>1 DEF EngineInv, Slotted
    <2>3. IsInjective(freeSlots') /\ ToSet(freeSlots') = ToSet(freeSlots) \ {b}
        BY <1>3, <2>1
    <2>4. \A t, u \in AtSlot' : slot'[t] = slot'[u] => t = u
        BY <1>7, <1>10, <2>1, <2>2
    <2>5. \A t \in AtSlot' : slot'[t] \notin ToSet(freeSlots')
        BY <1>7, <1>10, <2>1, <2>2, <2>3
    <2>6. ToSet(freeSlots) \subseteq Slots
        BY MembersType DEF EngineInv, TypeOK
    <2>7. \A c \in ToSet(freeSlots') : table'[c] = 0
        BY <1>9, <2>1, <2>3, <2>6
    <2>8. capacity' = table'
        <3>1. \A c \in Slots \ {b} : capacity'[c] = table'[c] BY <1>9, <2>1
        <3>2. table[b] = 0 BY <1>3, <2>1
        <3>3. capacity'[b] = table'[b] BY <1>3, <1>9, <3>2
        <3> QED BY <1>9, <3>1, <3>3
    <2>9. \A t : Tokens(t)' = Tokens(t)
        BY <1>1 DEF Tokens
    <2>10. \A t \in Running' : (capacity[slot[t]] + 1 >= Tokens(t))'
        BY <1>6, <1>9, <2>1, <2>2, <2>9 DEF AtSlot
    <2>11. \A t \in Batch' : (capacity[slot[t]] >= Tokens(t))'
        <3>1. \A t \in Batch : t \in AtSlot BY DEF AtSlot
        <3>2. \A t \in Batch : (capacity[slot[t]] >= Tokens(t))'
            BY <1>9, <2>1, <2>2, <2>9, <3>1
        <3>3. capacity'[slot'[s]] >= Tokens(s)'
            BY <1>9, <1>10, <2>9
        <3> QED BY <1>5, <3>2, <3>3
    <2> QED BY <2>3, <2>4, <2>5, <2>7, <2>8, <2>10, <2>11 DEF Cache
<1> QED BY <1>9, <1>11, <1>12, <1>13, <1>14, <1>15, <1>17, <1>18 DEF EngineInv

\* The oldest sequence at work gets the page its next token needs.
LEMMA GrowKeeps == ASSUME EngineInv, Grow PROVE EngineInv'
<1> PICK s : s = Head(running)
    OBVIOUS
<1> PICK b : b = slot[s]
    OBVIOUS
<1> PICK has : has = capacity[b]
    OBVIOUS
<1> PICK n : n = Tokens(s)
    OBVIOUS
<1>1. /\ running # <<>> /\ pc = "reserve" /\ running' = Tail(running)
      /\ Reserve(b, has, n) /\ batch' = Append(batch, s)
      /\ UNCHANGED <<answer, inbox, pc, waiting, done, since, slot, out, freeSlots, left,
                     failures, struck, refreed>>
    BY DEF Grow, history
<1>2. /\ s \in Running /\ s \in Seqs /\ running' \in Seq(Seqs)
      /\ Running' = Running \ {s} /\ IsInjective(running')
    BY <1>1, QueueTypes, MembersTail DEF EngineInv, Places, Running
<1>3. s \notin Batch /\ s \notin Waiting /\ s \notin Done
    BY <1>2 DEF EngineInv, Places
<1>4. batch' \in Seq(Seqs) /\ Batch' = Batch \union {s} /\ IsInjective(batch')
    BY <1>1, <1>2, <1>3, QueueTypes, MembersAppend DEF EngineInv, Places, Batch
<1>5. Waiting' = Waiting /\ Done' = Done
    BY <1>1 DEF Waiting, Done
<1>6. AtSlot' = AtSlot /\ Held' = Held
    BY <1>2, <1>4, <1>5 DEF AtSlot, Held
<1>7. n \in Nat /\ b \in Slots /\ s \in AtSlot
    BY <1>2, TokensType DEF EngineInv, Slotted, AtSlot
<1>8. /\ freePages' \in 0..NPages
      /\ table' \in [Slots -> 0..NPages] /\ capacity' \in [Slots -> 0..NPages]
      /\ PageCount'
      /\ capacity'[b] >= n /\ capacity'[b] + table[b] = table'[b] + has
      /\ \A c \in Slots \ {b} : capacity'[c] = capacity[c] /\ table'[c] = table[c]
    <2>1. has \in 0..capacity[b] BY <1>7, SizesAssumption DEF EngineInv, TypeOK
    <2> QED BY <1>1, <1>7, <2>1, ReservePages DEF EngineInv
<1>9. TypeOK'
    BY <1>1, <1>2, <1>4, <1>8 DEF EngineInv, TypeOK
<1>10. Places'
    BY <1>1, <1>2, <1>3, <1>4, <1>5 DEF EngineInv, Places
<1>11. Loop'
    BY <1>1, <1>5 DEF EngineInv, Loop
<1>12. Untouched' /\ Counted' /\ Counting' /\ Remembered' /\ Whole'
    BY <1>1, <1>6, MovesKeep
<1>13. Unfinished' /\ Slotted'
    BY <1>1, <1>5, <1>6 DEF EngineInv, Unfinished, Slotted
<1>14. Cache'
    <2> SUFFICES ASSUME ~refreed PROVE Cache'
        BY <1>1 DEF Cache
    <2>1. /\ IsInjective(freeSlots)
          /\ \A t, u \in AtSlot : slot[t] = slot[u] => t = u
          /\ \A t \in AtSlot : slot[t] \notin ToSet(freeSlots)
          /\ \A c \in ToSet(freeSlots) : table[c] = 0
          /\ capacity = table
          /\ \A t \in Running : capacity[slot[t]] + 1 >= Tokens(t)
          /\ \A t \in Batch : capacity[slot[t]] >= Tokens(t)
        BY DEF EngineInv, Cache
    <2>2. \A t \in AtSlot \ {s} : slot[t] # b /\ slot[t] \in Slots
        BY <1>7, <2>1 DEF EngineInv, Slotted
    <2>3. ToSet(freeSlots) \subseteq Slots /\ b \notin ToSet(freeSlots)
        BY <1>7, <2>1, MembersType DEF EngineInv, TypeOK
    <2>4. \A c \in ToSet(freeSlots) : table'[c] = 0
        BY <1>8, <2>1, <2>3
    <2>5. capacity' = table'
        <3>1. \A c \in Slots \ {b} : capacity'[c] = table'[c] BY <1>8, <2>1
        <3>2. capacity'[b] = table'[b] BY <1>7, <1>8, <2>1 DEF EngineInv, TypeOK
        <3> QED BY <1>8, <3>1, <3>2
    <2>6. \A t : Tokens(t)' = Tokens(t)
        BY <1>1 DEF Tokens
    <2>7. \A t \in Running' : (capacity[slot[t]] + 1 >= Tokens(t))'
        BY <1>1, <1>2, <1>8, <2>1, <2>2, <2>6 DEF AtSlot
    <2>8. \A t \in Batch' : (capacity[slot[t]] >= Tokens(t))'
        <3>1. \A t \in Batch : t \in AtSlot \ {s} BY <1>3 DEF AtSlot
        <3> QED BY <1>1, <1>4, <1>8, <2>1, <2>2, <2>6, <3>1
    <2> QED BY <1>1, <1>6, <2>1, <2>4, <2>5, <2>7, <2>8 DEF Cache
<1> QED BY <1>8, <1>9, <1>10, <1>11, <1>12, <1>13, <1>14 DEF EngineInv

\* erase, of slots that are not free: those that stay at work are still alone
\* in theirs, and keep their pages.
LEMMA EraseExclusive ==
    ASSUME EngineInv, ~refreed, NEW q \in Seq(Slots), Erase(q), UNCHANGED slot,
           IsInjective(q), ToSet(q) \intersect ToSet(freeSlots) = {},
           NEW A \in SUBSET AtSlot, \A s \in A : slot[s] \notin ToSet(q)
    PROVE  /\ IsInjective(freeSlots')
           /\ \A s, t \in A : slot'[s] = slot'[t] => s = t
           /\ \A s \in A : slot'[s] \notin ToSet(freeSlots')
           /\ \A b \in ToSet(freeSlots') : table'[b] = 0
           /\ capacity' = table'
           /\ \A s \in A : capacity'[slot'[s]] = capacity[slot[s]]
<1>1. /\ IsInjective(freeSlots)
      /\ \A s, t \in AtSlot : slot[s] = slot[t] => s = t
      /\ \A s \in AtSlot : slot[s] \notin ToSet(freeSlots)
      /\ \A b \in ToSet(freeSlots) : table[b] = 0
      /\ capacity = table
    BY DEF EngineInv, Cache
<1>2. freeSlots \in Seq(Slots) /\ \A s \in A : slot[s] \in Slots
    BY DEF EngineInv, TypeOK, Slotted
<1>3. /\ freeSlots' = freeSlots \o q
      /\ \A b \in Slots : table'[b] = IF b \in ToSet(q) THEN 0 ELSE table[b]
      /\ \A b \in Slots : capacity'[b] = IF b \in ToSet(q) THEN 0 ELSE capacity[b]
      /\ capacity' = table'
    BY <1>1 DEF Erase
<1>4. IsInjective(freeSlots') /\ ToSet(freeSlots') = ToSet(freeSlots) \union ToSet(q)
    <2>1. ToSet(freeSlots) \intersect ToSet(q) = {} OBVIOUS
    <2>2. IsInjective(freeSlots \o q) BY <1>1, <1>2, <2>1, InjectiveConcat
    <2> QED BY <1>2, <1>3, <2>2, MembersConcat
<1>5. ToSet(freeSlots) \subseteq Slots /\ ToSet(q) \subseteq Slots
    BY <1>2, MembersType
<1>6. \A b \in ToSet(freeSlots') : table'[b] = 0
    BY <1>1, <1>3, <1>4, <1>5
<1> QED BY <1>1, <1>2, <1>3, <1>4, <1>6

\* The newest sequence at work loses its slot and is the first that waits.
LEMMA PreemptKeeps == ASSUME EngineInv, Preempt PROVE EngineInv'
<1> PICK x : x = Last(running)
    OBVIOUS
<1>1. /\ running # <<>> /\ pc = "reserve" /\ running' = Front(running)
      /\ waiting' = <<x>> \o waiting /\ Erase(<<slot[x]>>)
      /\ UNCHANGED <<answer, inbox, pc, batch, done, since, slot, out, left,
                     failures, struck, refreed>>
    BY DEF Preempt, Requeued, history
<1>2. /\ x \in Running /\ x \in Seqs /\ running' \in Seq(Seqs)
      /\ Running' = Running \ {x} /\ IsInjective(running')
    BY <1>1, QueueTypes, MembersFront DEF EngineInv, Places, Running
<1>3. x \notin Batch /\ x \notin Waiting /\ x \notin Done
    BY <1>2 DEF EngineInv, Places
<1>4. waiting' \in Seq(Seqs) /\ Waiting' = Waiting \union {x} /\ IsInjective(waiting')
    <2> PICK first : first = <<x>>
        OBVIOUS
    <2>1. first \in Seq(Seqs) /\ waiting \in Seq(Seqs) BY <1>2, QueueTypes DEF EngineInv
    <2>2. ToSet(first) = {x} /\ IsInjective(first) BY FewMembers
    <2>3. IsInjective(first \o waiting)
        BY <1>3, <2>1, <2>2, InjectiveConcat DEF EngineInv, Places, Waiting
    <2>4. ToSet(first \o waiting) = ToSet(first) \union ToSet(waiting)
        BY <2>1, MembersConcat
    <2>5. first \o waiting \in Seq(Seqs) BY <2>1, ConcatProperties
    <2>6. waiting' = first \o waiting BY <1>1
    <2> QED BY <2>2, <2>3, <2>4, <2>5, <2>6 DEF Waiting
<1>5. Batch' = Batch /\ Done' = Done
    BY <1>1 DEF Batch, Done
<1>6. AtSlot' = AtSlot \ {x} /\ Held' = Held
    BY <1>2, <1>3, <1>4, <1>5 DEF AtSlot, Held
<1>7. slot[x] \in Slots /\ x \in AtSlot
    BY <1>2 DEF EngineInv, Slotted, AtSlot
<1>8. /\ <<slot[x]>> \in Seq(Slots) /\ ToSet(<<slot[x]>>) = {slot[x]}
      /\ IsInjective(<<slot[x]>>)
    <2>1. ToSet(<<slot[x]>>) = {slot[x]} /\ IsInjective(<<slot[x]>>) BY FewMembers
    <2> QED BY <1>7, <2>1
<1>9. /\ freeSlots' \in Seq(Slots) /\ freePages' \in 0..NPages
      /\ table' \in [Slots -> 0..NPages] /\ capacity' \in [Slots -> 0..NPages]
      /\ PageCount'
    BY <1>1, <1>8, ErasePages DEF EngineInv
<1>10. TypeOK'
    BY <1>1, <1>2, <1>4, <1>9 DEF EngineInv, TypeOK
<1>11. Places'
    BY <1>1, <1>2, <1>3, <1>4, <1>5 DEF EngineInv, Places
<1>12. Loop'
    BY <1>1, <1>5 DEF EngineInv, Loop
<1>13. Untouched' /\ Counted' /\ Counting' /\ Remembered' /\ Whole'
    BY <1>1, <1>6, MovesKeep
<1>14. Unfinished' /\ Slotted'
    BY <1>1, <1>4, <1>6, <1>7 DEF EngineInv, Unfinished, Slotted
<1>15. Cache'
    <2> SUFFICES ASSUME ~refreed PROVE Cache'
        BY <1>1 DEF Cache
    <2>1. /\ slot[x] \notin ToSet(freeSlots)
          /\ \A s \in AtSlot \ {x} : slot[s] # slot[x]
          /\ \A s \in Running : capacity[slot[s]] + 1 >= Tokens(s)
          /\ \A s \in Batch : capacity[slot[s]] >= Tokens(s)
        BY <1>7 DEF EngineInv, Cache
    <2> DEFINE A == AtSlot \ {x}
    <2>2. /\ A \in SUBSET AtSlot /\ \A s \in A : slot[s] \notin ToSet(<<slot[x]>>)
          /\ ToSet(<<slot[x]>>) \intersect ToSet(freeSlots) = {}
        BY <1>8, <2>1
    <2> HIDE DEF A
    <2>3. /\ IsInjective(freeSlots')
          /\ \A s, t \in A : slot'[s] = slot'[t] => s = t
          /\ \A s \in A : slot'[s] \notin ToSet(freeSlots')
          /\ \A b \in ToSet(freeSlots') : table'[b] = 0
          /\ capacity' = table'
          /\ \A s \in A : capacity'[slot'[s]] = capacity[slot[s]]
        BY <1>1, <1>8, <2>2, EraseExclusive
    <2>4. \A s : Tokens(s)' = Tokens(s)
        BY <1>1 DEF Tokens
    <2>5. Running' \subseteq A /\ Batch' \subseteq A /\ Running' \subseteq Running
        BY <1>2, <1>3, <1>5 DEF A, AtSlot
    <2>6. \A s \in Running' : (capacity[slot[s]] + 1 >= Tokens(s))'
        BY <2>1, <2>3, <2>4, <2>5
    <2>7. \A s \in Batch' : (capacity[slot[s]] >= Tokens(s))'
        BY <1>5, <2>1, <2>3, <2>4, <2>5
    <2> QED BY <1>6, <2>3, <2>6, <2>7 DEF Cache, A
<1> QED BY <1>9, <1>10, <1>11, <1>12, <1>13, <1>14, <1>15 DEF EngineInv

\* The model has run: each of the batch has a token more, and goes on or is done.
LEMMA ForwardKeeps ==
    ASSUME EngineInv, NEW stop \in SUBSET Batch, Forward(stop)
    PROVE  EngineInv'
<1> PICK K : K = Kept(batch, stop)
    OBVIOUS
<1> PICK L : L = Kept(batch, Batch \ stop)
    OBVIOUS
<1>1. /\ pc \in {"admit", "reserve"} /\ pc' = "harvest" /\ batch' = <<>>
      /\ \A s \in Batch : MustStop(s) => s \in stop
      /\ out' = [s \in Seqs |-> IF s \in Batch THEN out[s] + 1 ELSE out[s]]
      /\ done' = done \o K /\ Erase(SlotsOf(K))
      /\ running' = running \o L
      /\ since' = IF pc = "admit" THEN 0 ELSE Min({since + 1, MaxDecode})
      /\ UNCHANGED <<answer, inbox, waiting, slot, left, failures, struck, refreed>>
    BY DEF Forward, Ready, Batch, history
<1>2. /\ batch \in Seq(Seqs) /\ IsInjective(batch) /\ Batch \subseteq Seqs
      /\ running \in Seq(Seqs) /\ IsInjective(running)
      /\ done \in Seq(Seqs) /\ IsInjective(done)
    BY QueueTypes DEF EngineInv, Places
<1>3. /\ K \in Seq(Seqs) /\ ToSet(K) = stop /\ IsInjective(K)
      /\ L \in Seq(Seqs) /\ ToSet(L) = Batch \ stop /\ IsInjective(L)
    <2>1. K \in Seq(Seqs) /\ ToSet(K) = ToSet(batch) \intersect stop /\ IsInjective(K)
        BY <1>2, KeptMembers
    <2>2. /\ L \in Seq(Seqs) /\ ToSet(L) = ToSet(batch) \intersect (Batch \ stop)
          /\ IsInjective(L)
        BY <1>2, KeptMembers
    <2> QED BY <2>1, <2>2 DEF Batch
<1>4. /\ done' \in Seq(Seqs) /\ Done' = Done \union stop /\ IsInjective(done')
    <2>1. ToSet(done) \intersect ToSet(K) = {} BY <1>3 DEF EngineInv, Places, Done
    <2>2. IsInjective(done \o K) BY <1>2, <1>3, <2>1, InjectiveConcat
    <2>3. ToSet(done \o K) = ToSet(done) \union ToSet(K) BY <1>2, <1>3, MembersConcat
    <2> QED BY <1>1, <1>2, <1>3, <2>2, <2>3, ConcatProperties DEF Done
<1>5. /\ running' \in Seq(Seqs) /\ Running' = Running \union (Batch \ stop)
      /\ IsInjective(running')
    <2>1. ToSet(running) \intersect ToSet(L) = {} BY <1>3 DEF EngineInv, Places, Running
    <2>2. IsInjective(running \o L) BY <1>2, <1>3, <2>1, InjectiveConcat
    <2>3. ToSet(running \o L) = ToSet(running) \union ToSet(L)
        BY <1>2, <1>3, MembersConcat
    <2> QED BY <1>1, <1>2, <1>3, <2>2, <2>3, ConcatProperties DEF Running
<1>6. Batch' = {} /\ Waiting' = Waiting /\ IsInjective(batch') /\ batch' \in Seq(Seqs)
    BY <1>1, FewMembers DEF Batch, Waiting
<1>7. AtSlot' = AtSlot \ stop /\ Held' = Held
    BY <1>4, <1>5, <1>6 DEF EngineInv, Places, AtSlot, Held
<1>8. \A s \in ToSet(K) : slot[s] \in Slots
    BY <1>3 DEF EngineInv, Slotted, AtSlot
<1>9. SlotsOf(K) \in Seq(Slots) /\ ToSet(SlotsOf(K)) = {slot[s] : s \in stop}
    BY <1>3, <1>8, SlotsOfMembers
<1>10. /\ freeSlots' \in Seq(Slots) /\ freePages' \in 0..NPages
       /\ table' \in [Slots -> 0..NPages] /\ capacity' \in [Slots -> 0..NPages]
       /\ PageCount'
    BY <1>1, <1>9, ErasePages DEF EngineInv
<1>11. /\ out' \in [Seqs -> 0..MaxNew]
       /\ \A s \in Batch : out'[s] = out[s] + 1
       /\ \A s \in Seqs \ Batch : out'[s] = out[s]
       /\ \A s \in Batch \ stop : out'[s] < MaxNew
    <2>1. \A s \in Batch : out[s] < MaxNew BY DEF EngineInv, Unfinished, AtSlot
    <2>2. \A s \in Batch \ stop : out[s] + 1 # MaxNew BY <1>1 DEF MustStop
    <2>3. \A s \in Seqs : out[s] \in 0..MaxNew BY DEF EngineInv, TypeOK
    <2>4. MaxNew \in Nat BY SizesAssumption
    <2>5. /\ \A s \in Batch : out'[s] = out[s] + 1 /\ out'[s] \in 0..MaxNew
          /\ \A s \in Seqs \ Batch : out'[s] = out[s] /\ out'[s] \in 0..MaxNew
        BY <1>1, <1>2, <2>1, <2>3, <2>4
    <2>6. out' \in [Seqs -> 0..MaxNew] BY <1>1, <2>5
    <2>7. \A s \in Batch \ stop : out'[s] < MaxNew
        BY <1>2, <2>1, <2>2, <2>3, <2>4, <2>5
    <2> QED BY <2>5, <2>6, <2>7
<1>12. since' \in 0..MaxDecode
    <2>1. since \in 0..MaxDecode /\ MaxDecode \in Nat
        BY SizesAssumption DEF EngineInv, TypeOK
    <2>2. Min({since + 1, MaxDecode}) \in 0..MaxDecode
        <3>1. \E m \in {since + 1, MaxDecode} : \A k \in {since + 1, MaxDecode} : m <= k
            BY <2>1
        <3>2. /\ Min({since + 1, MaxDecode}) \in {since + 1, MaxDecode}
              /\ \A k \in {since + 1, MaxDecode} : Min({since + 1, MaxDecode}) <= k
            BY <3>1 DEF Min
        <3> QED BY <2>1, <3>2
    <2> QED BY <1>1, <2>1, <2>2
<1>13. TypeOK'
    BY <1>1, <1>4, <1>5, <1>6, <1>10, <1>11, <1>12 DEF EngineInv, TypeOK
<1>14. Places'
    BY <1>1, <1>4, <1>5, <1>6 DEF EngineInv, Places
<1>15. Loop'
    BY <1>1 DEF Loop
<1>16. Untouched' /\ Counted' /\ Counting' /\ Remembered' /\ Whole'
    <2>1. Batch \subseteq Held BY DEF Held, AtSlot
    <2> QED BY <1>1, <1>7, <1>11, <2>1, MovesKeep
<1>17. Unfinished'
    <2>1. \A s \in Running \union Waiting : out'[s] = out[s] /\ out[s] < MaxNew
        BY <1>11, QueueTypes DEF EngineInv, Places, Unfinished, AtSlot
    <2> QED BY <1>5, <1>6, <1>11, <2>1 DEF Unfinished, AtSlot
<1>18. Slotted'
    BY <1>1, <1>7 DEF EngineInv, Slotted
<1>19. Cache'
    <2> SUFFICES ASSUME ~refreed PROVE Cache'
        BY <1>1 DEF Cache
    <2>1. /\ \A s, t \in AtSlot : slot[s] = slot[t] => s = t
          /\ \A s \in AtSlot : slot[s] \notin ToSet(freeSlots)
          /\ \A s \in Running : capacity[slot[s]] + 1 >= Tokens(s)
          /\ \A s \in Batch : capacity[slot[s]] >= Tokens(s)
        BY DEF EngineInv, Cache
    <2>2. stop \subseteq AtSlot BY DEF AtSlot
    <2>3. IsInjective(SlotsOf(K))
        <3>1. \A s, t \in ToSet(K) : slot[s] = slot[t] => s = t BY <1>3, <2>1, <2>2
        <3> QED BY <1>3, <1>8, <3>1, SlotsOfMembers
    <2> DEFINE A == AtSlot \ stop
    <2>4. /\ A \in SUBSET AtSlot /\ \A s \in A : slot[s] \notin ToSet(SlotsOf(K))
          /\ ToSet(SlotsOf(K)) \intersect ToSet(freeSlots) = {}
        BY <1>9, <2>1, <2>2
    <2> HIDE DEF A
    <2>5. /\ IsInjective(freeSlots')
          /\ \A s, t \in A : slot'[s] = slot'[t] => s = t
          /\ \A s \in A : slot'[s] \notin ToSet(freeSlots')
          /\ \A b \in ToSet(freeSlots') : table'[b] = 0
          /\ capacity' = table'
          /\ \A s \in A : capacity'[slot'[s]] = capacity[slot[s]]
        BY <1>1, <1>9, <2>3, <2>4, EraseExclusive
    <2>6. /\ \A s \in Running : Tokens(s)' = Tokens(s) /\ s \in A
          /\ \A s \in Batch \ stop : Tokens(s)' = Tokens(s) + 1 /\ s \in A
        <3>1. \A s \in Running : s \in Seqs \ Batch /\ s \in A
            BY QueueTypes DEF EngineInv, Places, AtSlot, A
        <3>2. \A s \in Batch \ stop : s \in A
            BY DEF AtSlot, A
        <3>3. \A s \in Seqs : out[s] \in Nat /\ Prompt[Of(s)] \in Nat
            BY SeqsType, SizesAssumption DEF EngineInv, TypeOK
        <3>4. \A s : Tokens(s) = Prompt[Of(s)] + out[s] /\ Tokens(s)' = Prompt[Of(s)] + out'[s]
            BY DEF Tokens
        <3>5. \A s \in Running : Tokens(s)' = Tokens(s)
            BY <1>11, <3>1, <3>4
        <3>6. \A s \in Batch : Tokens(s)' = Tokens(s) + 1
            BY <1>2, <1>11, <3>3, <3>4
        <3> QED BY <3>1, <3>2, <3>5, <3>6
    <2>7. \A s \in Running' : (capacity[slot[s]] + 1 >= Tokens(s))'
        <3>1. \A s \in Running : (capacity[slot[s]] + 1 >= Tokens(s))'
            BY <2>1, <2>5, <2>6
        <3>2. \A s \in Batch \ stop : (capacity[slot[s]] + 1 >= Tokens(s))'
            <4> SUFFICES ASSUME NEW s \in Batch \ stop
                         PROVE  (capacity[slot[s]] + 1 >= Tokens(s))'
                OBVIOUS
            <4>1. capacity[slot[s]] \in Nat
                BY SizesAssumption DEF EngineInv, TypeOK, Slotted, AtSlot
            <4>2. Tokens(s) \in Nat BY <1>2, TokensType DEF EngineInv
            <4> QED BY <2>1, <2>5, <2>6, <4>1, <4>2
        <3> QED BY <1>5, <3>1, <3>2
    <2> QED BY <1>6, <1>7, <2>5, <2>7 DEF Cache, A
<1> QED BY <1>10, <1>13, <1>14, <1>15, <1>16, <1>17, <1>18, <1>19 DEF EngineInv

-----------------------------------------------------------------------------
(* Steps that raise.                                                       *)

\* _fail_all_pending, from a step over the batch of which `over` was done.
LEMMA FailStepKeeps ==
    ASSUME EngineInv, pc \in {"admit", "reserve"}, NEW over \in Seq(Seqs),
           IsInjective(over), ToSet(over) \subseteq Batch, FailStep(over)
    PROVE  EngineInv'
<1> PICK K : K = Kept(waiting \o running, {s \in Seqs : slot[s] # NoSlot})
    OBVIOUS
<1> PICK q : q = SlotsOf(over) \o SlotsOf(K)
    OBVIOUS
<1>1. /\ failures < MaxFailures /\ failures' = failures + 1
      /\ Erase(q) /\ left' = [r \in Requests |-> 0]
      /\ done' = done \o over /\ waiting' = <<>> /\ running' = <<>> /\ batch' = <<>>
      /\ struck' = struck \union {Of(s) : s \in Batch}
      /\ refreed' = (refreed \/ \E s \in Waiting : slot[s] # NoSlot)
      /\ pc' = "drain" /\ UNCHANGED <<inbox, since, slot, out>>
    BY DEF FailStep, InFlight, Batch, Waiting
<1>2. /\ batch \in Seq(Seqs) /\ Batch \subseteq Seqs /\ Running \subseteq Seqs
      /\ Waiting \subseteq Seqs /\ Done \subseteq Seqs
      /\ running \in Seq(Seqs) /\ IsInjective(running)
      /\ waiting \in Seq(Seqs) /\ IsInjective(waiting)
      /\ done \in Seq(Seqs) /\ IsInjective(done)
    BY QueueTypes DEF EngineInv, Places
<1>3. /\ waiting \o running \in Seq(Seqs) /\ IsInjective(waiting \o running)
      /\ ToSet(waiting \o running) = Waiting \union Running
    <2>1. ToSet(waiting) \intersect ToSet(running) = {}
        BY DEF EngineInv, Places, Waiting, Running
    <2>2. IsInjective(waiting \o running) BY <1>2, <2>1, InjectiveConcat
    <2>3. waiting \o running \in Seq(Seqs) BY <1>2, ConcatProperties
    <2> QED BY <1>2, <2>2, <2>3, MembersConcat DEF Waiting, Running
<1>4. answer' = Resolved({Of(s) : s \in Waiting \union Running}, "error")
    BY <1>3 DEF FailStep, InFlight
<1>5. /\ K \in Seq(Seqs) /\ IsInjective(K)
      /\ ToSet(K) = (Waiting \union Running) \intersect {s \in Seqs : slot[s] # NoSlot}
    BY <1>3, KeptMembers
<1>6. /\ \A s \in ToSet(over) : slot[s] \in Slots
      /\ \A s \in ToSet(K) : slot[s] \in Slots
    BY <1>5 DEF EngineInv, Slotted, AtSlot, TypeOK
<1>7. /\ SlotsOf(over) \in Seq(Slots) /\ SlotsOf(K) \in Seq(Slots)
      /\ ToSet(SlotsOf(over)) = {slot[s] : s \in ToSet(over)}
      /\ ToSet(SlotsOf(K)) = {slot[s] : s \in ToSet(K)}
    BY <1>5, <1>6, SlotsOfMembers
<1>8. q \in Seq(Slots) /\ ToSet(q) = ToSet(SlotsOf(over)) \union ToSet(SlotsOf(K))
    BY <1>7, ConcatProperties, MembersConcat
<1>9. /\ freeSlots' \in Seq(Slots) /\ freePages' \in 0..NPages
      /\ table' \in [Slots -> 0..NPages] /\ capacity' \in [Slots -> 0..NPages]
      /\ PageCount'
    BY <1>1, <1>8, ErasePages DEF EngineInv
<1>10. /\ done' \in Seq(Seqs) /\ Done' = Done \union ToSet(over) /\ IsInjective(done')
    <2>1. ToSet(done) \intersect ToSet(over) = {} BY DEF EngineInv, Places, Done
    <2>2. IsInjective(done \o over) BY <1>2, <2>1, InjectiveConcat
    <2>3. ToSet(done \o over) = ToSet(done) \union ToSet(over) BY <1>2, MembersConcat
    <2>4. done \o over \in Seq(Seqs) BY <1>2, ConcatProperties
    <2> QED BY <1>1, <2>2, <2>3, <2>4 DEF Done
<1>11. /\ Batch' = {} /\ Running' = {} /\ Waiting' = {}
       /\ IsInjective(batch') /\ IsInjective(running') /\ IsInjective(waiting')
    BY <1>1, FewMembers DEF Batch, Running, Waiting
<1>12. AtSlot' = {} /\ Held' = Done'
    BY <1>11 DEF AtSlot, Held
<1>13. \A s \in Done' : Of(s) \in struck'
    BY <1>1, <1>10 DEF EngineInv, Loop
<1>14. /\ answer' \in [Requests -> {"none", "pending", "ok", "error"}]
       /\ \A r \in Requests :
            /\ answer[r] # "pending" => answer'[r] = answer[r]
            /\ r \notin {Of(s) : s \in Waiting \union Running} => answer'[r] = answer[r]
            /\ r \in {Of(s) : s \in Waiting \union Running} => answer'[r] # "pending"
            /\ answer'[r] \in {"none", "ok"} => answer[r] = answer'[r]
    <2> DEFINE failed == {Of(s) : s \in Waiting \union Running}
    <2> HIDE DEF failed
    <2>1. answer' = Resolved(failed, "error") BY <1>4 DEF failed
    <2>2. /\ answer' \in [Requests -> {"none", "pending", "ok", "error"}]
          /\ \A r \in Requests :
               /\ r \notin failed => answer'[r] = answer[r]
               /\ answer[r] # "pending" => answer'[r] = answer[r]
               /\ r \in failed /\ answer[r] = "pending" => answer'[r] = "error"
        BY <2>1, ResolvedIs DEF EngineInv
    <2> QED BY <2>2 DEF failed
<1>15. TypeOK'
    <2>1. \A s \in Batch : Of(s) \in Requests BY <1>2, SeqsType
    <2>2. failures' \in 0..MaxFailures
        BY <1>1, SizesAssumption DEF EngineInv, TypeOK
    <2>3. struck' \subseteq Requests /\ refreed' \in BOOLEAN
        BY <1>1, <2>1 DEF EngineInv, TypeOK
    <2>4. <<>> \in Seq(Seqs)
        OBVIOUS
    <2>5. left' \in [Requests -> Nat]
        BY <1>1
    <2> QED BY <1>1, <1>9, <1>10, <1>14, <2>2, <2>3, <2>4, <2>5 DEF EngineInv, TypeOK
<1>16. Places'
    BY <1>10, <1>11 DEF Places
<1>17. Loop'
    BY <1>1, <1>13 DEF Loop
<1>18. Held' \subseteq Held
    BY <1>10, <1>12 DEF Held, AtSlot
<1>19. Untouched'
    <2>1. ToSet(inbox) \subseteq Requests BY MembersType DEF EngineInv, TypeOK
    <2>2. \A r : HeldOf(r)' \subseteq HeldOf(r) BY <1>18 DEF HeldOf
    <2>3. \A r \in Requests : HeldOf(r) = {} =>
                r \notin {Of(s) : s \in Waiting \union Running \union Batch}
        BY DEF HeldOf, Held, AtSlot
    <2>4. \A r \in Requests : answer'[r] = "none" \/ r \in ToSet(inbox) =>
                /\ answer[r] = "none" \/ r \in ToSet(inbox)
                /\ HeldOf(r) = {} /\ r \notin struck
                /\ \A s \in Seqs : Of(s) = r => out[s] = 0
        BY <1>14 DEF EngineInv, Untouched
    <2>5. \A r \in Requests : answer'[r] = "none" \/ r \in ToSet(inbox) =>
                r \notin struck' /\ answer'[r] = answer[r]
        BY <1>1, <1>14, <2>3, <2>4
    <2> QED BY <1>1, <2>1, <2>2, <2>4, <2>5 DEF EngineInv, Untouched
<1>20. Unfinished' /\ Slotted'
    BY <1>11, <1>12 DEF Unfinished, Slotted
<1>21. Cache'
    <2> SUFFICES ASSUME ~refreed, \A s \in Waiting : slot[s] = NoSlot PROVE Cache'
        BY <1>1 DEF Cache
    <2>1. /\ \A s, t \in AtSlot : slot[s] = slot[t] => s = t
          /\ \A s \in AtSlot : slot[s] \notin ToSet(freeSlots)
        BY DEF EngineInv, Cache
    <2>2. ToSet(K) \subseteq Running
        BY <1>5
    <2>3. IsInjective(SlotsOf(over))
        <3>1. \A s, t \in ToSet(over) : slot[s] = slot[t] => s = t BY <2>1 DEF AtSlot
        <3> QED BY <1>6, <3>1, SlotsOfMembers
    <2>4. IsInjective(SlotsOf(K))
        <3>1. \A s, t \in ToSet(K) : slot[s] = slot[t] => s = t BY <2>1, <2>2 DEF AtSlot
        <3> QED BY <1>5, <1>6, <3>1, SlotsOfMembers
    <2>5. ToSet(SlotsOf(over)) \intersect ToSet(SlotsOf(K)) = {}
        <3>1. \A s \in ToSet(over), t \in ToSet(K) : slot[s] # slot[t]
            BY <2>1, <2>2 DEF AtSlot, EngineInv, Places
        <3> QED BY <1>7, <3>1
    <2>6. IsInjective(q)
        BY <1>7, <2>3, <2>4, <2>5, InjectiveConcat
    <2>7. ToSet(q) \intersect ToSet(freeSlots) = {}
        BY <1>7, <1>8, <2>1, <2>2 DEF AtSlot
    <2>8. {} \in SUBSET AtSlot
        OBVIOUS
    <2>9. /\ IsInjective(freeSlots') /\ capacity' = table'
          /\ \A b \in ToSet(freeSlots') : table'[b] = 0
        BY <1>1, <1>8, <2>6, <2>7, <2>8, EraseExclusive
    <2> QED BY <1>11, <1>12, <2>9 DEF Cache
<1>22. Counted'
    BY <1>1 DEF Counted
<1>23. Counting'
    BY <1>12, <1>13 DEF Counting, HeldOf
<1>24. Remembered'
    <2> SUFFICES ASSUME NEW r \in Requests, answer'[r] = "pending", r \notin struck'
                 PROVE  r \in ToSet(inbox)
        BY <1>1 DEF Remembered
    <2>1. answer[r] = "pending" /\ r \notin {Of(s) : s \in Waiting \union Running}
        BY <1>14
    <2>2. r \notin struck /\ r \notin {Of(s) : s \in Batch}
        BY <1>1
    <2>3. r \notin {Of(s) : s \in Done}
        BY <2>2 DEF EngineInv, Loop
    <2>4. HeldOf(r) = {}
        BY <2>1, <2>2, <2>3 DEF HeldOf, Held, AtSlot
    <2> QED BY <2>1, <2>2, <2>4 DEF EngineInv, Remembered
<1>25. Whole'
    BY <1>14, <1>18, RequestsAssumption DEF EngineInv, Whole, HeldOf
<1> QED BY <1>9, <1>15, <1>16, <1>17, <1>19, <1>20, <1>21, <1>22, <1>23, <1>24, <1>25
        DEF EngineInv

LEMMA RaiseKeeps == ASSUME EngineInv, Raise PROVE EngineInv'
<1>1. CASE TokenizeRaises
    <2>1. pc \in {"admit", "reserve"} /\ FailStep(<<>>)
        BY <1>1 DEF TokenizeRaises
    <2>2. <<>> \in Seq(Seqs) OBVIOUS
    <2> QED BY <2>1, <2>2, FewMembers, FailStepKeeps
<1>2. CASE ForwardRaises
    <2>1. pc \in {"admit", "reserve"} /\ FailStep(<<>>)
        BY <1>2 DEF ForwardRaises, Ready
    <2>2. <<>> \in Seq(Seqs) OBVIOUS
    <2> QED BY <2>1, <2>2, FewMembers, FailStepKeeps
<1>3. CASE Dies
    BY <1>3, DiesKeeps
<1>4. ASSUME NEW i \in DOMAIN batch, NEW stop \in SUBSET Batch, FinalizeRaises(i, stop)
      PROVE  EngineInv'
    <2>1. pc \in {"admit", "reserve"} /\ FailStep(Kept(batch, stop))
        BY <1>4 DEF FinalizeRaises, Ready
    <2>2. batch \in Seq(Seqs) /\ IsInjective(batch)
        BY QueueTypes DEF EngineInv, Places
    <2>3. /\ Kept(batch, stop) \in Seq(Seqs) /\ IsInjective(Kept(batch, stop))
          /\ ToSet(Kept(batch, stop)) = ToSet(batch) \intersect stop
        BY <2>2, KeptMembers
    <2>4. ToSet(Kept(batch, stop)) \subseteq Batch
        BY <2>3 DEF Batch
    <2> QED BY <2>1, <2>3, <2>4, FailStepKeeps
<1> QED BY <1>1, <1>2, <1>3, <1>4 DEF Raise, Batch

-----------------------------------------------------------------------------
(* Every reachable state.                                                  *)

LEMMA EngineInit == ASSUME Init PROVE EngineInv
<1>1. batch = <<>> /\ running = <<>> /\ waiting = <<>> /\ done = <<>> /\ inbox = <<>>
    BY DEF Init
<1>2. /\ Batch = {} /\ Running = {} /\ Waiting = {} /\ Done = {} /\ ToSet(inbox) = {}
      /\ IsInjective(<<>>)
    BY <1>1, FewMembers DEF Batch, Running, Waiting, Done
<1>3. AtSlot = {} /\ Held = {} /\ \A r : HeldOf(r) = {}
    BY <1>2 DEF AtSlot, Held, HeldOf
<1>4. freeSlots \in Seq(Slots) /\ IsInjective(freeSlots)
    <2>1. freeSlots = [i \in 1..NSlots |-> NSlots + 1 - i] /\ NSlots \in Nat
        BY SizesAssumption DEF Init, Slots
    <2>2. freeSlots \in [1..NSlots -> Slots]
        BY <2>1 DEF Slots
    <2>3. freeSlots \in Seq(Slots)
        BY <2>1, <2>2, SeqDef
    <2>4. IsInjective(freeSlots)
        BY <2>1 DEF IsInjective
    <2> QED BY <2>3, <2>4
<1>5. TypeOK
    <2>1. <<>> \in Seq(Seqs) /\ <<>> \in Seq(Requests) OBVIOUS
    <2>2. /\ MaxNew \in Nat /\ NPages \in Nat /\ MaxDecode \in Nat /\ MaxFailures \in Nat
        BY SizesAssumption
    <2>3. /\ table \in [Slots -> 0..NPages] /\ capacity \in [Slots -> 0..NPages]
          /\ out \in [Seqs -> 0..MaxNew] /\ slot \in [Seqs -> Slots \union {NoSlot}]
          /\ left \in [Requests -> Nat]
        BY <2>2 DEF Init
    <2>4. {batch, waiting, running, done} \subseteq Seq(Seqs) /\ inbox \in Seq(Requests)
        BY <1>1, <2>1
    <2>5. /\ answer \in [Requests -> {"none", "pending", "ok", "error"}]
          /\ pc = "drain" /\ since = 0 /\ freePages = NPages /\ failures = 0
          /\ struck = {} /\ refreed = FALSE
        BY DEF Init
    <2>6. since \in 0..MaxDecode /\ freePages \in 0..NPages /\ failures \in 0..MaxFailures
        BY <2>2, <2>5
    <2> QED BY <1>4, <2>3, <2>4, <2>5, <2>6 DEF TypeOK
<1>6. Places
    BY <1>1, <1>2 DEF Places
<1>7. Loop /\ Untouched /\ Unfinished /\ Slotted
    BY <1>1, <1>2, <1>3 DEF Init, Loop, Untouched, Unfinished, Slotted
<1>8. PageCount
    <2>1. \A b \in Slots : table[b] = 0 /\ capacity[b] = 0 BY DEF Init
    <2>2. Total(table, Slots) = 0 BY <2>1, SlotsFinite, TotalZero
    <2> QED BY <2>1, <2>2, SizesAssumption DEF Init, PageCount
<1>9. Cache
    <2>1. ToSet(freeSlots) \subseteq Slots BY <1>4, MembersType
    <2> QED BY <1>2, <1>3, <1>4, <2>1 DEF Init, Cache
<1>10. Counted /\ Counting /\ Remembered /\ Whole
    BY <1>3, RequestsAssumption DEF Init, Counted, Counting, Remembered, Whole
<1> QED BY <1>5, <1>6, <1>7, <1>8, <1>9, <1>10 DEF EngineInv

LEMMA EngineStep == ASSUME EngineInv, [Next]_vars PROVE EngineInv'
<1>1. CASE Work
    BY <1>1, EnqueueKeeps, AnswerAtOnceKeeps, StartStepKeeps, AdmitKeeps, AdmitsNobodyKeeps,
       GrowKeeps, PreemptKeeps, DecodesNobodyKeeps, ForwardKeeps, HarvestKeeps, HarvestedKeeps
       DEF Work, Batch
<1>2. CASE Raise
    BY <1>2, RaiseKeeps
<1>3. CASE \E r \in Requests : Submit(r)
    BY <1>3, SubmitKeeps
<1>4. CASE UNCHANGED vars
    BY <1>4, StutterKeeps
<1> QED BY <1>1, <1>2, <1>3, <1>4 DEF Next

LEMMA EngineInvariant == Spec => []EngineInv
<1> QED BY EngineInit, EngineStep, PTL DEF Spec

-----------------------------------------------------------------------------

\* The state keeps its shape.
THEOREM TypeCorrect == Spec => []TypeOK
<1>1. EngineInv => TypeOK BY DEF EngineInv
<1> QED BY <1>1, EngineInvariant, PTL

LEMMA HeldIs ==
    ASSUME TypeOK
    PROVE  /\ ToSet(AtWork) = AtSlot /\ AtWork \in Seq(Seqs)
           /\ ToSet(AtWork \o waiting \o done) = Held
<1>1. /\ batch \in Seq(Seqs) /\ running \in Seq(Seqs)
      /\ waiting \in Seq(Seqs) /\ done \in Seq(Seqs)
    BY QueueTypes
<1>2. AtWork \in Seq(Seqs) /\ ToSet(AtWork) = AtSlot
    BY <1>1, ConcatProperties, MembersConcat DEF AtWork, AtSlot, Batch, Running
<1>3. PICK some : some = AtWork \o waiting
    OBVIOUS
<1>4. some \in Seq(Seqs) /\ ToSet(some) = AtSlot \union Waiting
    BY <1>1, <1>2, <1>3, ConcatProperties, MembersConcat DEF Waiting
<1>5. ToSet(some \o done) = AtSlot \union Waiting \union Done
    <2>1. ToSet(some \o done) = ToSet(some) \union ToSet(done)
        BY <1>1, <1>4, MembersConcat
    <2> QED BY <1>4, <2>1 DEF Done
<1>6. AtWork \o waiting \o done = some \o done
    BY <1>3
<1> QED BY <1>2, <1>5, <1>6 DEF Held

\* No two sequences are in one slot, and none in a free one.
THEOREM NoSlotIsShared == Spec => []SlotsExclusive
<1>1. EngineInv => SlotsExclusive
    <2> SUFFICES ASSUME EngineInv, ~refreed PROVE SlotsExclusive
        BY DEF SlotsExclusive
    <2>1. /\ IsInjective(freeSlots)
          /\ \A s, t \in AtSlot : slot[s] = slot[t] => s = t
          /\ \A s \in AtSlot : slot[s] \notin ToSet(freeSlots)
          /\ capacity = table
          /\ \A s \in Running : capacity[slot[s]] + 1 >= Tokens(s)
          /\ \A s \in Batch : capacity[slot[s]] >= Tokens(s)
        BY DEF EngineInv, Cache
    <2>2. AtWork \in Seq(Seqs) /\ ToSet(AtWork) = AtSlot
        BY HeldIs DEF EngineInv
    <2>3. IsInjective(AtWork)
        <3>1. batch \in Seq(Seqs) /\ running \in Seq(Seqs)
              /\ ToSet(batch) \intersect ToSet(running) = {}
            BY QueueTypes DEF EngineInv, Places, Batch, Running
        <3> QED BY <3>1, InjectiveConcat DEF AtWork, EngineInv, Places
    <2>4. \A s \in ToSet(AtWork) : slot[s] \in Slots
        BY <2>2 DEF EngineInv, Slotted
    <2>5. /\ SlotsOf(AtWork) \in Seq(Slots) /\ IsInjective(SlotsOf(AtWork))
          /\ ToSet(SlotsOf(AtWork)) = {slot[s] : s \in ToSet(AtWork)}
        BY <2>1, <2>2, <2>3, <2>4, SlotsOfMembers
    <2>6. freeSlots \in Seq(Slots) /\ ToSet(freeSlots) \intersect ToSet(SlotsOf(AtWork)) = {}
        BY <2>1, <2>2, <2>5 DEF EngineInv, TypeOK
    <2>7. IsInjective(freeSlots \o SlotsOf(AtWork))
        BY <2>1, <2>5, <2>6, InjectiveConcat
    <2>8. \A s \in AtSlot : capacity[slot[s]] + 1 >= Tokens(s)
        <3>1. \A s \in AtSlot : capacity[slot[s]] \in Nat /\ Tokens(s) \in Nat
            <4>1. AtSlot \subseteq Seqs BY QueueTypes DEF EngineInv, AtSlot
            <4>2. \A s \in AtSlot : Tokens(s) \in Nat BY <4>1, TokensType DEF EngineInv
            <4>3. \A b \in Slots : capacity[b] \in Nat
                BY SizesAssumption DEF EngineInv, TypeOK
            <4> QED BY <4>2, <4>3 DEF EngineInv, Slotted
        <3> QED BY <2>1, <3>1 DEF AtSlot
    <2> QED BY <2>1, <2>2, <2>7, <2>8 DEF SlotsExclusive, EngineInv, PageCount
<1> QED BY <1>1, EngineInvariant, PTL

\* A request without an answer is somewhere, unless a step struck it.
THEOREM NoRequestIsForgotten == Spec => []NothingForgotten
<1>1. EngineInv => NothingForgotten
    BY HeldIs DEF EngineInv, Remembered, HeldOf, NothingForgotten
<1> QED BY <1>1, EngineInvariant, PTL

\* A page is answered with its text when all its regions were harvested.
THEOREM PagesAreWhole == Spec => []WholePage
<1>1. EngineInv => WholePage
    BY HeldIs DEF EngineInv, Whole, HeldOf, WholePage
<1> QED BY <1>1, EngineInvariant, PTL

=============================================================================
