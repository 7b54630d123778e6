---------------------------- MODULE AnalysisProofs ----------------------------
(***************************************************************************)
(* Proofs about one attempt of analyze_case.  An attempt only hands on what*)
(* the pure stages computed, so the weight is in lemmas about ItemCount:   *)
(* where the tracks were seen, what an episode stands on, in which group a *)
(* track is and which groups a container may hold.                         *)
(*                                                                         *)
(* The stages are recursive functions over the frames, the generic tracks  *)
(* or the turns of a loop.  Recursion says that such a function exists,    *)
(* Staircase is the induction up to its bound; both come from a least      *)
(* counterexample, because a set can be given to the library's well-founded*)
(* induction where an operator cannot.                                     *)
(***************************************************************************)
EXTENDS Analysis, SequenceTheorems, FiniteSetTheorems, WellFoundedInduction, TLAPS

-----------------------------------------------------------------------------
(* Least elements, recursions, numbered sets and sequences.                *)

\* A set of natural numbers that is not empty has a least one.
LEMMA LeastNatural ==
    ASSUME NEW T, T \subseteq Nat, T # {}
    PROVE  \E m \in T : \A n \in T : m <= n
<1> DEFINE U == {1..n : n \in T}
<1>1. U \subseteq FiniteSubsetsOf(Nat)
    BY FS_Interval DEF FiniteSubsetsOf
<1>2. U # {}
    OBVIOUS
<1>3. \E u \in U : \A v \in U : ~ (<<v, u>> \in StrictSubsetOrdering(Nat))
    <2> HIDE DEF U
    <2> QED BY <1>1, <1>2, WFMin, FS_StrictSubsetOrderingWellFounded
<1>4. PICK m \in T : \A v \in U : ~ (<<v, 1..m>> \in StrictSubsetOrdering(Nat))
    BY <1>3
<1>5. ASSUME NEW n \in T, n < m PROVE FALSE
    <2>1. 1..n \in U OBVIOUS
    <2>2. 1..n \subseteq 1..m /\ m \in 1..m /\ m \notin 1..n BY <1>5
    <2>3. <<1..n, 1..m>> \in StrictSubsetOrdering(Nat)
        BY <2>2 DEF StrictSubsetOrdering
    <2> QED BY <1>4, <2>1, <2>3
<1> QED BY <1>5

\* A set of subsets of a finite set that is not empty has one with no other in it.
LEMMA LeastSet ==
    ASSUME NEW S, IsFiniteSet(S), NEW T, T \subseteq SUBSET S, T # {}
    PROVE  \E u \in T : \A v \in T : v \subseteq u => v = u
<1>1. T \subseteq FiniteSubsetsOf(S)
    BY FS_Subset DEF FiniteSubsetsOf
<1>2. PICK u \in T : \A v \in T : ~ (<<v, u>> \in StrictSubsetOrdering(S))
    BY <1>1, WFMin, FS_StrictSubsetOrderingWellFounded
<1> QED BY <1>2 DEF StrictSubsetOrdering

\* Induction up to a bound, with the set of numbers the statement holds of.
LEMMA Staircase ==
    ASSUME NEW N \in Nat, NEW T, 0 \in T, \A n \in 1..N : n - 1 \in T => n \in T
    PROVE  \A n \in 0..N : n \in T
<1> DEFINE B == {n \in 0..N : n \notin T}
<1> SUFFICES ASSUME B # {} PROVE FALSE
    OBVIOUS
<1>1. PICK n \in B : \A k \in B : n <= k
    <2>1. B \subseteq Nat OBVIOUS
    <2> HIDE DEF B
    <2> QED BY <2>1, LeastNatural
<1>2. n \in 1..N /\ n - 1 \in 0..N /\ ~(n <= n - 1)
    BY <1>1
<1> QED BY <1>1, <1>2

\* A recursion of N steps in S, F[n] the step from n - 1 to n, has a solution.
StepsOf(N, S) == [1..N -> [S -> S]]
Solutions(N, S, a, F) ==
    {g \in [0..N -> S] : g[0] = a /\ \A n \in 1..N : g[n] = F[n][g[n - 1]]}

\* From any beginning in S.
LEMMA Recursion ==
    ASSUME NEW N \in Nat, NEW S, NEW a \in S, NEW F \in StepsOf(N, S)
    PROVE  Solutions(N, S, a, F) # {}
<1>0. F \in [1..N -> [S -> S]] BY DEF StepsOf
<1> DEFINE Sol(g, k) == g[0] = a /\ \A n \in 1..k : g[n] = F[n][g[n - 1]]
           T == {k \in 0..N : \E g \in [0..k -> S] : Sol(g, k)}
<1>1. 0 \in T
    <2>1. PICK g : g = [m \in 0..0 |-> a]
        OBVIOUS
    <2>2. g \in [0..0 -> S] /\ Sol(g, 0)
        BY <2>1
    <2> HIDE DEF Sol
    <2> QED BY <2>2
<1>2. ASSUME NEW k \in 1..N, k - 1 \in T PROVE k \in T
    <2>1. PICK g \in [0..(k - 1) -> S] : Sol(g, k - 1)
        BY <1>2
    <2> DEFINE h == [m \in 0..k |-> IF m = k THEN F[k][g[k - 1]] ELSE g[m]]
    <2>2. F[k][g[k - 1]] \in S
        BY <1>0, <2>1
    <2>3. h \in [0..k -> S]
        BY <2>2
    <2>4. h[0] = a
        BY <2>1
    <2>5. ASSUME NEW n \in 1..k PROVE h[n] = F[n][h[n - 1]]
        <3>1. n \in 0..k /\ n - 1 \in 0..k /\ n - 1 # k OBVIOUS
        <3>2. CASE n = k BY <3>1, <3>2
        <3>3. CASE n # k
            <4>1. n \in 1..(k - 1) BY <3>3
            <4> QED BY <2>1, <3>1, <3>3, <4>1
        <3> QED BY <3>2, <3>3
    <2>6. Sol(h, k)
        BY <2>4, <2>5
    <2> HIDE DEF h, Sol
    <2> QED BY <2>3, <2>6
<1>3. N \in T
    <2> HIDE DEF T
    <2>1. \A k \in 1..N : k - 1 \in T => k \in T
        BY <1>2
    <2>2. N \in Nat OBVIOUS
    <2>3. \A n \in 0..N : n \in T
        BY ONLY <1>1, <2>1, <2>2, Staircase
    <2> QED BY <2>2, <2>3
<1> QED BY <1>3 DEF Solutions

\* A finite set of numbers that is not empty has a greatest one.
LEMMA Greatest ==
    ASSUME NEW S, IsFiniteSet(S), S \subseteq Nat, S # {}
    PROVE  \E x \in S : \A y \in S : y <= x
<1> DEFINE T == {U \in SUBSET S : U # {} /\ ~ \E x \in U : \A y \in U : y <= x}
<1> SUFFICES ASSUME T # {} PROVE FALSE
    OBVIOUS
<1>1. PICK u \in T : \A v \in T : v \subseteq u => v = u
    <2> HIDE DEF T
    <2>1. T \subseteq SUBSET S BY DEF T
    <2>2. IsFiniteSet(S) /\ T # {} OBVIOUS
    <2> QED BY ONLY <2>1, <2>2, LeastSet
<1>2. PICK x \in u : TRUE
    BY <1>1
<1>3. u \ {x} # {}
    BY <1>1, <1>2
<1>4. u \ {x} \notin T
    BY <1>1, <1>2
<1>5. PICK z \in u \ {x} : \A y \in u \ {x} : y <= z
    BY <1>3, <1>4
<1>6. x \in Nat /\ z \in Nat
    BY <1>2, <1>5
<1>7. CASE x <= z
    BY <1>1, <1>5, <1>7
<1>8. CASE z <= x
    <2>1. \A y \in u : y \in Nat BY <1>1
    <2>2. \A y \in u : y <= x BY <1>5, <1>6, <1>8, <2>1
    <2> QED BY <1>1, <1>2, <2>2
<1> QED BY <1>6, <1>7, <1>8

\* Max and Min of FiniteSetsExt give such an element of the set.
LEMMA MaxIs ==
    ASSUME NEW S, IsFiniteSet(S), S \subseteq Nat, S # {}
    PROVE  Max(S) \in S /\ \A y \in S : y <= Max(S)
<1>1. \E x \in S : \A y \in S : x >= y
    BY Greatest
<1> QED BY <1>1 DEF Max

\* For Min the set need not be finite.
LEMMA MinIs ==
    ASSUME NEW S, S \subseteq Nat, S # {}
    PROVE  Min(S) \in S /\ \A y \in S : Min(S) <= y
<1>1. \E x \in S : \A y \in S : x <= y
    BY LeastNatural
<1> QED BY <1>1 DEF Min

\* Nth has k - 1 members before it.
LEMMA NthIs ==
    ASSUME NEW S, IsFiniteSet(S), S \subseteq Nat, NEW k \in 1..Cardinality(S)
    PROVE  Nth(S, k) \in S /\ Cardinality({m \in S : m < Nth(S, k)}) = k - 1
<1> DEFINE below(n) == {m \in S : m < n}
<1>1. \A n : IsFiniteSet(below(n)) /\ Cardinality(below(n)) \in Nat
    BY FS_Subset, FS_CardinalityType
<1>2. Cardinality(S) \in Nat /\ S # {}
    BY FS_CardinalityType, FS_EmptySet
<1>3. \A n : below(n) \subseteq Nat /\ \A i : i \in below(n) <=> i \in S /\ i < n
    OBVIOUS
<1> HIDE DEF below
<1> DEFINE T == {n \in S : Cardinality(below(n)) >= k - 1}
<1>4. T # {}
    <2>1. PICK x \in S : \A y \in S : y <= x
        BY <1>2, Greatest
    <2>2. below(x) = S \ {x}
        <3>1. \A y \in S : y \in Nat /\ x \in Nat /\ (y < x <=> y # x) BY <2>1
        <3>2. \A y : y \in below(x) <=> y \in S \ {x} BY <1>3, <3>1
        <3> QED BY <3>2
    <2>3. Cardinality(S \ {x}) = Cardinality(S) - 1
        BY FS_RemoveElement
    <2> QED BY <1>2, <2>2, <2>3
<1>5. PICK n \in T : \A i \in T : n <= i
    <2> HIDE DEF T
    <2>1. T \subseteq Nat BY DEF T
    <2> QED BY <1>4, <2>1, LeastNatural
<1>6. Cardinality(below(n)) = k - 1
    <2>1. Cardinality(below(n)) >= k - 1 /\ n \in S /\ Cardinality(below(n)) \in Nat
        BY <1>1, <1>5
    <2>2. ASSUME Cardinality(below(n)) > k - 1 PROVE FALSE
        <3>1. below(n) # {}
            BY <2>2, FS_EmptySet
        <3>2. PICK p \in below(n) : \A y \in below(n) : y <= p
            BY <1>1, <1>3, <3>1, Greatest
        <3>3. below(p) = below(n) \ {p}
            BY <1>3, <2>1, <3>2
        <3>4. Cardinality(below(n) \ {p}) = Cardinality(below(n)) - 1
            BY <1>1, <3>2, FS_RemoveElement
        <3>5. Cardinality(below(p)) >= k - 1
            BY <2>1, <2>2, <3>3, <3>4
        <3>6. p \in T /\ p < n /\ p \in Nat
            BY <1>3, <3>2, <3>5
        <3> QED BY <1>5, <2>1, <3>6
    <2> QED BY <2>1, <2>2
<1>7. n \in S /\ Cardinality({m \in S : m < n}) = k - 1
    BY <1>5, <1>6 DEF below
<1> QED BY <1>7 DEF Nth

\* Every member is the Nth for the number of members before it, and for no other.
LEMMA NthOf ==
    ASSUME NEW S, IsFiniteSet(S), S \subseteq Nat, NEW n \in S
    PROVE  \E k \in 1..Cardinality(S) : Nth(S, k) = n
<1> DEFINE below(i) == {m \in S : m < i}
<1>1. \A i : IsFiniteSet(below(i)) /\ Cardinality(below(i)) \in Nat
    BY FS_Subset, FS_CardinalityType
<1>2. Cardinality(S) \in Nat
    BY FS_CardinalityType
<1>3. \A i : below(i) \subseteq S /\ \A j : j \in below(i) <=> j \in S /\ j < i
    OBVIOUS
<1>4. \A k \in 1..Cardinality(S) : Nth(S, k) \in S /\ Cardinality(below(Nth(S, k))) = k - 1
    BY NthIs
<1> HIDE DEF below
<1>5. ASSUME NEW i \in S, NEW j \in S, i < j
      PROVE  Cardinality(below(i)) < Cardinality(below(j))
    <2>1. Cardinality(below(i) \union {i}) = Cardinality(below(i)) + 1
        <3>1. i \notin below(i) BY <1>3
        <3> QED BY <1>1, <3>1, FS_AddElement
    <2>2. below(i) \union {i} \subseteq below(j)
        <3>1. \A y \in S : y < i => y < j
            <4>1. i \in Nat /\ j \in Nat /\ \A y \in S : y \in Nat OBVIOUS
            <4> QED BY ONLY <1>5, <4>1
        <3> QED BY <1>3, <1>5, <3>1
    <2>3. Cardinality(below(i) \union {i}) <= Cardinality(below(j))
        BY <1>1, <2>2, FS_Subset
    <2> QED BY <1>1, <2>1, <2>3
<1>6. PICK k \in Nat : k = Cardinality(below(n)) + 1
    BY <1>1
<1>7. k \in 1..Cardinality(S)
    <2>1. below(n) \in SUBSET S /\ below(n) # S
        BY <1>3
    <2>2. Cardinality(below(n)) <= Cardinality(S) /\ Cardinality(below(n)) # Cardinality(S)
        BY <2>1, FS_Subset
    <2> QED BY <1>1, <1>2, <1>6, <2>2
<1>8. PICK m \in S : m = Nth(S, k) /\ Cardinality(below(m)) = Cardinality(below(n))
    <2>1. k - 1 = Cardinality(below(n)) BY <1>1, <1>6
    <2> QED BY <1>4, <1>7, <2>1
<1>9. m \in Nat /\ n \in Nat
    OBVIOUS
<1>10. ~(m < n) /\ ~(n < m)
    <2>1. ~(Cardinality(below(m)) < Cardinality(below(n)))
          /\ ~(Cardinality(below(n)) < Cardinality(below(m)))
        BY <1>1, <1>8
    <2> QED BY <1>5, <2>1
<1> QED BY <1>7, <1>8, <1>9, <1>10

\* What is selected: members at the indices, each index once, in a sequence of as many.
LEMMA SelectedIs ==
    ASSUME NEW X, NEW seq \in Seq(X), NEW S, S \subseteq DOMAIN seq
    PROVE  /\ Selected(seq, S) \in Seq(X) /\ Len(Selected(seq, S)) = Cardinality(S)
           /\ Cardinality(S) \in Nat
           /\ \A k \in 1..Cardinality(S) : Nth(S, k) \in S /\ Selected(seq, S)[k] = seq[Nth(S, k)]
           /\ \A k, l \in 1..Cardinality(S) : Nth(S, k) = Nth(S, l) => k = l
<1>1. DOMAIN seq = 1..Len(seq) /\ Len(seq) \in Nat /\ \A i \in 1..Len(seq) : seq[i] \in X
    BY LenProperties
<1>2. IsFiniteSet(S) /\ Cardinality(S) \in Nat /\ S \subseteq Nat
    <2>1. IsFiniteSet(1..Len(seq)) BY <1>1, FS_Interval
    <2>2. IsFiniteSet(S) BY <1>1, <2>1, FS_Subset
    <2> QED BY <1>1, <2>2, FS_CardinalityType
<1>3. \A k \in 1..Cardinality(S) : Nth(S, k) \in S
    BY <1>2, NthIs
<1>4. \A k \in 1..Cardinality(S) : Cardinality({m \in S : m < Nth(S, k)}) = k - 1
    BY <1>2, NthIs
<1>5. Selected(seq, S) = [k \in 1..Cardinality(S) |-> seq[Nth(S, k)]]
    BY DEF Selected
<1>6. Selected(seq, S) \in [1..Cardinality(S) -> X]
    BY <1>1, <1>3, <1>5
<1>7. Selected(seq, S) \in Seq(X)
    BY <1>2, <1>6, SeqDef
<1>8. Len(Selected(seq, S)) = Cardinality(S)
    BY <1>2, <1>5, <1>7, LenProperties
<1>9. \A k, l \in 1..Cardinality(S) : Nth(S, k) = Nth(S, l) => k = l
    <2> SUFFICES ASSUME NEW k \in 1..Cardinality(S), NEW l \in 1..Cardinality(S), Nth(S, k) = Nth(S, l)
                 PROVE  k = l
        OBVIOUS
    <2>1. k - 1 = l - 1 BY <1>4
    <2> QED BY <1>2, <2>1
<1> QED BY <1>2, <1>3, <1>5, <1>7, <1>8, <1>9

\* A finite set as a sequence.
LEMMA SetToSeqIs ==
    ASSUME NEW S, IsFiniteSet(S)
    PROVE  /\ SetToSeq(S) \in Seq(S) /\ Len(SetToSeq(S)) = Cardinality(S) /\ Cardinality(S) \in Nat
           /\ SetToSeq(S) \in [1..Cardinality(S) -> S]
           /\ \A x \in S : \E i \in 1..Cardinality(S) : SetToSeq(S)[i] = x
<1>1. Cardinality(S) \in Nat /\ ExistsBijection(1..Cardinality(S), S)
    BY FS_CardinalityType
<1>2. PICK b \in [1..Cardinality(S) -> S] : IsInjective(b)
    BY <1>1 DEF ExistsBijection, Bijection, Injection, IsInjective
<1>3. SetToSeq(S) \in [1..Cardinality(S) -> S] /\ IsInjective(SetToSeq(S))
    BY <1>2 DEF SetToSeq
<1>4. PICK f \in [1..Cardinality(S) -> S] : f = SetToSeq(S)
    BY <1>3
<1>5. f \in Injection(1..Cardinality(S), S)
    BY <1>3, <1>4 DEF Injection, IsInjective
<1>6. IsFiniteSet(1..Cardinality(S)) /\ Cardinality(1..Cardinality(S)) = Cardinality(S)
    BY <1>1, FS_Interval
<1>7. f \in Surjection(1..Cardinality(S), S)
    BY <1>5, <1>6, FS_Injection
<1>8. f \in Seq(S) /\ Len(f) = Cardinality(S)
    BY <1>1, <1>4, SeqDef, LenProperties
<1> QED BY <1>1, <1>4, <1>7, <1>8 DEF Surjection

-----------------------------------------------------------------------------
(* Falcon's tracks: seen where they are in their first and last frame.     *)

\* The frames of s in which a detector saw one of the labels in the zone (SeenIn, of any scene).
SeenOf(s, zone, labels) ==
    {f \in Frames : \/ \E d \in s.falcon[f] : d.label \in labels /\ zone \in ZonesAt[d.spot]
                    \/ zone = "audit" /\ \E o \in s.sam3 : o.label \in labels /\ f \in DOMAIN o.at}

\* A track of Falcon's, seen where it is in its first and in its last frame.
SawAt(s, t, f) == \E d \in s.falcon[f] : d.label = t.label /\ d.spot = t.spot
Followed(s) ==
    {t \in [label : Labels, spot : Spots, first : Frames, last : Frames, hits : Nat, misses : Nat] :
        SawAt(s, t, t.first) /\ SawAt(s, t, t.last)}

\* An exported track: its first and its last frame are frames in which its label was seen
\* in each of its zones.
Exported(s) ==
    {t \in [by : {"track", "sam3_obj"}, num : Nat, label : Labels, first : Frames, last : Frames,
            zones : SUBSET Zones, refs : SUBSET DOMAIN Listed(Sam3(s))] :
        /\ \A z \in t.zones : {t.first, t.last} \subseteq SeenOf(s, z, {t.label})
        /\ t.by = "sam3_obj" => t.zones = {"audit"}}

\* One frame of the tracker.
LEMMA TrackFrameType ==
    ASSUME NEW s \in Scenes, NEW f \in Frames, NEW q \in Seq(Followed(s))
    PROVE  TrackFrame(f, q, s.falcon[f]) \in Seq(Followed(s))
<1> DEFINE D == s.falcon[f]
           matches(t, d) == Open(t) /\ t.label = d.label /\ t.spot = d.spot
           next(t) == IF \E d \in D : matches(t, d)
                      THEN [t EXCEPT !.last = f, !.hits = @ + 1, !.misses = 0]
                      ELSE IF Open(t) THEN [t EXCEPT !.misses = @ + 1] ELSE t
           left == {d \in D : \A i \in DOMAIN q : ~ matches(q[i], d)}
           kept == [i \in DOMAIN q |-> next(q[i])]
           fresh == [i \in DOMAIN SetToSeq(left) |-> Opened(SetToSeq(left)[i], f)]
<1>1. IsFiniteSet(D) /\ \A d \in D : d.label \in Labels /\ d.spot \in Spots
    BY ScenesAssumption
<1>2. DOMAIN q = 1..Len(q) /\ Len(q) \in Nat /\ \A i \in 1..Len(q) : q[i] \in Followed(s)
    BY LenProperties
<1>3. ASSUME NEW t \in Followed(s) PROVE next(t) \in Followed(s)
    <2>1. /\ t \in [label : Labels, spot : Spots, first : Frames, last : Frames, hits : Nat, misses : Nat]
          /\ SawAt(s, t, t.first) /\ SawAt(s, t, t.last)
        BY DEF Followed
    <2>2. CASE \E d \in D : matches(t, d)
        <3>1. PICK u : u = [t EXCEPT !.last = f, !.hits = @ + 1, !.misses = 0]
            OBVIOUS
        <3>2. u \in [label : Labels, spot : Spots, first : Frames, last : Frames, hits : Nat, misses : Nat]
            <4>1. PICK v : v = [t EXCEPT !.last = f]
                OBVIOUS
            <4>2. v \in [label : Labels, spot : Spots, first : Frames, last : Frames, hits : Nat, misses : Nat]
                BY <2>1, <4>1
            <4>3. PICK w : w = [v EXCEPT !.hits = @ + 1]
                OBVIOUS
            <4>4. w \in [label : Labels, spot : Spots, first : Frames, last : Frames, hits : Nat, misses : Nat]
                BY <4>2, <4>3
            <4>5. v.hits = t.hits /\ u = [w EXCEPT !.misses = 0]
                BY <2>1, <3>1, <4>1, <4>3
            <4> QED BY <4>4, <4>5
        <3>3. u.label = t.label /\ u.spot = t.spot /\ u.first = t.first /\ u.last = f
            BY <2>1, <3>1
        <3>4. SawAt(s, t, f)
            BY <2>2 DEF SawAt
        <3>5. SawAt(s, u, u.first) /\ SawAt(s, u, u.last)
            BY <2>1, <3>3, <3>4 DEF SawAt
        <3> QED BY <2>2, <3>1, <3>2, <3>5 DEF Followed
    <2>3. CASE ~ (\E d \in D : matches(t, d)) /\ Open(t)
        <3>1. PICK u : u = [t EXCEPT !.misses = @ + 1]
            OBVIOUS
        <3>2. u \in [label : Labels, spot : Spots, first : Frames, last : Frames, hits : Nat, misses : Nat]
            BY <2>1, <3>1
        <3>3. u.label = t.label /\ u.spot = t.spot /\ u.first = t.first /\ u.last = t.last
            BY <2>1, <3>1
        <3>4. SawAt(s, u, u.first) /\ SawAt(s, u, u.last)
            BY <2>1, <3>3 DEF SawAt
        <3> HIDE DEF matches
        <3>5. next(t) = u
            BY <2>3, <3>1
        <3> QED BY <3>2, <3>4, <3>5 DEF Followed
    <2>4. CASE ~ (\E d \in D : matches(t, d)) /\ ~ Open(t)
        <3> HIDE DEF matches
        <3>1. next(t) = t BY <2>4
        <3> QED BY <3>1
    <2> HIDE DEF next, matches
    <2> QED BY <2>2, <2>3, <2>4
<1>4. kept \in Seq(Followed(s))
    <2> HIDE DEF next
    <2>1. kept \in [1..Len(q) -> Followed(s)] BY <1>2, <1>3
    <2> HIDE DEF kept
    <2> QED BY <1>2, <2>1, SeqDef
<1>5. fresh \in Seq(Followed(s))
    <2> HIDE DEF left
    <2>1. left \subseteq D BY DEF left
    <2>2. IsFiniteSet(left) BY <1>1, <2>1, FS_Subset
    <2>3. PICK w : w = SetToSeq(left)
        OBVIOUS
    <2>4. Cardinality(left) \in Nat /\ w \in [1..Cardinality(left) -> left]
        BY <2>2, <2>3, SetToSeqIs
    <2>5. ASSUME NEW d \in D PROVE Opened(d, f) \in Followed(s)
        <3>1. PICK u : u = [label |-> d.label, spot |-> d.spot, first |-> f, last |-> f,
                            hits |-> 1, misses |-> 0]
            OBVIOUS
        <3>2. u \in [label : Labels, spot : Spots, first : Frames, last : Frames, hits : Nat, misses : Nat]
            BY <1>1, <3>1
        <3>3. SawAt(s, u, u.first) /\ SawAt(s, u, u.last)
            BY <3>1 DEF SawAt
        <3> QED BY <3>1, <3>2, <3>3 DEF Opened, Followed
    <2>6. fresh \in [1..Cardinality(left) -> Followed(s)]
        BY <2>1, <2>3, <2>4, <2>5
    <2> HIDE DEF fresh
    <2> QED BY <2>4, <2>6, SeqDef
<1>6. TrackFrame(f, q, s.falcon[f]) = kept \o fresh
    BY DEF TrackFrame
<1> HIDE DEF kept, fresh
<1> QED BY <1>4, <1>5, <1>6, ConcatProperties

\* The tracker's recursion.
TrackedBy(g, s) ==
    g = [n \in 0 .. Horizon + 1 |->
            IF n = 0 THEN <<>>
            ELSE IF s.falcon[n - 1] = {} THEN g[n - 1]
            ELSE TrackFrame(n - 1, g[n - 1], s.falcon[n - 1])]

\* The tracker's tracks are such tracks; without a detection there are none.
LEMMA TrackedType ==
    ASSUME NEW s \in Scenes
    PROVE  /\ Tracked(s) \in Seq(Followed(s))
           /\ (\A f \in Frames : s.falcon[f] = {}) => Tracked(s) = <<>>
<1> DEFINE Q == Seq(Followed(s))
           F == [n \in 1 .. Horizon + 1 |-> [q \in Q |->
                    IF s.falcon[n - 1] = {} THEN q ELSE TrackFrame(n - 1, q, s.falcon[n - 1])]]
<1>1. Horizon \in Nat /\ Horizon + 1 \in Nat /\ \A n \in 1 .. Horizon + 1 : n - 1 \in Frames
    BY EvidenceAssumption DEF Frames
<1>2. <<>> \in Q
    OBVIOUS
<1>3. \A n \in 1 .. Horizon + 1 : \A q \in Q : TrackFrame(n - 1, q, s.falcon[n - 1]) \in Q
    BY <1>1, TrackFrameType
<1>4. \E g : TrackedBy(g, s)
    <2> HIDE DEF Q
    <2>1. F \in [1 .. Horizon + 1 -> [Q -> Q]]
        BY <1>3
    <2>2. PICK g \in [0 .. Horizon + 1 -> Q] :
                g[0] = <<>> /\ \A n \in 1 .. Horizon + 1 : g[n] = F[n][g[n - 1]]
        <3> HIDE DEF F
        <3>1. PICK N \in Nat : N = Horizon + 1
            BY <1>1
        <3>2. F \in StepsOf(N, Q)
            BY <2>1, <3>1 DEF StepsOf
        <3>3. Solutions(N, Q, <<>>, F) # {}
            BY <1>2, <3>2, Recursion
        <3> QED BY <3>1, <3>3 DEF Solutions
    <2>3. ASSUME NEW n \in 0 .. Horizon + 1
          PROVE  g[n] = IF n = 0 THEN <<>>
                        ELSE IF s.falcon[n - 1] = {} THEN g[n - 1]
                        ELSE TrackFrame(n - 1, g[n - 1], s.falcon[n - 1])
        <3>1. CASE n = 0 BY <2>2, <3>1
        <3>2. CASE n # 0
            <4>1. n \in 1 .. Horizon + 1 /\ n - 1 \in 0 .. Horizon + 1 BY <1>1, <3>2
            <4>2. g[n - 1] \in Q BY <2>2, <4>1
            <4> QED BY <2>2, <3>2, <4>1, <4>2
        <3> QED BY <3>1, <3>2
    <2>4. g = [n \in 0 .. Horizon + 1 |-> g[n]]
        BY <2>2
    <2> QED BY <2>3, <2>4 DEF TrackedBy
<1>5. PICK g : TrackedBy(g, s) /\ Tracked(s) = g[Horizon + 1]
    BY <1>4 DEF Tracked, TrackedBy
<1>6. g[0] = <<>>
    BY <1>1, <1>5 DEF TrackedBy
<1>7. ASSUME NEW n \in 1 .. Horizon + 1
      PROVE  g[n] = IF s.falcon[n - 1] = {} THEN g[n - 1]
                    ELSE TrackFrame(n - 1, g[n - 1], s.falcon[n - 1])
    <2>1. n \in 0 .. Horizon + 1 /\ n # 0 BY <1>1
    <2> QED BY <1>5, <2>1 DEF TrackedBy
<1> DEFINE T == {n \in 0 .. Horizon + 1 :
                    g[n] \in Q /\ ((\A f \in Frames : s.falcon[f] = {}) => g[n] = <<>>)}
<1>8. \A n \in 0 .. Horizon + 1 : n \in T
    <2> HIDE DEF Q
    <2>1. 0 \in T BY <1>1, <1>2, <1>6
    <2>2. ASSUME NEW n \in 1 .. Horizon + 1, n - 1 \in T PROVE n \in T
        <3>1. n \in 0 .. Horizon + 1 BY <1>1
        <3>2. CASE s.falcon[n - 1] = {} BY <1>7, <2>2, <3>1, <3>2
        <3>3. CASE s.falcon[n - 1] # {} BY <1>1, <1>3, <1>7, <2>2, <3>1, <3>3
        <3> QED BY <3>2, <3>3
    <2> HIDE DEF T
    <2>3. \A n \in 1 .. Horizon + 1 : n - 1 \in T => n \in T BY <2>2
    <2> QED BY ONLY <1>1, <2>1, <2>3, Staircase
<1> QED BY <1>1, <1>5, <1>8

-----------------------------------------------------------------------------
(* What both detectors export.                                             *)

\* The exported tracks of each detector.
LEMMA FalconTracksType ==
    ASSUME NEW s \in Scenes
    PROVE  FalconTracks(s) \in Seq(Exported(s))
<1>1. PICK all \in Seq(Followed(s)) : all = Tracked(s)
    BY TrackedType
<1> DEFINE record(i) == [by |-> "track", num |-> i, label |-> all[i].label, first |-> all[i].first,
                         last |-> all[i].last, zones |-> ZonesAt[all[i].spot], refs |-> {}]
           exports == [i \in DOMAIN all |-> record(i)]
           chosen == {i \in DOMAIN all : Open(all[i]) \/ all[i].hits >= ConfirmHits}
<1>2. DOMAIN all = 1..Len(all) /\ Len(all) \in Nat /\ \A i \in 1..Len(all) : all[i] \in Followed(s)
    BY LenProperties
<1>3. ASSUME NEW i \in 1..Len(all) PROVE record(i) \in Exported(s)
    <2>1. PICK t : t = all[i]
        OBVIOUS
    <2>2. /\ t.label \in Labels /\ t.spot \in Spots /\ t.first \in Frames /\ t.last \in Frames
          /\ SawAt(s, t, t.first) /\ SawAt(s, t, t.last)
        BY <1>2, <2>1 DEF Followed
    <2>3. ZonesAt[t.spot] \subseteq Zones
        BY <2>2, EvidenceAssumption
    <2>4. \A z \in ZonesAt[t.spot] : {t.first, t.last} \subseteq SeenOf(s, z, {t.label})
        BY <2>2 DEF SawAt, SeenOf
    <2>5. PICK r : r = [by |-> "track", num |-> i, label |-> t.label, first |-> t.first,
                        last |-> t.last, zones |-> ZonesAt[t.spot], refs |-> {}]
        OBVIOUS
    <2>6. /\ r.by = "track" /\ r.label = t.label /\ r.first = t.first /\ r.last = t.last
          /\ r.zones = ZonesAt[t.spot]
        BY <2>5
    <2>7. r \in [by : {"track", "sam3_obj"}, num : Nat, label : Labels, first : Frames, last : Frames,
                 zones : SUBSET Zones, refs : SUBSET DOMAIN Listed(Sam3(s))]
        BY <1>2, <2>2, <2>3, <2>5
    <2>8. r \in Exported(s)
        <3>1. \A z \in r.zones : {r.first, r.last} \subseteq SeenOf(s, z, {r.label})
            BY <2>4, <2>6
        <3>2. r.by # "sam3_obj"
            BY <2>6
        <3> QED BY <2>7, <3>1, <3>2 DEF Exported
    <2>9. record(i) = r
        BY <2>1, <2>5
    <2> HIDE DEF record
    <2> QED BY <2>8, <2>9
<1>4. exports \in Seq(Exported(s)) /\ DOMAIN exports = DOMAIN all
    <2> HIDE DEF record
    <2>1. exports \in [1..Len(all) -> Exported(s)] BY <1>2, <1>3
    <2>2. DOMAIN exports = DOMAIN all OBVIOUS
    <2> HIDE DEF exports
    <2> QED BY <1>2, <2>1, <2>2, SeqDef
<1>5. FalconTracks(s) = Selected(exports, chosen)
    BY <1>1 DEF FalconTracks
<1>6. chosen \subseteq DOMAIN exports
    BY <1>4
<1> HIDE DEF exports, chosen
<1> QED BY <1>4, <1>5, <1>6, SelectedIs

\* The numbers of SAM 3's objects, and the object of each.
LEMMA ObjectNumbers ==
    ASSUME NEW s \in Scenes
    PROVE  /\ IsFiniteSet({o.num : o \in s.sam3}) /\ {o.num : o \in s.sam3} \subseteq Nat \ {0}
           /\ Cardinality({o.num : o \in s.sam3}) \in Nat
           /\ \A k \in 1..Cardinality({o.num : o \in s.sam3}) :
                /\ Nth({o.num : o \in s.sam3}, k) \in {o.num : o \in s.sam3}
                /\ (CHOOSE o \in s.sam3 : o.num = Nth({p.num : p \in s.sam3}, k)) \in s.sam3
                /\ (CHOOSE o \in s.sam3 : o.num = Nth({p.num : p \in s.sam3}, k)).num
                        = Nth({o.num : o \in s.sam3}, k)
<1>1. PICK nums : nums = {o.num : o \in s.sam3}
    OBVIOUS
<1>2. IsFiniteSet(s.sam3) /\ \A o \in s.sam3 : o.num \in Nat \ {0}
    BY ScenesAssumption
<1>3. IsFiniteSet(nums)
    <2>1. PICK S : S = s.sam3 OBVIOUS
    <2>2. PICK h : h = [o \in S |-> o.num] OBVIOUS
    <2>3. h \in Surjection(S, nums)
        BY <1>1, <2>1, <2>2 DEF Surjection
    <2> QED BY <1>2, <2>1, <2>3, FS_Surjection
<1>4. nums \subseteq Nat \ {0}
    BY <1>1, <1>2
<1>5. \A k \in 1..Cardinality(nums) : Nth(nums, k) \in nums
    <2>1. nums \subseteq Nat BY <1>4
    <2> QED BY <1>3, <2>1, NthIs
<1>6. \A k \in 1..Cardinality(nums) : \E o \in s.sam3 : o.num = Nth(nums, k)
    BY <1>1, <1>5
<1>7. \A k \in 1..Cardinality(nums) :
            /\ (CHOOSE o \in s.sam3 : o.num = Nth(nums, k)) \in s.sam3
            /\ (CHOOSE o \in s.sam3 : o.num = Nth(nums, k)).num = Nth(nums, k)
    BY <1>6
<1> QED BY <1>1, <1>3, <1>4, <1>5, <1>7, FS_CardinalityType

\* SAM 3's tracks: from the first to the last frame an object is in.
LEMMA Sam3TracksType ==
    ASSUME NEW s \in Scenes
    PROVE  Sam3Tracks(s) \in Seq(Exported(s))
<1>1. PICK listed : listed = Listed(Sam3(s))
    OBVIOUS
<1>2. PICK nums : nums = {o.num : o \in s.sam3}
    OBVIOUS
<1> DEFINE refs(o) == {i \in DOMAIN listed : listed[i].object = o.num}
           record(o) == [by |-> "sam3_obj", num |-> o.num, label |-> o.label, first |-> Min(DOMAIN o.at),
                         last |-> Max(DOMAIN o.at), zones |-> {"audit"}, refs |-> refs(o)]
           object(k) == CHOOSE o \in s.sam3 : o.num = Nth(nums, k)
           all == [k \in 1..Cardinality(nums) |-> record(object(k))]
<1>3. ASSUME NEW o \in s.sam3 PROVE record(o) \in Exported(s)
    <2>1. /\ o.num \in Nat /\ o.label \in Labels
          /\ DOMAIN o.at # {} /\ DOMAIN o.at \subseteq Frames
        BY ScenesAssumption
    <2>2. Horizon \in Nat /\ Frames \subseteq Nat /\ IsFiniteSet(Frames)
        BY EvidenceAssumption, FS_Interval DEF Frames
    <2>3. PICK at : at = DOMAIN o.at
        OBVIOUS
    <2>4. Min(at) \in at /\ Max(at) \in at
        <3>1. at # {} /\ at \subseteq Nat /\ IsFiniteSet(at)
            BY <2>1, <2>2, <2>3, FS_Subset
        <3> QED BY <3>1, MinIs, MaxIs
    <2>5. at \subseteq SeenOf(s, "audit", {o.label})
        BY <2>1, <2>3 DEF SeenOf
    <2>6. "audit" \in Zones
        BY DEF Zones
    <2>7. PICK own : own = refs(o)
        OBVIOUS
    <2>8. PICK r : r = [by |-> "sam3_obj", num |-> o.num, label |-> o.label, first |-> Min(at),
                        last |-> Max(at), zones |-> {"audit"}, refs |-> own]
        OBVIOUS
    <2>9. /\ r.label = o.label /\ r.first = Min(at) /\ r.last = Max(at)
          /\ r.zones = {"audit"}
        BY <2>8
    <2>10. own \subseteq DOMAIN Listed(Sam3(s))
        BY <1>1, <2>7
    <2> HIDE DEF refs
    <2>11. r \in [by : {"track", "sam3_obj"}, num : Nat, label : Labels, first : Frames, last : Frames,
                  zones : SUBSET Zones, refs : SUBSET DOMAIN Listed(Sam3(s))]
        BY <2>1, <2>3, <2>4, <2>6, <2>8, <2>10
    <2>12. r \in Exported(s)
        BY <2>4, <2>5, <2>9, <2>11 DEF Exported
    <2> QED BY <2>3, <2>7, <2>8, <2>12
<1>4. Cardinality(nums) \in Nat /\ \A k \in 1..Cardinality(nums) : object(k) \in s.sam3
    BY <1>2, ObjectNumbers
<1>5. Sam3Tracks(s) = all
    BY <1>1, <1>2 DEF Sam3Tracks
<1> HIDE DEF record, object
<1>6. all \in [1..Cardinality(nums) -> Exported(s)]
    BY <1>3, <1>4
<1> HIDE DEF all
<1> QED BY <1>4, <1>5, <1>6, SeqDef

\* Beside one another they are exported tracks still.
LEMMA TracksType ==
    ASSUME NEW s \in Scenes
    PROVE  Tracks(s) \in Seq(Exported(s))
BY FalconTracksType, Sam3TracksType, ConcatProperties DEF Tracks

-----------------------------------------------------------------------------
(* The episode.                                                            *)

\* A group begins where a track of the activity does and ends where one does.
LEMMA GroupEnds ==
    ASSUME NEW act, IsFiniteSet(act), \A t \in act : t.first \in Nat /\ t.last \in Nat,
           NEW g \in Groups(act)
    PROVE  (\E t \in act : g.first = t.first) /\ (\E t \in act : g.last = t.last)
<1> DEFINE starts == {t.first : t \in {u \in act : \A v \in act :
                                         v.first < u.first => v.last + Gap < u.first}}
           members(n) == {t \in act : t.first >= n /\ \A m \in starts : m > n => t.first < m}
<1>1. PICK n \in starts : g = [first |-> n, last |-> Max({t.last : t \in members(n)})]
    BY DEF Groups
<1>2. PICK t \in act : n = t.first
    BY <1>1
<1>3. \A m \in starts : m \in Nat
    OBVIOUS
<1>4. t \in members(n)
    <2> HIDE DEF starts
    <2> QED BY <1>2, <1>3
<1>5. PICK A : A = members(n)
    OBVIOUS
<1>6. A \subseteq act /\ t \in A
    BY <1>4, <1>5
<1>7. PICK L : L = {u.last : u \in A}
    OBVIOUS
<1>8. IsFiniteSet(L)
    <2>1. IsFiniteSet(A) BY <1>6, FS_Subset
    <2>2. PICK h : h = [u \in A |-> u.last] OBVIOUS
    <2>3. h \in Surjection(A, L) BY <1>7, <2>2 DEF Surjection
    <2> QED BY <2>1, <2>3, FS_Surjection
<1>9. L # {} /\ L \subseteq Nat
    BY <1>6, <1>7
<1>10. Max(L) \in L
    BY <1>8, <1>9, MaxIs
<1>11. g.first = n /\ g.last = Max(L)
    BY <1>1, <1>5, <1>7
<1> QED BY <1>2, <1>6, <1>7, <1>10, <1>11

\* The members of a sequence make a finite set.
LEMMA ActivityIs ==
    ASSUME NEW X, NEW q \in Seq(X)
    PROVE  /\ IsFiniteSet(Activity(q))
           /\ \A t \in Activity(q) : /\ t \in X /\ "audit" \in t.zones
                                     /\ t.label \in {"person"} \union ItemLabels
<1>1. DOMAIN q = 1..Len(q) /\ Len(q) \in Nat /\ \A i \in 1..Len(q) : q[i] \in X
    BY LenProperties
<1>2. ASSUME NEW labels
      PROVE  /\ IsFiniteSet(InZone(q, labels))
             /\ \A t \in InZone(q, labels) : t \in X /\ "audit" \in t.zones /\ t.label \in labels
    <2>1. PICK J : J = {j \in DOMAIN q : q[j].label \in labels /\ "audit" \in q[j].zones}
        OBVIOUS
    <2>2. IsFiniteSet(J)
        <3>1. IsFiniteSet(1..Len(q)) BY <1>1, FS_Interval
        <3>2. J \in SUBSET (1..Len(q)) BY <1>1, <2>1
        <3> QED BY <3>1, <3>2, FS_Subset
    <2>3. PICK h : h = [i \in J |-> q[i]]
        OBVIOUS
    <2>4. h \in Surjection(J, InZone(q, labels))
        BY <2>1, <2>3 DEF Surjection, InZone
    <2>5. IsFiniteSet(InZone(q, labels))
        BY <2>2, <2>4, FS_Surjection
    <2> QED BY <1>1, <2>5 DEF InZone
<1>3. Activity(q) = InZone(q, {"person"}) \/ Activity(q) = InZone(q, ItemLabels)
    BY DEF Activity
<1> QED BY <1>2, <1>3

\* An episode that is not ambiguous and long enough is one visit about the sale.
LEMMA EpisodeVisit ==
    ASSUME NEW s \in Scenes, NEW q \in Seq(Exported(s)), NEW at \in Frames
    PROVE  /\ Episode(q, at) \in [ambiguous : BOOLEAN, covered : BOOLEAN]
           /\ ~ Episode(q, at).ambiguous /\ Episode(q, at).covered =>
                \E from, to \in SeenOf(s, "audit", Labels \ {"receipt"}) :
                    /\ from < to /\ to - from <= MaxEpisode
                    /\ from - Tolerance <= at /\ at <= to + Tolerance
<1> DEFINE groups == {g \in Groups(Activity(q)) : AtSale(g, at)}
           one == CHOOSE g \in groups : TRUE
           many == [ambiguous |-> TRUE, covered |-> Covered(MapThenSumSet(Length, groups))]
           single == [ambiguous |-> Length(one) > MaxEpisode, covered |-> Covered(Length(one))]
<1>1. CASE groups = {}
    <2>1. Episode(q, at) = [ambiguous |-> FALSE, covered |-> FALSE]
        <3>1. PICK e : e = groups OBVIOUS
        <3>2. e = {} BY <1>1, <3>1
        <3>3. ~(Cardinality(e) > 1) BY ONLY <3>2, FS_EmptySet
        <3> QED BY <1>1, <3>1, <3>3 DEF Episode
    <2> QED BY <2>1
<1>2. CASE groups # {} /\ Cardinality(groups) > 1
    <2>1. Episode(q, at) = many
        BY <1>2 DEF Episode
    <2>2. many.ambiguous /\ many \in [ambiguous : BOOLEAN, covered : BOOLEAN]
        BY DEF Covered
    <2> QED BY <2>1, <2>2
<1>3. CASE groups # {} /\ ~(Cardinality(groups) > 1)
    <2>1. Episode(q, at) = single
        BY <1>3 DEF Episode
    <2>2. single \in [ambiguous : BOOLEAN, covered : BOOLEAN]
        BY DEF Covered
    <2>3. one \in Groups(Activity(q)) /\ AtSale(one, at)
        BY <1>3
    <2>4. PICK g \in Groups(Activity(q)) : g = one
        BY <2>3
    <2>5. /\ IsFiniteSet(Activity(q))
          /\ \A t \in Activity(q) : /\ t \in Exported(s) /\ "audit" \in t.zones
                                    /\ t.label \in {"person"} \union ItemLabels
        BY ActivityIs
    <2>6. Horizon \in Nat /\ MaxEpisode \in Nat /\ Tolerance \in Nat
        BY EvidenceAssumption
    <2>7. \A t \in Activity(q) : /\ t.first \in Nat /\ t.last \in Nat
                                 /\ {t.first, t.last} \subseteq SeenOf(s, "audit", {t.label})
                                 /\ t.label \in Labels \ {"receipt"}
        <3> SUFFICES ASSUME NEW t \in Activity(q)
                     PROVE  /\ t.first \in Nat /\ t.last \in Nat
                            /\ {t.first, t.last} \subseteq SeenOf(s, "audit", {t.label})
                            /\ t.label \in Labels \ {"receipt"}
            OBVIOUS
        <3>1. t \in Exported(s) /\ "audit" \in t.zones /\ t.label \in {"person"} \union ItemLabels
            BY <2>5
        <3>2. t.first \in Frames /\ t.last \in Frames
              /\ {t.first, t.last} \subseteq SeenOf(s, "audit", {t.label})
            BY <3>1 DEF Exported
        <3>3. t.label \in Labels \ {"receipt"}
            BY <3>1 DEF ItemLabels, Labels
        <3> QED BY <2>6, <3>2, <3>3 DEF Frames
    <2>8. PICK t \in Activity(q), u \in Activity(q) : g.first = t.first /\ g.last = u.last
        <3> DEFINE act == Activity(q)
        <3>1. IsFiniteSet(act) /\ \A x \in act : x.first \in Nat /\ x.last \in Nat
            BY <2>5, <2>7
        <3>2. g \in Groups(act)
            BY <2>4
        <3> HIDE DEF act
        <3>3. (\E x \in act : g.first = x.first) /\ (\E x \in act : g.last = x.last)
            BY ONLY <3>1, <3>2, GroupEnds
        <3> QED BY <3>3 DEF act
    <2>9. {g.first, g.last} \subseteq SeenOf(s, "audit", Labels \ {"receipt"})
        BY <2>7, <2>8 DEF SeenOf
    <2>10. g.first \in Nat /\ g.last \in Nat
        BY <2>7, <2>8
    <2>11. ASSUME ~ single.ambiguous, single.covered
           PROVE  /\ g.first < g.last /\ g.last - g.first <= MaxEpisode
                  /\ g.first - Tolerance <= at /\ at <= g.last + Tolerance
        <3>1. ~(g.last - g.first > MaxEpisode) /\ g.last - g.first > 0
            BY <2>4, <2>11 DEF Covered, Length
        <3>2. g.first - Tolerance <= at /\ at <= g.last + Tolerance
            BY <2>3, <2>4 DEF AtSale
        <3> QED BY <2>6, <2>10, <3>1, <3>2
    <2> HIDE DEF single
    <2> QED BY <2>1, <2>2, <2>9, <2>11
<1> QED BY <1>1, <1>2, <1>3

\* Of no tracks there is no episode.
LEMMA NoEpisode ==
    ASSUME NEW at
    PROVE  /\ Episode(<<>>, at) \in [ambiguous : BOOLEAN, covered : BOOLEAN]
           /\ ~ Episode(<<>>, at).covered
<1>1. Activity(<<>>) = {}
    BY DEF Activity, InZone
<1>2. Groups({}) = {}
    BY DEF Groups
<1>3. Episode(<<>>, at) = [ambiguous |-> FALSE, covered |-> FALSE]
    <2>1. PICK groups : groups = {g \in Groups(Activity(<<>>)) : AtSale(g, at)}
        OBVIOUS
    <2>2. groups = {}
        BY <1>1, <1>2, <2>1
    <2>3. ~(Cardinality(groups) > 1)
        BY ONLY <2>2, FS_EmptySet
    <2> QED BY <2>1, <2>2, <2>3 DEF Episode
<1>4. PICK e : e = [ambiguous |-> FALSE, covered |-> FALSE]
    OBVIOUS
<1>5. e \in [ambiguous : BOOLEAN, covered : BOOLEAN] /\ ~ e.covered
    BY <1>4
<1>6. Episode(<<>>, at) = e
    BY <1>3, <1>4
<1> QED BY <1>5, <1>6

-----------------------------------------------------------------------------
(* The canonical groups.                                                   *)

\* A group, drawn at one of the spots P.
Group(P) == [labels : SUBSET Labels, ids : SUBSET ({"track", "sam3_obj"} \X Nat), first : Nat,
             last : Nat, spot : P]
DrawnAt(s, dets) == {Drawn(t, dets) : t \in Exported(s)}

\* The seeds of tracks, one for each, in their order.
LEMMA SeedsType ==
    ASSUME NEW s, NEW dets, NEW q \in Seq(Exported(s))
    PROVE  /\ Seeds(q, dets) \in Seq(Group(DrawnAt(s, dets)))
           /\ Len(Seeds(q, dets)) = Len(q)
           /\ \A i \in 1..Len(q) : Seeds(q, dets)[i] = Seed(q[i], dets)
<1>1. DOMAIN q = 1..Len(q) /\ Len(q) \in Nat /\ \A i \in 1..Len(q) : q[i] \in Exported(s)
    BY LenProperties
<1>2. ASSUME NEW t \in Exported(s) PROVE Seed(t, dets) \in Group(DrawnAt(s, dets))
    <2>1. /\ t.by \in {"track", "sam3_obj"} /\ t.num \in Nat /\ t.label \in Labels
          /\ t.first \in Frames /\ t.last \in Frames
        BY DEF Exported
    <2>2. t.first \in Nat /\ t.last \in Nat
        BY <2>1, EvidenceAssumption DEF Frames
    <2>3. PICK d \in DrawnAt(s, dets) : d = Drawn(t, dets)
        BY DEF DrawnAt
    <2>4. [labels |-> {t.label}, ids |-> {<<t.by, t.num>>}, first |-> t.first,
           last |-> t.last, spot |-> d] \in Group(DrawnAt(s, dets))
        BY <2>1, <2>2 DEF Group
    <2> QED BY <2>3, <2>4 DEF Seed
<1>3. PICK r : r = Seeds(q, dets)
    OBVIOUS
<1>4. r \in [1..Len(q) -> Group(DrawnAt(s, dets))]
    BY <1>1, <1>2, <1>3 DEF Seeds
<1>5. r \in Seq(Group(DrawnAt(s, dets)))
    BY <1>1, <1>4, SeqDef
<1>6. Len(r) = Len(q)
    BY <1>1, <1>4, <1>5, LenProperties
<1> QED BY <1>1, <1>3, <1>5, <1>6 DEF Seeds

\* Groups in the making.
Placement(P) == [pos : Seq(Group(P)), extra : Seq(Group(P))]

\* Two groups joined are a group.
LEMMA JoinType ==
    ASSUME NEW P, NEW g \in Group(P), NEW x \in Group(P)
    PROVE  Join(g, x) \in Group(P)
<1>1. /\ g.labels \subseteq Labels /\ x.labels \subseteq Labels
      /\ g.ids \subseteq {"track", "sam3_obj"} \X Nat /\ x.ids \subseteq {"track", "sam3_obj"} \X Nat
      /\ g.first \in Nat /\ x.first \in Nat /\ g.last \in Nat /\ x.last \in Nat
    BY DEF Group
<1>2. Min({g.first, x.first}) \in Nat
    <2>1. {g.first, x.first} \subseteq Nat /\ {g.first, x.first} # {} BY <1>1
    <2>2. Min({g.first, x.first}) \in {g.first, x.first} BY <2>1, MinIs
    <2> QED BY <2>1, <2>2
<1>3. Max({g.last, x.last}) \in Nat
    <2>1. {g.last, x.last} \subseteq Nat /\ {g.last, x.last} # {} BY <1>1
    <2>2. IsFiniteSet({g.last, x.last})
        <3>1. IsFiniteSet({g.last}) /\ {g.last, x.last} = {g.last} \union {x.last} BY FS_Singleton
        <3> QED BY <3>1, FS_AddElement
    <2>3. Max({g.last, x.last}) \in {g.last, x.last} BY <2>1, <2>2, MaxIs
    <2> QED BY <2>1, <2>3
<1>4. PICK a, b, c, d : /\ a = g.labels \union x.labels /\ b = g.ids \union x.ids
                        /\ c = Min({g.first, x.first}) /\ d = Max({g.last, x.last})
    OBVIOUS
<1>5. /\ a \in SUBSET Labels /\ b \in SUBSET ({"track", "sam3_obj"} \X Nat) /\ c \in Nat /\ d \in Nat
    BY <1>1, <1>2, <1>3, <1>4
<1>6. Join(g, x) = [[[[g EXCEPT !.labels = a] EXCEPT !.ids = b] EXCEPT !.first = c] EXCEPT !.last = d]
    BY <1>4 DEF Join, Group
<1>7. PICK g1 : g1 = [g EXCEPT !.labels = a] OBVIOUS
<1>8. g1 \in Group(P) BY <1>5, <1>7 DEF Group
<1>9. PICK g2 : g2 = [g1 EXCEPT !.ids = b] OBVIOUS
<1>10. g2 \in Group(P) BY <1>5, <1>8, <1>9 DEF Group
<1>11. PICK g3 : g3 = [g2 EXCEPT !.first = c] OBVIOUS
<1>12. g3 \in Group(P) BY <1>5, <1>10, <1>11 DEF Group
<1>13. [g3 EXCEPT !.last = d] \in Group(P) BY <1>5, <1>12 DEF Group
<1> QED BY <1>6, <1>7, <1>9, <1>11, <1>13

\* A group placed among those in the making.
LEMMA PlaceType ==
    ASSUME NEW P, NEW p \in Placement(P), NEW x \in Group(P)
    PROVE  PlaceGeneric(p, x) \in Placement(P)
<1> DEFINE fits == {i \in DOMAIN p.pos : Overlaps(p.pos[i], x)}
           joined == [i \in DOMAIN p.pos |-> IF i = Min(fits) THEN Join(p.pos[i], x) ELSE p.pos[i]]
<1>1. p.pos \in Seq(Group(P)) /\ p.extra \in Seq(Group(P))
    BY DEF Placement
<1>2. PICK q \in Seq(Group(P)) : q = p.pos
    BY <1>1
<1>3. DOMAIN q = 1..Len(q) /\ Len(q) \in Nat /\ \A i \in 1..Len(q) : q[i] \in Group(P)
    BY LenProperties
<1>4. joined \in Seq(Group(P))
    <2>1. PICK m : m = Min(fits) OBVIOUS
    <2>2. joined = [i \in 1..Len(q) |-> IF i = m THEN Join(q[i], x) ELSE q[i]] BY <1>2, <1>3, <2>1
    <2>3. \A i \in 1..Len(q) : Join(q[i], x) \in Group(P) BY <1>3, JoinType
    <2>4. [i \in 1..Len(q) |-> IF i = m THEN Join(q[i], x) ELSE q[i]] \in [1..Len(q) -> Group(P)]
        BY <1>3, <2>3
    <2>5. joined \in [1..Len(q) -> Group(P)] BY <2>2, <2>4
    <2> HIDE DEF joined
    <2> QED BY <1>3, <2>5, SeqDef
<1>5. Append(p.extra, x) \in Seq(Group(P))
    BY <1>1
<1> HIDE DEF joined
<1>6. [pos |-> joined, extra |-> p.extra] \in Placement(P)
    BY <1>1, <1>4 DEF Placement
<1>7. [pos |-> p.pos, extra |-> Append(p.extra, x)] \in Placement(P)
    BY <1>1, <1>5 DEF Placement
<1>8. PlaceGeneric(p, x) = IF fits # {} THEN [pos |-> joined, extra |-> p.extra]
                           ELSE [pos |-> p.pos, extra |-> Append(p.extra, x)]
    BY DEF PlaceGeneric, joined
<1> QED BY <1>6, <1>7, <1>8

\* The recursion of ItemGroups.
Generic(q, dets) == Seeds(OfLabels(q, ItemLabels \ PosLines), dets)
Specific(q, dets) == Seeds(OfLabels(q, PosLines), dets)
Placed(g, q, dets) ==
    g = [n \in 0 .. Len(Generic(q, dets)) |->
            IF n = 0 THEN [pos |-> Specific(q, dets), extra |-> <<>>]
                     ELSE PlaceGeneric(g[n - 1], Generic(q, dets)[n])]

\* Tracks of some labels are tracks of the same kind.
LEMMA OfLabelsType ==
    ASSUME NEW X, NEW q \in Seq(X), NEW labels
    PROVE  OfLabels(q, labels) \in Seq(X)
<1>1. PICK I : I = {i \in DOMAIN q : q[i].label \in labels}
    OBVIOUS
<1>2. I \subseteq DOMAIN q
    BY <1>1
<1>3. Selected(q, I) \in Seq(X)
    BY <1>2, SelectedIs
<1> QED BY <1>1, <1>3 DEF OfLabels

\* The groups: the specific seeds, with the generic ones placed one by one.
LEMMA ItemGroupsIs ==
    ASSUME NEW s, NEW dets, NEW q \in Seq(Exported(s))
    PROVE  \E g :
            /\ g[0] = [pos |-> Specific(q, dets), extra |-> <<>>]
            /\ \A n \in 1..Len(Generic(q, dets)) : g[n] = PlaceGeneric(g[n - 1], Generic(q, dets)[n])
            /\ \A n \in 0..Len(Generic(q, dets)) : g[n] \in Placement(DrawnAt(s, dets))
            /\ ItemGroups(q, dets) = g[Len(Generic(q, dets))].pos \o g[Len(Generic(q, dets))].extra
            /\ ItemGroups(q, dets) \in Seq(Group(DrawnAt(s, dets)))
<1> DEFINE P == DrawnAt(s, dets)
<1>1. PICK gen \in Seq(Group(P)) : gen = Generic(q, dets)
    BY OfLabelsType, SeedsType DEF Generic
<1>2. Specific(q, dets) \in Seq(Group(P))
    BY OfLabelsType, SeedsType DEF Specific
<1>3. PICK N \in Nat : N = Len(gen) /\ \A n \in 1..N : gen[n] \in Group(P)
    BY LenProperties
<1>4. PICK a \in Placement(P) : a = [pos |-> Specific(q, dets), extra |-> <<>>]
    <2> HIDE DEF P
    <2>1. PICK b \in Seq(Group(P)) : b = Specific(q, dets) BY <1>2
    <2>2. <<>> \in Seq(Group(P)) OBVIOUS
    <2>3. [pos |-> b, extra |-> <<>>] \in Placement(P) BY <2>2 DEF Placement
    <2> QED BY <2>1, <2>3
<1> DEFINE F == [n \in 1..N |-> [p \in Placement(P) |-> PlaceGeneric(p, gen[n])]]
<1>5. \A n \in 1..N : \A p \in Placement(P) : PlaceGeneric(p, gen[n]) \in Placement(P)
    BY <1>3, PlaceType
<1>6. \E g : Placed(g, q, dets)
    <2>1. F \in StepsOf(N, Placement(P))
        BY <1>5 DEF StepsOf
    <2>2. Solutions(N, Placement(P), a, F) # {}
        <3> HIDE DEF F, P
        <3> QED BY <2>1, Recursion
    <2>3. PICK g \in [0..N -> Placement(P)] : g[0] = a /\ \A n \in 1..N : g[n] = F[n][g[n - 1]]
        BY <2>2 DEF Solutions
    <2>4. ASSUME NEW n \in 0..N
          PROVE  g[n] = IF n = 0 THEN a ELSE PlaceGeneric(g[n - 1], gen[n])
        <3>1. CASE n = 0 BY <2>3, <3>1
        <3>2. CASE n # 0
            <4>1. n \in 1..N /\ n - 1 \in 0..N BY <3>2
            <4>2. g[n - 1] \in Placement(P) BY <2>3, <4>1
            <4> QED BY <2>3, <3>2, <4>1, <4>2
        <3> QED BY <3>1, <3>2
    <2>5. g = [n \in 0..N |-> g[n]]
        BY <2>3
    <2> QED BY <1>1, <1>3, <1>4, <2>4, <2>5 DEF Placed
<1>7. PICK g : /\ Placed(g, q, dets)
               /\ ItemGroups(q, dets) = g[Len(Generic(q, dets))].pos \o g[Len(Generic(q, dets))].extra
    BY <1>6 DEF ItemGroups, Placed, Generic, Specific
<1>8. g[0] = a
    <2>1. 0 \in 0..N OBVIOUS
    <2> QED BY <1>1, <1>3, <1>4, <1>7, <2>1 DEF Placed
<1>9. ASSUME NEW n \in 1..N PROVE g[n] = PlaceGeneric(g[n - 1], gen[n])
    <2>1. n \in 0..N /\ n # 0 OBVIOUS
    <2> QED BY <1>1, <1>3, <1>7, <2>1 DEF Placed
<1> DEFINE T == {n \in 0..N : g[n] \in Placement(P)}
<1>10. \A n \in 0..N : n \in T
    <2> HIDE DEF P
    <2>1. 0 \in T BY <1>8
    <2>2. ASSUME NEW n \in 1..N, n - 1 \in T PROVE n \in T
        BY <1>5, <1>9, <2>2
    <2> HIDE DEF T
    <2>3. \A n \in 1..N : n - 1 \in T => n \in T BY <2>2
    <2> QED BY ONLY N \in Nat, <2>1, <2>3, Staircase
<1>11. ItemGroups(q, dets) \in Seq(Group(P))
    <2>1. g[N] \in Placement(P) BY <1>10
    <2>2. g[N].pos \in Seq(Group(P)) /\ g[N].extra \in Seq(Group(P)) BY <2>1 DEF Placement
    <2>3. g[N].pos \o g[N].extra \in Seq(Group(P)) BY <2>2, ConcatProperties
    <2> QED BY <1>1, <1>3, <1>7, <2>3
<1> QED BY <1>1, <1>3, <1>4, <1>7, <1>8, <1>9, <1>10, <1>11

-----------------------------------------------------------------------------
(* The merge of containers.                                                *)

\* A cluster without two of its candidates in conflict.
Agreeing(n, conflicts) == {c \in SUBSET (1..n) : \A i, j \in c : {i, j} \notin conflicts}
\* The loops of a pass that began with `size` clusters.
Looping(size, n, conflicts) ==
    {r \in [clusters : Seq(Agreeing(n, conflicts)), i : Nat, j : Nat] :
        0 < r.i /\ r.i < r.j /\ Len(r.clusters) <= size}

\* Two clusters the loops merge.
Mergeable(c, i, j, cands, conflicts) ==
    i \in 1..Len(c) /\ j \in 1..Len(c) /\ i < j /\ CanMerge(c[i], c[j], cands, conflicts)

\* Two clusters that may merge leave one cluster less, and no conflict in the new one.
LEMMA MergedType ==
    ASSUME NEW n, NEW cands, NEW conflicts, NEW c \in Seq(Agreeing(n, conflicts)),
           NEW i, NEW j, Mergeable(c, i, j, cands, conflicts)
    PROVE  Merged(c, i, j) \in Seq(Agreeing(n, conflicts)) /\ Len(Merged(c, i, j)) = Len(c) - 1
<1> DEFINE A == Agreeing(n, conflicts)
<1> USE DEF Mergeable
<1>1. Len(c) \in Nat /\ Len(c) - 1 \in Nat /\ \A k \in 1..Len(c) : c[k] \in A
    BY LenProperties
<1>2. \A x \in c[i], y \in c[j] : {x, y} \notin conflicts
    BY DEF CanMerge
<1>3. c[i] \union c[j] \in A
    <2>1. /\ c[i] \subseteq 1..n /\ c[j] \subseteq 1..n
          /\ \A x, y \in c[i] : {x, y} \notin conflicts
          /\ \A x, y \in c[j] : {x, y} \notin conflicts
        BY <1>1 DEF Agreeing
    <2>2. ASSUME NEW x \in c[i] \union c[j], NEW y \in c[i] \union c[j]
          PROVE  {x, y} \notin conflicts
        <3>1. CASE x \in c[i] /\ y \in c[j] BY <1>2, <3>1
        <3>2. CASE y \in c[i] /\ x \in c[j]
            <4>1. {x, y} = {y, x} OBVIOUS
            <4> QED BY <1>2, <3>2, <4>1
        <3> QED BY <2>1, <3>1, <3>2
    <2> QED BY <2>1, <2>2 DEF Agreeing
<1>4. PICK u \in A : u = c[i] \union c[j]
    BY <1>3
<1>5. PICK m : m = Merged(c, i, j)
    OBVIOUS
<1>6. m = [k \in 1..Len(c) - 1 |-> IF k = i THEN u ELSE IF k < j THEN c[k] ELSE c[k + 1]]
    BY <1>4, <1>5 DEF Merged
<1>7. \A k \in 1..Len(c) - 1 : c[k] \in A /\ c[k + 1] \in A
    BY <1>1
<1> HIDE DEF A
<1>8. m \in [1..Len(c) - 1 -> A]
    BY <1>6, <1>7
<1>9. m \in Seq(A)
    BY <1>1, <1>8, SeqDef
<1>10. Len(m) = Len(c) - 1
    BY <1>1, <1>8, <1>9, LenProperties
<1> QED BY <1>5, <1>9, <1>10 DEF A

\* So a turn of the loops leaves no conflict in a cluster, and no more clusters.
LEMMA TurnType ==
    ASSUME NEW n, NEW size \in Nat, NEW cands, NEW conflicts, NEW r \in Looping(size, n, conflicts)
    PROVE  Turn(r, cands, conflicts) \in Looping(size, n, conflicts)
<1>1. /\ r.clusters \in Seq(Agreeing(n, conflicts)) /\ r.i \in Nat /\ r.j \in Nat
      /\ 0 < r.i /\ r.i < r.j /\ Len(r.clusters) <= size
    BY DEF Looping
<1>2. PICK c \in Seq(Agreeing(n, conflicts)), i \in Nat, j \in Nat :
            c = r.clusters /\ i = r.i /\ j = r.j
    BY <1>1
<1>3. Len(c) \in Nat
    BY LenProperties
<1>4. ASSUME NEW d \in Seq(Agreeing(n, conflicts)), NEW k \in Nat, NEW l \in Nat,
             0 < k, k < l, Len(d) <= size
      PROVE  [clusters |-> d, i |-> k, j |-> l] \in Looping(size, n, conflicts)
    BY <1>4 DEF Looping
<1>5. CASE i >= Len(c)
    BY <1>2, <1>5 DEF Turn
<1>6. CASE ~(i >= Len(c)) /\ j > Len(c)
    <2>1. Turn(r, cands, conflicts) = [clusters |-> c, i |-> i + 1, j |-> i + 2]
        BY <1>2, <1>6 DEF Turn
    <2>2. i + 1 \in Nat /\ i + 2 \in Nat /\ 0 < i + 1 /\ i + 1 < i + 2
        OBVIOUS
    <2> QED BY <1>1, <1>2, <1>4, <2>1, <2>2
<1>7. CASE ~(i >= Len(c)) /\ ~(j > Len(c)) /\ CanMerge(c[i], c[j], cands, conflicts)
    <2>1. Turn(r, cands, conflicts) = [clusters |-> Merged(c, i, j), i |-> i, j |-> j]
        BY <1>2, <1>7 DEF Turn
    <2>2. i \in 1..Len(c) /\ j \in 1..Len(c) /\ i < j
        BY <1>1, <1>2, <1>3, <1>7
    <2>3. Merged(c, i, j) \in Seq(Agreeing(n, conflicts)) /\ Len(Merged(c, i, j)) = Len(c) - 1
        <3>1. Mergeable(c, i, j, cands, conflicts) BY <1>7, <2>2 DEF Mergeable
        <3> QED BY <3>1, MergedType
    <2>4. Len(Merged(c, i, j)) <= size
        <3>1. Len(c) - 1 <= size BY <1>1, <1>2, <1>3
        <3>2. Len(Merged(c, i, j)) = Len(c) - 1 BY <2>3
        <3> QED BY ONLY <3>1, <3>2
    <2> QED BY <1>1, <1>2, <1>4, <2>1, <2>2, <2>3, <2>4
<1>8. CASE ~(i >= Len(c)) /\ ~(j > Len(c)) /\ ~ CanMerge(c[i], c[j], cands, conflicts)
    <2>1. Turn(r, cands, conflicts) = [clusters |-> c, i |-> i, j |-> j + 1]
        BY <1>2, <1>8 DEF Turn
    <2>2. j + 1 \in Nat /\ i < j + 1
        BY <1>1, <1>2
    <2> QED BY <1>1, <1>2, <1>4, <2>1, <2>2
<1> QED BY <1>5, <1>6, <1>7, <1>8

\* The recursion of Sweep.
SweepBy(g, clusters, cands, conflicts) ==
    g = [n \in 0 .. Len(clusters) * Len(clusters) |->
            IF n = 0 THEN [clusters |-> clusters, i |-> 1, j |-> 2]
                     ELSE Turn(g[n - 1], cands, conflicts)]

\* And so does a pass.
LEMMA SweepType ==
    ASSUME NEW n, NEW cands, NEW conflicts, NEW c \in Seq(Agreeing(n, conflicts))
    PROVE  /\ Sweep(c, cands, conflicts) \in Seq(Agreeing(n, conflicts))
           /\ Len(Sweep(c, cands, conflicts)) <= Len(c)
<1>1. PICK size \in Nat : size = Len(c)
    BY LenProperties
<1>2. PICK N \in Nat : N = size * size
    OBVIOUS
<1>3. PICK L : L = Looping(size, n, conflicts)
    OBVIOUS
<1>4. PICK a \in L : a = [clusters |-> c, i |-> 1, j |-> 2]
    <2>1. [clusters |-> c, i |-> 1, j |-> 2] \in L BY <1>1, <1>3 DEF Looping
    <2> QED BY <2>1
<1>5. \A r \in L : Turn(r, cands, conflicts) \in L
    BY <1>3, TurnType
<1>6. \E g : SweepBy(g, c, cands, conflicts)
    <2>1. PICK F : F = [k \in 1..N |-> [r \in L |-> Turn(r, cands, conflicts)]]
        OBVIOUS
    <2>2. F \in StepsOf(N, L)
        BY <1>5, <2>1 DEF StepsOf
    <2>3. Solutions(N, L, a, F) # {}
        BY <2>2, Recursion
    <2>4. PICK g \in [0..N -> L] : g[0] = a /\ \A k \in 1..N : g[k] = F[k][g[k - 1]]
        BY <2>3 DEF Solutions
    <2>5. ASSUME NEW k \in 0..N
          PROVE  g[k] = IF k = 0 THEN a ELSE Turn(g[k - 1], cands, conflicts)
        <3>1. CASE k = 0 BY <2>4, <3>1
        <3>2. CASE k # 0
            <4>1. k \in 1..N /\ k - 1 \in 0..N BY <3>2
            <4>2. g[k - 1] \in L BY <2>4, <4>1
            <4> QED BY <2>1, <2>4, <3>2, <4>1, <4>2
        <3> QED BY <3>1, <3>2
    <2>6. g = [k \in 0..N |-> g[k]]
        BY <2>4
    <2> QED BY <1>1, <1>2, <1>4, <2>5, <2>6 DEF SweepBy
<1>7. PICK g : /\ SweepBy(g, c, cands, conflicts)
               /\ Sweep(c, cands, conflicts) = g[Len(c) * Len(c)].clusters
    BY <1>6 DEF Sweep, SweepBy
<1>8. g[0] = a
    <2>1. 0 \in 0..N OBVIOUS
    <2> QED BY <1>1, <1>2, <1>4, <1>7, <2>1 DEF SweepBy
<1>9. ASSUME NEW k \in 1..N PROVE g[k] = Turn(g[k - 1], cands, conflicts)
    <2>1. k \in 0..N /\ k # 0 OBVIOUS
    <2> QED BY <1>1, <1>2, <1>7, <2>1 DEF SweepBy
<1> DEFINE T == {k \in 0..N : g[k] \in L}
<1>10. \A k \in 0..N : k \in T
    <2>1. 0 \in T BY <1>8
    <2>2. ASSUME NEW k \in 1..N, k - 1 \in T PROVE k \in T
        BY <1>5, <1>9, <2>2
    <2> HIDE DEF T
    <2>3. \A k \in 1..N : k - 1 \in T => k \in T BY <2>2
    <2> QED BY ONLY N \in Nat, <2>1, <2>3, Staircase
<1>11. g[N] \in L
    BY <1>10
<1> QED BY <1>1, <1>2, <1>3, <1>7, <1>11 DEF Looping

\* The candidates, and their clusters.
LEMMA CandidatesType ==
    ASSUME NEW X, NEW q \in Seq(X)
    PROVE  Candidates(q) \in Seq(X)
<1>1. PICK I : I = {i \in DOMAIN q : q[i].labels \intersect ContainerFamily # {}}
    OBVIOUS
<1>2. I \subseteq DOMAIN q
    BY <1>1
<1>3. Selected(q, I) \in Seq(X)
    BY <1>2, SelectedIs
<1> QED BY <1>1, <1>3 DEF Candidates

\* Nor is there one after the passes, or more clusters than candidates.
LEMMA ClustersType ==
    ASSUME NEW X, NEW cands \in Seq(X), NEW dets
    PROVE  /\ Clusters(cands, dets) \in Seq(Agreeing(Len(cands), Conflicts(cands, dets)))
           /\ Len(Clusters(cands, dets)) <= Len(cands)
<1>1. PICK n \in Nat : n = Len(cands)
    BY LenProperties
<1>2. PICK conflicts : conflicts = Conflicts(cands, dets)
    OBVIOUS
<1>3. \A i : {i} \notin conflicts
    <2> SUFFICES ASSUME NEW i, {i} \in conflicts PROVE FALSE
        OBVIOUS
    <2>1. PICK a, b : a # b /\ {a, b} = {i}
        BY <1>2 DEF Conflicts
    <2> QED BY <2>1
<1>4. PICK A : A = Agreeing(n, conflicts)
    OBVIOUS
<1>5. PICK c : c = [i \in DOMAIN cands |-> {i}]
    OBVIOUS
<1>6. c \in Seq(A) /\ Len(c) = n
    <2>1. DOMAIN cands = 1..n BY <1>1, LenProperties
    <2>2. \A i \in 1..n : {i} \in A
        <3> SUFFICES ASSUME NEW i \in 1..n PROVE {i} \in A
            OBVIOUS
        <3>1. \A x, y \in {i} : {x, y} = {i} OBVIOUS
        <3>2. \A x, y \in {i} : {x, y} \notin conflicts BY <1>3, <3>1
        <3> QED BY <1>4, <3>2 DEF Agreeing
    <2>3. c \in [1..n -> A] BY <1>5, <2>1, <2>2
    <2>4. c \in Seq(A) BY <2>3, SeqDef
    <2> QED BY <2>3, <2>4, LenProperties
<1>7. ASSUME NEW d \in Seq(A), Len(d) <= n
      PROVE  Sweep(d, cands, conflicts) \in Seq(A) /\ Len(Sweep(d, cands, conflicts)) <= n
    <2>1. Sweep(d, cands, conflicts) \in Seq(A) /\ Len(Sweep(d, cands, conflicts)) <= Len(d)
        BY <1>4, SweepType
    <2>2. Len(d) \in Nat /\ Len(Sweep(d, cands, conflicts)) \in Nat
        BY <2>1, LenProperties
    <2> QED BY <1>7, <2>1, <2>2
<1>8. PICK c1 : c1 = Sweep(c, cands, conflicts) OBVIOUS
<1>9. c1 \in Seq(A) /\ Len(c1) <= n BY <1>6, <1>7, <1>8
<1>10. PICK c2 : c2 = Sweep(c1, cands, conflicts) OBVIOUS
<1>11. c2 \in Seq(A) /\ Len(c2) <= n BY <1>7, <1>9, <1>10
<1>12. PICK c3 : c3 = Sweep(c2, cands, conflicts) OBVIOUS
<1>13. c3 \in Seq(A) /\ Len(c3) <= n BY <1>7, <1>11, <1>12
<1>14. PICK c4 : c4 = Sweep(c3, cands, conflicts) OBVIOUS
<1>15. c4 \in Seq(A) /\ Len(c4) <= n BY <1>7, <1>13, <1>14
<1>16. Clusters(cands, dets) = c4
    BY <1>2, <1>5, <1>8, <1>10, <1>12, <1>14 DEF Clusters
<1> QED BY <1>1, <1>2, <1>4, <1>15, <1>16

\* The count's ends, from any tracks that are exported.
LEMMA CountType ==
    ASSUME NEW s, NEW dets, NEW q \in Seq(Exported(s))
    PROVE  /\ Count(q, dets).min \in Nat /\ Count(q, dets).max \in Nat
           /\ Count(q, dets).min <= Count(q, dets).max
<1>1. PICK groups \in Seq(Group(DrawnAt(s, dets))) : groups = ItemGroups(q, dets)
    BY ItemGroupsIs
<1>2. PICK cands \in Seq(Group(DrawnAt(s, dets))) : cands = Candidates(groups)
    BY CandidatesType
<1>3. PICK clusters : clusters = Clusters(cands, dets)
    OBVIOUS
<1>4. /\ clusters \in Seq(Agreeing(Len(cands), Conflicts(cands, dets)))
      /\ Len(clusters) <= Len(cands)
    BY <1>3, ClustersType
<1>5. Len(clusters) \in Nat /\ Len(cands) \in Nat
    BY <1>4, LenProperties
<1>6. Count(q, dets).min = Len(clusters) /\ Count(q, dets).max = Len(cands)
    BY <1>1, <1>2, <1>3 DEF Count
<1> QED BY <1>4, <1>5, <1>6

-----------------------------------------------------------------------------
(* What each policy lets pass as VERIFIED.                                 *)

\* What no gate of the episode objects to.
LEMMA NoEpisodeTag ==
    ASSUME NEW ep, NEW a, EpisodeTags(ep, a) = {}
    PROVE  ep # None /\ ~ ep.ambiguous /\ ep.covered /\ a.sure
<1>1. "ambiguous" \notin EpisodeTags(ep, a) /\ "short" \notin EpisodeTags(ep, a)
      /\ "low_confidence" \notin EpisodeTags(ep, a)
    OBVIOUS
<1>2. ~ (ep # None /\ ep.ambiguous)
    BY <1>1 DEF EpisodeTags
<1>3. ~ (ep = None \/ ~ ep.covered)
    BY <1>1 DEF EpisodeTags
<1>4. ~ ~ a.sure
    BY <1>1 DEF EpisodeTags
<1> QED BY <1>2, <1>3, <1>4

\* What no gate of the count objects to.
LEMMA NoCountTag ==
    ASSUME NEW a, NEW c, NEW size \in Nat, CountTags(a, c, size) = {}, a.count \in Tri,
           c # None => c.min \in Nat /\ c.max \in Nat /\ c.min <= c.max
    PROVE  \/ a.count = "yes"
           \/ size > 0 /\ c # None /\ c.min = c.max /\ size \in c.min - 1 .. c.max + 1
<1>1. CASE c # None /\ size > 0
    <2>1. PICK x \in Nat, y \in Nat : x = c.min /\ y = c.max /\ x <= y
        BY <1>1
    <2> DEFINE far == size + 1 < x \/ size - 1 > y
    <2>2. CountTags(a, c, size) =
            IF far /\ y > 0 /\ a.count # "yes" THEN {"mismatch"}
            ELSE IF y > x \/ y = 0 THEN {"count_uncertain"} ELSE {}
        BY <1>1, <2>1 DEF CountTags
    <2>3. ~(far /\ y > 0 /\ a.count # "yes") /\ ~(y > x \/ y = 0)
        BY <2>2
    <2>4. x = y /\ y > 0
        BY <2>1, <2>3
    <2>5. a.count = "yes" \/ ~ far
        BY <2>3, <2>4
    <2>6. ~ far => size \in x - 1 .. y + 1
        BY <2>1
    <2> QED BY <1>1, <2>1, <2>4, <2>5, <2>6
<1>2. CASE ~(c # None /\ size > 0)
    <2>1. CountTags(a, c, size) = CASE a.count = "no" -> {"mismatch"}
                                    [] a.count = "uncertain" -> {"count_uncertain"}
                                    [] OTHER -> {}
        BY <1>2 DEF CountTags
    <2> QED BY <2>1 DEF Tri
<1> QED BY <1>1, <1>2

\* What no gate of the identity objects to.
LEMMA NoIdentityTag ==
    ASSUME NEW a, IdentityTags(a) = {}, a.same \in Tri
    PROVE  a.same = "yes" /\ ~ a.missing /\ ~ a.extra
<1>1. CASE a.same = "no"
    BY <1>1 DEF IdentityTags
<1>2. CASE a.same = "uncertain"
    BY <1>2 DEF IdentityTags
<1>3. CASE a.same = "yes"
    <2>1. a.same # "uncertain" BY <1>3
    <2>2. ~ a.missing BY <2>1 DEF IdentityTags
    <2>3. ~ a.extra BY <2>1 DEF IdentityTags
    <2> QED BY <1>3, <2>2, <2>3
<1> QED BY <1>1, <1>2, <1>3 DEF Tri

\* A verdict is one of the outcomes, and VERIFIED only with usable footage and no tag.
LEMMA OutcomeIs ==
    ASSUME NEW usable, NEW tags
    PROVE  /\ Outcome(usable, tags).outcome \in {"VERIFIED", "REVIEW", "INVALID_VIDEO"}
           /\ Outcome(usable, tags).outcome = "VERIFIED" => usable /\ tags = {}
BY DEF Outcome

\* sco_policy_v2: VERIFIED when no gate objects.
LEMMA Verified2 ==
    ASSUME NEW a \in Answers["v2"] \union {Error, None}, NEW ep, NEW c, NEW size \in Nat,
           c # None => c.min \in Nat /\ c.max \in Nat /\ c.min <= c.max
    PROVE  /\ Decide2(Parsed2(a), ep, c, size).outcome \in {"VERIFIED", "REVIEW", "INVALID_VIDEO"}
           /\ Decide2(Parsed2(a), ep, c, size).outcome = "VERIFIED" =>
                /\ ep # None /\ ~ ep.ambiguous /\ ep.covered
                /\ a \notin {Error, None} /\ a.sure /\ a.usable /\ ~ a.missing /\ ~ a.extra
                /\ a.same = "yes"
                /\ \/ a.count = "yes"
                   \/ size > 0 /\ c # None /\ c.min = c.max /\ size \in c.min - 1 .. c.max + 1
<1>1. PICK p : p = Parsed2(a)
    OBVIOUS
<1>2. PICK tags : tags = EpisodeTags(ep, p) \union CountTags(p, c, size) \union IdentityTags(p)
    OBVIOUS
<1>3. Decide2(p, ep, c, size) = Outcome(p.usable, tags)
    BY <1>2 DEF Decide2
<1>4. Decide2(p, ep, c, size).outcome \in {"VERIFIED", "REVIEW", "INVALID_VIDEO"}
    BY <1>3, OutcomeIs
<1>5. ASSUME Decide2(p, ep, c, size).outcome = "VERIFIED"
      PROVE  /\ ep # None /\ ~ ep.ambiguous /\ ep.covered
             /\ a \notin {Error, None} /\ a.sure /\ a.usable /\ ~ a.missing /\ ~ a.extra
             /\ a.same = "yes"
             /\ \/ a.count = "yes"
                \/ size > 0 /\ c # None /\ c.min = c.max /\ size \in c.min - 1 .. c.max + 1
    <2>1. p.usable /\ tags = {}
        BY <1>3, <1>5, OutcomeIs
    <2>2. EpisodeTags(ep, p) = {} /\ CountTags(p, c, size) = {} /\ IdentityTags(p) = {}
        BY <1>2, <2>1
    <2>3. ep # None /\ ~ ep.ambiguous /\ ep.covered /\ p.sure
        BY <2>2, NoEpisodeTag
    <2>4. a \notin {Error, None} /\ p = a
        BY <1>1, <2>3 DEF Parsed2
    <2>5. a.count \in Tri /\ a.same \in Tri
        <3>1. a \in Answer2 BY <2>4, AnalysisAssumption
        <3> QED BY <3>1 DEF Answer2
    <2>6. \/ a.count = "yes"
          \/ size > 0 /\ c # None /\ c.min = c.max /\ size \in c.min - 1 .. c.max + 1
        BY <2>2, <2>4, <2>5, NoCountTag
    <2>7. a.same = "yes" /\ ~ a.missing /\ ~ a.extra
        BY <2>2, <2>4, <2>5, NoIdentityTag
    <2> QED BY <2>1, <2>3, <2>4, <2>6, <2>7
<1> QED BY <1>1, <1>4, <1>5

\* sco_policy: VERIFIED when no gate objects, the count playing no part.
LEMMA Verified1 ==
    ASSUME NEW a \in Answers["v1"] \union {Error, None}, NEW ep
    PROVE  /\ Decide1(Parsed1(a), ep).outcome \in {"VERIFIED", "REVIEW", "INVALID_VIDEO"}
           /\ Decide1(Parsed1(a), ep).outcome = "VERIFIED" =>
                /\ ep # None /\ ~ ep.ambiguous /\ ep.covered
                /\ a \notin {Error, None} /\ a.sure /\ a.usable /\ ~ a.missing /\ ~ a.extra
                /\ a.match = "yes"
<1>1. PICK p : p = Parsed1(a)
    OBVIOUS
<1>2. PICK tags : tags = EpisodeTags(ep, p) \union (IF p.match # "yes" THEN {"mismatch"} ELSE {})
                                            \union (IF p.missing THEN {"missing"} ELSE {})
                                            \union (IF p.extra THEN {"extra"} ELSE {})
    OBVIOUS
<1>3. Decide1(p, ep) = Outcome(p.usable, tags)
    BY <1>2 DEF Decide1
<1>4. Decide1(p, ep).outcome \in {"VERIFIED", "REVIEW", "INVALID_VIDEO"}
    BY <1>3, OutcomeIs
<1>5. ASSUME Decide1(p, ep).outcome = "VERIFIED"
      PROVE  /\ ep # None /\ ~ ep.ambiguous /\ ep.covered
             /\ a \notin {Error, None} /\ a.sure /\ a.usable /\ ~ a.missing /\ ~ a.extra
             /\ a.match = "yes"
    <2>1. p.usable /\ tags = {}
        BY <1>3, <1>5, OutcomeIs
    <2>2. EpisodeTags(ep, p) = {}
        BY <1>2, <2>1
    <2>3. ep # None /\ ~ ep.ambiguous /\ ep.covered /\ p.sure
        BY <2>2, NoEpisodeTag
    <2>4. a \notin {Error, None} /\ p = a
        BY <1>1, <2>3 DEF Parsed1
    <2>5. p.match = "yes" /\ ~ p.missing /\ ~ p.extra
        BY <1>2, <2>1
    <2> QED BY <2>1, <2>3, <2>4, <2>5
<1> QED BY <1>1, <1>4, <1>5

\* The refund policy: VERIFIED on a customer and an item that the tracks show.
LEMMA VerifiedLegacy ==
    ASSUME NEW a \in Answers["legacy"] \union {Error, None}, NEW ts
    PROVE  /\ DecideLegacy(a, ts).outcome \in {"VERIFIED", "REVIEW", "HIGH_RISK_REVIEW"}
           /\ DecideLegacy(a, ts).outcome = "VERIFIED" =>
                /\ ItemAtCounter(ts) /\ CustomerSeen(ts)
                /\ a \notin {Error, None} /\ a.sure /\ a.handover
<1> DEFINE empty == [sure |-> FALSE, item |-> FALSE, receipt |-> FALSE, handover |-> FALSE,
                     obstructed |-> FALSE]
<1>1. PICK said : said = IF a \in {Error, None} THEN empty ELSE a
    OBVIOUS
<1>2. PICK v : v = DecideLegacy(a, ts)
    OBVIOUS
<1>3. /\ v.outcome \in {"VERIFIED", "REVIEW", "HIGH_RISK_REVIEW"}
      /\ v.outcome = "VERIFIED" => ItemAtCounter(ts) /\ CustomerSeen(ts) /\ said.handover /\ said.sure
    BY <1>1, <1>2 DEF DecideLegacy
<1>4. said.sure => a \notin {Error, None} /\ said = a
    BY <1>1
<1> QED BY <1>2, <1>3, <1>4

-----------------------------------------------------------------------------
(* The attempt.                                                            *)

\* What the steps of an attempt have left behind them.
Planned == step # "plan" => prompt \in Prompts /\ sale \in Frames
Unplanned == step = "plan" => prompt = None /\ answer = None
Filmed == step \in {"perceive", "select", "prepare", "ask", "decide"} => window = "SUCCEEDED"
Selecting == step \in {"prepare", "ask", "decide"} =>
    episode = None \/ episode = Episode(TracksOf(scene), sale)
Counting == step \in {"ask", "decide"} =>
    count \in {None, NoContainers, Count(TracksOf(scene), DetectionsOf(scene))}
Judged ==
    CASE prompt = "v2" -> Decide2(Parsed2(answer), episode, count, basket)
      [] prompt = "v1" -> Decide1(Parsed1(answer), episode)
      [] prompt = "legacy" -> DecideLegacy(answer, TracksOf(scene))
Closing == step = "closed" =>
    \/ verdict.outcome = "INVALID_VIDEO"
    \/ /\ verdict = Judged /\ window = "SUCCEEDED"
       /\ episode = None \/ episode = Episode(TracksOf(scene), sale)
       /\ count \in {None, NoContainers, Count(TracksOf(scene), DetectionsOf(scene))}

AttemptInv ==
    TypeOK /\ Planned /\ Unplanned /\ Filmed /\ Selecting /\ Counting /\ Closing

\* The tracks an attempt has: none when perception returned nothing.
LEMMA TracksOfType ==
    ASSUME NEW s \in Scenes \union {None}
    PROVE  \/ s # None /\ s \in Scenes /\ TracksOf(s) = Tracks(s) /\ TracksOf(s) \in Seq(Exported(s))
           \/ s = None /\ TracksOf(s) = <<>>
BY TracksType DEF TracksOf

\* The selector's result is of its kind.
LEMMA EpisodeOfType ==
    ASSUME NEW s \in Scenes \union {None}, NEW at \in Frames
    PROVE  Episode(TracksOf(s), at) \in [ambiguous : BOOLEAN, covered : BOOLEAN]
BY TracksOfType, EpisodeVisit, NoEpisode

\* The frame that has the sale in the recorder's clip is a number.
LEMMA ClipSaleType == ClipSale \in Nat
<1>1. NvrPre \in Nat /\ NvrPost \in Nat /\ NvrMax \in Nat
    BY AnalysisAssumption
<1>2. CASE NvrPre + NvrPost <= NvrMax
    BY <1>1, <1>2 DEF ClipSale
<1>3. CASE ~(NvrPre + NvrPost <= NvrMax)
    <2>1. PICK a \in Nat, b \in Nat : a = NvrPre * NvrMax /\ b = NvrPre + NvrPost /\ b > 0
        BY <1>1, <1>3
    <2>2. a \div b \in Nat
        BY <2>1
    <2> QED BY <1>3, <2>1, <2>2 DEF ClipSale
<1> QED BY <1>2, <1>3

\* The decision of each policy is one of the four outcomes.
LEMMA JudgedOutcome ==
    ASSUME TypeOK, prompt \in Prompts, answer \in Answers[prompt] \union {Error, None}
    PROVE  Judged.outcome \in {"VERIFIED", "REVIEW", "HIGH_RISK_REVIEW", "INVALID_VIDEO"}
<1>1. basket \in Nat /\ (count # None => count.min \in Nat /\ count.max \in Nat /\ count.min <= count.max)
    BY AnalysisAssumption DEF TypeOK
<1>2. CASE prompt = "v2"
    <2>1. Judged = Decide2(Parsed2(answer), episode, count, basket) BY <1>2 DEF Judged
    <2>2. answer \in Answers["v2"] \union {Error, None} BY <1>2
    <2> QED BY <1>1, <2>1, <2>2, Verified2
<1>3. CASE prompt = "v1"
    <2>1. Judged = Decide1(Parsed1(answer), episode) BY <1>3 DEF Judged
    <2>2. answer \in Answers["v1"] \union {Error, None} BY <1>3
    <2> QED BY <2>1, <2>2, Verified1
<1>4. CASE prompt = "legacy"
    <2>1. Judged = DecideLegacy(answer, TracksOf(scene)) BY <1>4 DEF Judged
    <2>2. answer \in Answers["legacy"] \union {Error, None} BY <1>4
    <2> QED BY <2>1, <2>2, VerifiedLegacy
<1> QED BY <1>2, <1>3, <1>4 DEF Prompts

\* The ends of the count an attempt has.
LEMMA CountOfType ==
    ASSUME NEW s \in Scenes \union {None}, NEW dets
    PROVE  /\ Count(TracksOf(s), dets).min \in Nat /\ Count(TracksOf(s), dets).max \in Nat
           /\ Count(TracksOf(s), dets).min <= Count(TracksOf(s), dets).max
<1>1. TracksOf(s) \in Seq(Exported(s))
    <2>1. <<>> \in Seq(Exported(s)) OBVIOUS
    <2> QED BY <2>1, TracksOfType
<1> QED BY <1>1, CountType

\* At each step the attempt has what the steps before it left: the prompt and the sale
\* of the plan, a committed clip, the episode and the count of the scene that perception
\* reported, the verdict of the prompt's policy on exactly these.
THEOREM AttemptInvariant == Spec => []AttemptInv
<1>1. Init => AttemptInv
    BY DEF Init, AttemptInv, TypeOK, Planned, Unplanned, Filmed, Selecting, Counting, Closing, Steps
<1>2. AttemptInv /\ [Next]_vars => AttemptInv'
    <2> SUFFICES ASSUME AttemptInv, [Next]_vars PROVE AttemptInv'
        OBVIOUS
    <2>1. TypeOK /\ Planned /\ Unplanned /\ Filmed /\ Selecting /\ Counting /\ Closing
        BY DEF AttemptInv
    <2> USE DEF TypeOK, Planned, Unplanned, Filmed, Selecting, Counting, Closing, Steps
    <2>2. CASE Plan
        <3>1. sale' \in Frames /\ prompt' \in Prompts /\ step' \in {"local", "nvr"}
            BY <2>1, <2>2, AnalysisAssumption DEF Plan, Prompts
        <3>2. answer' = None /\ UNCHANGED <<basket, real, scene, episode, count, answer, verdict>>
              /\ window' = "PENDING"
            BY <2>1, <2>2 DEF Plan
        <3>3. prompt' # None
            BY <3>1, AnalysisAssumption
        <3> QED BY <2>1, <3>1, <3>2, <3>3 DEF AttemptInv
    <2>3. CASE BuildLocal
        <3>1. ASSUME NEW shift \in Shifts, NEW lost \in Lost, sale - shift \in Frames,
                     FootageReady(sale - shift, IF lost <= sale - shift THEN sale - shift - lost ELSE None)
              PROVE  AttemptInv'
            <4>1. step = "local"
                BY <2>3 DEF BuildLocal
            <4>2. PICK stamped \in Frames : stamped = sale - shift
                BY <3>1
            <4>3. lost \in Nat /\ stamped \in Nat
                BY AnalysisAssumption, EvidenceAssumption DEF Frames
            <4>4. PICK true \in Nat \union {None} : true = IF lost <= stamped THEN stamped - lost ELSE None
                <5>1. lost <= stamped => stamped - lost \in Nat
                    BY <4>3
                <5> QED BY <5>1
            <4>5. FootageReady(stamped, true)
                BY <3>1, <4>2, <4>4
            <4> QED BY <2>1, <4>1, <4>2, <4>4, <4>5 DEF AttemptInv, FootageReady
        <3>2. CASE step' = "nvr" /\ UNCHANGED <<prompt, basket, sale, real, window, scene, episode, count,
                                                answer, verdict>>
            BY <2>1, <2>3, <3>2 DEF AttemptInv, BuildLocal
        <3> QED BY <2>3, <3>1, <3>2 DEF BuildLocal
    <2>4. CASE RetrieveNvr
        <3>1. CASE FootageReady(sale, ClipSale)
            <4>1. ClipSale \in Nat
                BY ClipSaleType
            <4> QED BY <2>1, <2>4, <3>1, <4>1 DEF AttemptInv, RetrieveNvr, FootageReady
        <3>2. CASE CloseInvalid
            BY <2>1, <2>4, <3>2 DEF AttemptInv, RetrieveNvr, CloseInvalid
        <3> QED BY <2>4, <3>1, <3>2 DEF RetrieveNvr
    <2>5. CASE Perceive
        BY <2>1, <2>5 DEF AttemptInv, Perceive
    <2>6. CASE SelectEpisode
        <3>1. step = "select" /\ step' = "prepare" /\ sale \in Frames
            BY <2>1, <2>6 DEF SelectEpisode
        <3>2. Episode(TracksOf(scene), sale) \in [ambiguous : BOOLEAN, covered : BOOLEAN]
            BY <2>1, <3>1, EpisodeOfType
        <3> QED BY <2>1, <2>6, <3>1, <3>2 DEF AttemptInv, SelectEpisode
    <2>7. CASE BuildPrompt
        <3>1. PICK c : c = Count(TracksOf(scene), DetectionsOf(scene))
            OBVIOUS
        <3>2. c.min \in Nat /\ c.max \in Nat /\ c.min <= c.max
            BY <2>1, <3>1, CountOfType
        <3>3. step = "prepare" /\ step' = "ask" /\ count' \in {None, NoContainers, c}
              /\ UNCHANGED <<prompt, basket, sale, real, window, scene, episode, answer, verdict>>
            BY <2>7, <3>1 DEF BuildPrompt
        <3>4. TypeOK'
            <4>1. NoContainers.min \in Nat /\ NoContainers.max \in Nat /\ NoContainers.min <= NoContainers.max
                BY DEF NoContainers
            <4> QED BY <2>1, <3>2, <3>3, <4>1
        <3>5. Counting'
            BY <2>1, <3>1, <3>3
        <3> QED BY <2>1, <3>3, <3>4, <3>5 DEF AttemptInv
    <2>8. CASE AskModel
        BY <2>1, <2>8, AnalysisAssumption DEF AttemptInv, AskModel
    <2>9. CASE Close
        <3>1. step = "decide" /\ step' = "closed" /\ verdict' = Judged
              /\ UNCHANGED <<prompt, basket, sale, real, window, scene, episode, count, answer>>
            BY <2>9 DEF Close, Judged
        <3>2. prompt \in Prompts /\ prompt # None
            BY <2>1, <3>1, AnalysisAssumption
        <3>3. answer \in Answers[prompt] \union {Error, None}
            BY <2>1, <3>2
        <3>4. Judged.outcome \in {"VERIFIED", "REVIEW", "HIGH_RISK_REVIEW", "INVALID_VIDEO"}
            BY <2>1, <3>2, <3>3, JudgedOutcome
        <3>5. Judged' = Judged
            BY <3>1 DEF Judged
        <3> HIDE DEF Judged
        <3>6. TypeOK' /\ Planned' /\ Unplanned' /\ Filmed'
            BY <2>1, <3>1, <3>2, <3>4
        <3>7. Selecting' /\ Counting'
            BY <3>1
        <3>8. Closing'
            BY <2>1, <3>1, <3>5
        <3> QED BY <3>6, <3>7, <3>8 DEF AttemptInv
    <2>10. CASE Raise
        BY <2>1, <2>10 DEF AttemptInv, Raise
    <2>11. CASE UNCHANGED vars
        <3>1. UNCHANGED <<step, prompt, basket, sale, real, window, scene, episode, count, answer, verdict>>
            BY <2>11 DEF vars
        <3>2. Judged' = Judged
            BY <3>1 DEF Judged
        <3> HIDE DEF Judged
        <3>3. TypeOK' /\ Planned' /\ Unplanned' /\ Filmed'
            BY <2>1, <3>1
        <3>4. Selecting' /\ Counting'
            BY <2>1, <3>1
        <3>5. Closing'
            BY <2>1, <3>1, <3>2
        <3> QED BY <3>3, <3>4, <3>5 DEF AttemptInv
    <2> QED BY <2>2, <2>3, <2>4, <2>5, <2>6, <2>7, <2>8, <2>9, <2>10, <2>11 DEF Next
<1> QED BY <1>1, <1>2, PTL DEF Spec

\* Every variable holds a value of its kind, whatever the scenes, answers and bounds.
THEOREM TypeCorrect == Spec => []TypeOK
<1>1. AttemptInv => TypeOK
    BY DEF AttemptInv
<1> QED BY <1>1, AttemptInvariant, PTL

-----------------------------------------------------------------------------
(* VERIFIED on evidence.                                                   *)

\* An episode that passes its gate is a visit that was seen.
LEMMA VisitSeen ==
    ASSUME scene \in Scenes \union {None}, sale \in Frames, episode = Episode(TracksOf(scene), sale),
           ~ episode.ambiguous, episode.covered
    PROVE  scene # None /\ OneVisit(sale)
<1>1. scene # None /\ scene \in Scenes /\ TracksOf(scene) \in Seq(Exported(scene))
    BY TracksOfType, NoEpisode
<1>2. \E from, to \in SeenOf(scene, "audit", Labels \ {"receipt"}) :
            /\ from < to /\ to - from <= MaxEpisode
            /\ from - Tolerance <= sale /\ sale <= to + Tolerance
    <2>0. PICK s \in Scenes : s = scene
        BY <1>1
    <2>1. PICK q \in Seq(Exported(s)), at \in Frames : q = TracksOf(scene) /\ at = sale
        BY <1>1, <2>0
    <2>2. ~ Episode(q, at).ambiguous /\ Episode(q, at).covered
        BY <2>0, <2>1
    <2>3. \E from, to \in SeenOf(s, "audit", Labels \ {"receipt"}) :
            /\ from < to /\ to - from <= MaxEpisode
            /\ from - Tolerance <= at /\ at <= to + Tolerance
        BY <2>2, EpisodeVisit
    <2> QED BY <2>0, <2>1, <2>3
<1>3. SeenIn("audit", Labels \ {"receipt"}) = SeenOf(scene, "audit", Labels \ {"receipt"})
    BY DEF SeenIn, SeenOf
<1>4. OneVisit(sale)
    BY <1>2, <1>3 DEF OneVisit
<1> QED BY <1>1, <1>4

\* A track at a zone SAM 3 says nothing of is one that Falcon saw there.
LEMMA HandedOver ==
    ASSUME scene \in Scenes \union {None}, ItemAtCounter(TracksOf(scene)), CustomerSeen(TracksOf(scene))
    PROVE  /\ scene # None
           /\ SeenIn("customer", {"person"}) # {} /\ SeenIn("counter", PhysicalLabels) # {}
<1>1. scene # None /\ scene \in Scenes /\ TracksOf(scene) \in Seq(Exported(scene))
    BY TracksOfType DEF ItemAtCounter
<1>2. PICK q \in Seq(Exported(scene)) : q = TracksOf(scene)
    BY <1>1
<1>3. \A i \in DOMAIN q : q[i] \in Exported(scene)
    BY LenProperties
<1>4. PICK t \in Exported(scene) : Physical(t) /\ "counter" \in t.zones
    BY <1>2, <1>3 DEF ItemAtCounter
<1>5. PICK u \in Exported(scene) : u.label = "person" /\ "customer" \in u.zones
    BY <1>2, <1>3 DEF CustomerSeen
<1>6. t.first \in SeenOf(scene, "counter", {t.label}) /\ u.first \in SeenOf(scene, "customer", {"person"})
    BY <1>4, <1>5 DEF Exported
<1>7. t.label \in PhysicalLabels
    <2>1. t.by \in {"track", "sam3_obj"} /\ (t.by = "sam3_obj" => t.zones = {"audit"})
        BY DEF Exported
    <2>2. t.by = "track"
        BY <1>4, <2>1
    <2> QED BY <1>4, <2>2 DEF Physical
<1>8. t.first \in SeenOf(scene, "counter", PhysicalLabels)
    BY <1>6, <1>7 DEF SeenOf
<1>9. \A zone, labels : SeenIn(zone, labels) = SeenOf(scene, zone, labels)
    BY DEF SeenIn, SeenOf
<1> QED BY <1>1, <1>6, <1>8, <1>9

\* analyze_case closes a case VERIFIED only on a visit, a customer, items that detectors saw
\* and an answer that passes the gates of its prompt, whatever the scenes and answers.
THEOREM VerdictsAreBacked == Spec => []VerifiedBacked
<1>1. AttemptInv => VerifiedBacked
    <2> SUFFICES ASSUME AttemptInv, step = "closed", verdict.outcome = "VERIFIED"
                 PROVE  VerifiedBacked
        BY DEF VerifiedBacked
    <2>1. TypeOK /\ Planned /\ Closing
        BY DEF AttemptInv
    <2>2. prompt \in Prompts /\ prompt # None /\ sale \in Frames
        BY <2>1, AnalysisAssumption DEF Planned
    <2>3. /\ verdict = Judged /\ window = "SUCCEEDED"
          /\ episode = None \/ episode = Episode(TracksOf(scene), sale)
        BY <2>1 DEF Closing
    <2>4. /\ scene \in Scenes \union {None} /\ basket \in Nat
          /\ count # None => count.min \in Nat /\ count.max \in Nat /\ count.min <= count.max
          /\ answer \in Answers[prompt] \union {Error, None}
        BY <2>1, <2>2, AnalysisAssumption DEF TypeOK
    <2>5. CASE prompt = "v2"
        <3>1. answer \in Answers["v2"] \union {Error, None} /\ Judged = Decide2(Parsed2(answer), episode, count, basket)
            BY <2>4, <2>5 DEF Judged
        <3>2. /\ episode # None /\ ~ episode.ambiguous /\ episode.covered
              /\ answer \notin {Error, None} /\ answer.sure /\ answer.usable /\ ~ answer.missing
              /\ ~ answer.extra /\ answer.same = "yes"
              /\ \/ answer.count = "yes"
                 \/ /\ basket > 0 /\ count # None /\ count.min = count.max
                    /\ basket \in count.min - 1 .. count.max + 1
            <4>1. Decide2(Parsed2(answer), episode, count, basket).outcome = "VERIFIED"
                BY <2>3, <3>1
            <4> QED BY <2>4, <3>1, <4>1, Verified2
        <3>3. scene # None /\ OneVisit(sale)
            BY <2>2, <2>3, <2>4, <3>2, VisitSeen
        <3> QED BY <2>3, <2>5, <3>2, <3>3 DEF VerifiedBacked
    <2>6. CASE prompt = "v1"
        <3>1. answer \in Answers["v1"] \union {Error, None} /\ Judged = Decide1(Parsed1(answer), episode)
            BY <2>4, <2>6 DEF Judged
        <3>2. /\ episode # None /\ ~ episode.ambiguous /\ episode.covered
              /\ answer \notin {Error, None} /\ answer.sure /\ answer.usable /\ ~ answer.missing
              /\ ~ answer.extra /\ answer.match = "yes"
            <4>1. Decide1(Parsed1(answer), episode).outcome = "VERIFIED"
                BY <2>3, <3>1
            <4> QED BY <3>1, <4>1, Verified1
        <3>3. scene # None /\ OneVisit(sale)
            BY <2>2, <2>3, <2>4, <3>2, VisitSeen
        <3> QED BY <2>3, <2>6, <3>2, <3>3 DEF VerifiedBacked
    <2>7. CASE prompt = "legacy"
        <3>1. answer \in Answers["legacy"] \union {Error, None} /\ Judged = DecideLegacy(answer, TracksOf(scene))
            BY <2>4, <2>7 DEF Judged
        <3>2. /\ ItemAtCounter(TracksOf(scene)) /\ CustomerSeen(TracksOf(scene))
              /\ answer \notin {Error, None} /\ answer.sure /\ answer.handover
            <4>1. DecideLegacy(answer, TracksOf(scene)).outcome = "VERIFIED"
                BY <2>3, <3>1
            <4> QED BY <3>1, <4>1, VerifiedLegacy
        <3>3. /\ scene # None
              /\ SeenIn("customer", {"person"}) # {} /\ SeenIn("counter", PhysicalLabels) # {}
            BY <2>4, <3>2, HandedOver
        <3> QED BY <2>3, <2>7, <3>2, <3>3 DEF VerifiedBacked
    <2> QED BY <2>2, <2>5, <2>6, <2>7 DEF Prompts
<1> QED BY <1>1, AttemptInvariant, PTL

-----------------------------------------------------------------------------
(* The detections of SAM 3.                                                *)

\* What Listed has, frame by frame.
ListedTo(g, D) ==
    g = [n \in 0 .. Horizon + 1 |->
            IF n = 0 THEN <<>> ELSE g[n - 1] \o SetToSeq({d \in D : d.frame = n - 1})]

\* A finite number of detections in each frame are listed, and nothing else is.
LEMMA ListedIs ==
    ASSUME NEW D, \A f \in Frames : IsFiniteSet({d \in D : d.frame = f})
    PROVE  /\ Listed(D) \in Seq(D)
           /\ \A d \in D : d.frame \in Frames => \E i \in 1..Len(Listed(D)) : Listed(D)[i] = d
<1>1. PICK N \in Nat : N = Horizon + 1 /\ \A n \in 1..N : n - 1 \in Frames
    BY EvidenceAssumption DEF Frames
<1> DEFINE at(n) == {d \in D : d.frame = n - 1}
<1>2. ASSUME NEW n \in 1..N
      PROVE  /\ SetToSeq(at(n)) \in Seq(D)
             /\ \A d \in at(n) : \E i \in 1..Len(SetToSeq(at(n))) : SetToSeq(at(n))[i] = d
    <2>1. PICK A : A = at(n) OBVIOUS
    <2>2. IsFiniteSet(A) /\ A \subseteq D BY <1>1, <2>1
    <2>3. /\ SetToSeq(A) \in Seq(A) /\ Len(SetToSeq(A)) = Cardinality(A)
          /\ \A d \in A : \E i \in 1..Cardinality(A) : SetToSeq(A)[i] = d
        BY <2>2, SetToSeqIs
    <2>4. SetToSeq(A) \in Seq(D) BY <2>2, <2>3
    <2> QED BY <2>1, <2>3, <2>4
<1> HIDE DEF at
<1> DEFINE F == [n \in 1..N |-> [q \in Seq(D) |-> q \o SetToSeq(at(n))]]
<1>3. \A n \in 1..N : \A q \in Seq(D) : q \o SetToSeq(at(n)) \in Seq(D)
    BY <1>2, ConcatProperties
<1>4. \E g : ListedTo(g, D)
    <2>1. F \in StepsOf(N, Seq(D))
        BY <1>3 DEF StepsOf
    <2>2. PICK Q : Q = Seq(D) OBVIOUS
    <2>3. Solutions(N, Q, <<>>, F) # {}
        <3>1. <<>> \in Q BY <2>2
        <3>2. F \in StepsOf(N, Q) BY <2>1, <2>2
        <3> HIDE DEF F
        <3> QED BY <3>1, <3>2, Recursion
    <2>4. PICK g \in [0..N -> Seq(D)] : g[0] = <<>> /\ \A n \in 1..N : g[n] = F[n][g[n - 1]]
        BY <2>2, <2>3 DEF Solutions
    <2>5. ASSUME NEW n \in 0..N
          PROVE  g[n] = IF n = 0 THEN <<>> ELSE g[n - 1] \o SetToSeq(at(n))
        <3>1. CASE n = 0 BY <2>4, <3>1
        <3>2. CASE n # 0
            <4>1. n \in 1..N /\ n - 1 \in 0..N BY <3>2
            <4>2. g[n - 1] \in Seq(D) BY <2>4, <4>1
            <4> QED BY <2>4, <3>2, <4>1, <4>2
        <3> QED BY <3>1, <3>2
    <2>6. g = [n \in 0..N |-> g[n]]
        BY <2>4
    <2> QED BY <1>1, <2>5, <2>6 DEF ListedTo, at
<1>5. PICK g : ListedTo(g, D) /\ Listed(D) = g[N]
    BY <1>1, <1>4 DEF Listed, ListedTo
<1>6. g[0] = <<>>
    <2>1. 0 \in 0..N OBVIOUS
    <2> QED BY <1>1, <1>5, <2>1 DEF ListedTo
<1>7. ASSUME NEW n \in 1..N PROVE g[n] = g[n - 1] \o SetToSeq(at(n))
    <2>1. n \in 0..N /\ n # 0 OBVIOUS
    <2> QED BY <1>1, <1>5, <2>1 DEF ListedTo, at
<1> DEFINE Has(q, d) == \E i \in 1..Len(q) : q[i] = d
           T == {n \in 0..N : g[n] \in Seq(D) /\ \A d \in D : \A m \in 1..n : d \in at(m) => Has(g[n], d)}
<1>8. ASSUME NEW p \in Seq(D), NEW q \in Seq(D), NEW d
      PROVE  Has(p, d) \/ Has(q, d) => Has(p \o q, d)
    <2>0. Len(p) \in Nat /\ Len(q) \in Nat /\ Len(p \o q) = Len(p) + Len(q)
        BY ConcatProperties, LenProperties
    <2>1. ASSUME NEW i \in 1..Len(p), p[i] = d PROVE Has(p \o q, d)
        <3>1. i \in 1..Len(p \o q) /\ (p \o q)[i] = d BY <2>0, <2>1, ConcatProperties
        <3> QED BY <3>1
    <2>2. ASSUME NEW i \in 1..Len(q), q[i] = d PROVE Has(p \o q, d)
        <3>1. PICK j : j = Len(p) + i OBVIOUS
        <3>2. j \in 1..Len(p) + Len(q) /\ ~(j <= Len(p)) /\ j - Len(p) = i BY <2>0, <3>1
        <3>3. (p \o q)[j] = q[j - Len(p)] BY <3>2, ConcatProperties
        <3> QED BY <2>0, <2>2, <3>2, <3>3
    <2> QED BY <2>1, <2>2
<1>9. \A n \in 0..N : n \in T
    <2> HIDE DEF Has
    <2>1. 0 \in T
        <3>1. g[0] \in Seq(D) BY <1>6
        <3>2. 0 \in 0..N /\ 1..0 = {} OBVIOUS
        <3> QED BY <3>1, <3>2
    <2>2. ASSUME NEW n \in 1..N, n - 1 \in T PROVE n \in T
        <3>1. g[n - 1] \in Seq(D) /\ \A d \in D : \A m \in 1..(n - 1) : d \in at(m) => Has(g[n - 1], d)
            BY <2>2
        <3>2. g[n] \in Seq(D) BY <1>3, <1>7, <3>1
        <3>3. ASSUME NEW d \in D, NEW m \in 1..n, d \in at(m) PROVE Has(g[n], d)
            <4>1. CASE m = n
                <5>1. Has(SetToSeq(at(n)), d) BY <1>2, <3>3, <4>1 DEF Has
                <5> QED BY <1>2, <1>7, <1>8, <3>1, <5>1
            <4>2. CASE m # n
                <5>1. m \in 1..(n - 1) BY <4>2
                <5>2. Has(g[n - 1], d) BY <3>1, <3>3, <5>1
                <5> QED BY <1>2, <1>7, <1>8, <3>1, <5>2
            <4> QED BY <4>1, <4>2
        <3>4. n \in 0..N OBVIOUS
        <3> QED BY <3>2, <3>3, <3>4
    <2> HIDE DEF T
    <2>3. \A n \in 1..N : n - 1 \in T => n \in T BY <2>2
    <2> QED BY ONLY N \in Nat, <2>1, <2>3, Staircase
<1>10. N \in T
    BY <1>9
<1>11. \A d \in D : d.frame \in Frames => d.frame + 1 \in 1..N /\ d \in at(d.frame + 1)
    BY <1>1, EvidenceAssumption DEF at, Frames
<1> QED BY <1>5, <1>10, <1>11

\* In each frame SAM 3 has a finite number of detections.
LEMMA Sam3Finite ==
    ASSUME NEW s \in Scenes, NEW f
    PROVE  IsFiniteSet({d \in Sam3(s) : d.frame = f})
<1>1. PICK A : A = {o \in s.sam3 : f \in DOMAIN o.at}
    OBVIOUS
<1>2. IsFiniteSet(A)
    <2>1. IsFiniteSet(s.sam3) BY ScenesAssumption
    <2>2. A \in SUBSET s.sam3 BY <1>1
    <2> QED BY <2>1, <2>2, FS_Subset
<1>3. PICK h : h = [o \in A |-> [label |-> o.label, spot |-> o.at[f], frame |-> f, object |-> o.num]]
    OBVIOUS
<1>4. PICK B : B = {[label |-> o.label, spot |-> o.at[f], frame |-> f, object |-> o.num] : o \in A}
    OBVIOUS
<1>5. h \in Surjection(A, B)
    BY <1>3, <1>4 DEF Surjection
<1>6. IsFiniteSet(B)
    BY <1>2, <1>5, FS_Surjection
<1>7. {d \in Sam3(s) : d.frame = f} \subseteq B
    <2> SUFFICES ASSUME NEW d \in Sam3(s), d.frame = f PROVE d \in B
        OBVIOUS
    <2>1. PICK o \in s.sam3 : \E k \in DOMAIN o.at :
                d = [label |-> o.label, spot |-> o.at[k], frame |-> k, object |-> o.num]
        BY DEF Sam3
    <2>2. f \in DOMAIN o.at /\ d = [label |-> o.label, spot |-> o.at[f], frame |-> f, object |-> o.num]
        BY <2>1
    <2> QED BY <1>1, <1>4, <2>1, <2>2
<1> QED BY <1>6, <1>7, FS_Subset

\* What SAM 3 alone saw is among the detections.
LEMMA AllDetected ==
    ASSUME NEW s \in Scenes, \A f \in Frames : s.falcon[f] = {}, NEW d \in Sam3(s), d.frame \in Frames
    PROVE  d \in Range(Detections(s))
<1>1. Falcon(s) = {}
    BY DEF Falcon
<1>2. PICK p \in Seq(Falcon(s)) : p = Listed(Falcon(s))
    <2>1. \A f \in Frames : IsFiniteSet({e \in Falcon(s) : e.frame = f})
        <3>1. \A f \in Frames : {e \in Falcon(s) : e.frame = f} = {} BY <1>1
        <3> QED BY <3>1, FS_EmptySet
    <2> QED BY <2>1, ListedIs
<1>3. p = <<>>
    BY <1>1, <1>2
<1>4. PICK q \in Seq(Sam3(s)) : q = Listed(Sam3(s)) /\ \E i \in 1..Len(q) : q[i] = d
    BY Sam3Finite, ListedIs
<1>5. Detections(s) = q
    BY <1>2, <1>3, <1>4 DEF Detections
<1> QED BY <1>4, <1>5, LenProperties DEF Range

-----------------------------------------------------------------------------
(* No track is in two groups.                                              *)

\* The identity of a track, and tracks that have different ones.
Identity(t) == <<t.by, t.num>>
Distinct(q) == \A i, j \in DOMAIN q : Identity(q[i]) = Identity(q[j]) => i = j

\* No identity is in two groups of a sequence; and every one there is in the set E.
Disjoint(q) == \A k, l \in DOMAIN q : k # l => q[k].ids \intersect q[l].ids = {}
Within(q, E) == \A k \in DOMAIN q : q[k].ids \subseteq E

\* The seeds of some labels: one for each track with one of them.
LEMMA SeedsApart ==
    ASSUME NEW s, NEW dets, NEW q \in Seq(Exported(s)), Distinct(q), NEW labels
    PROVE  LET sown == Seeds(OfLabels(q, labels), dets)
           IN  /\ sown \in Seq(Group(DrawnAt(s, dets))) /\ Disjoint(sown)
               /\ \A k \in DOMAIN sown :
                    \E i \in DOMAIN q : q[i].label \in labels /\ sown[k].ids = {Identity(q[i])}
<1>1. PICK I : I = {i \in DOMAIN q : q[i].label \in labels}
    OBVIOUS
<1>2. I \subseteq DOMAIN q
    BY <1>1
<1>3. PICK r \in Seq(Exported(s)) : /\ r = OfLabels(q, labels) /\ r = Selected(q, I)
    BY <1>1, OfLabelsType DEF OfLabels
<1>4. /\ Len(r) = Cardinality(I)
      /\ \A k \in 1..Len(r) : Nth(I, k) \in I /\ r[k] = q[Nth(I, k)]
      /\ \A k, l \in 1..Len(r) : Nth(I, k) = Nth(I, l) => k = l
    BY <1>2, <1>3, SelectedIs
<1>5. PICK sown \in Seq(Group(DrawnAt(s, dets))) : sown = Seeds(r, dets)
    BY SeedsType
<1>6. Len(sown) = Len(r) /\ \A k \in 1..Len(r) : sown[k] = Seed(r[k], dets)
    BY <1>5, SeedsType
<1>7. DOMAIN sown = 1..Len(r)
    BY <1>6, LenProperties
<1>8. \A k \in 1..Len(r) : sown[k].ids = {Identity(q[Nth(I, k)])}
    BY <1>4, <1>6 DEF Seed, Identity
<1>9. Disjoint(sown)
    <2> SUFFICES ASSUME NEW k \in 1..Len(r), NEW l \in 1..Len(r), k # l
                 PROVE  sown[k].ids \intersect sown[l].ids = {}
        BY <1>7 DEF Disjoint
    <2>1. Nth(I, k) # Nth(I, l) /\ Nth(I, k) \in DOMAIN q /\ Nth(I, l) \in DOMAIN q
        BY <1>2, <1>4
    <2>2. Identity(q[Nth(I, k)]) # Identity(q[Nth(I, l)])
        BY <2>1 DEF Distinct
    <2> QED BY <1>8, <2>2
<1>10. \A k \in DOMAIN sown :
            \E i \in DOMAIN q : q[i].label \in labels /\ sown[k].ids = {Identity(q[i])}
    BY <1>1, <1>4, <1>7, <1>8
<1> QED BY <1>3, <1>5, <1>9, <1>10

\* Nothing is in two places of a placement.
Apart(p, E) ==
    /\ Disjoint(p.pos) /\ Disjoint(p.extra) /\ Within(p.pos, E) /\ Within(p.extra, E)
    /\ \A k \in DOMAIN p.pos, l \in DOMAIN p.extra : p.pos[k].ids \intersect p.extra[l].ids = {}

\* Placing a group that shares nothing keeps it so.
LEMMA PlaceApart ==
    ASSUME NEW P, NEW p \in Placement(P), NEW x \in Group(P), NEW E, Apart(p, E),
           x.ids \intersect E = {}
    PROVE  Apart(PlaceGeneric(p, x), E \union x.ids)
<1> DEFINE fits == {i \in DOMAIN p.pos : Overlaps(p.pos[i], x)}
           joined == [i \in DOMAIN p.pos |-> IF i = Min(fits) THEN Join(p.pos[i], x) ELSE p.pos[i]]
<1>1. PICK pos \in Seq(Group(P)), extra \in Seq(Group(P)) : pos = p.pos /\ extra = p.extra
    BY DEF Placement
<1>2. /\ Disjoint(pos) /\ Disjoint(extra) /\ Within(pos, E) /\ Within(extra, E)
      /\ \A k \in DOMAIN pos, l \in DOMAIN extra : pos[k].ids \intersect extra[l].ids = {}
    BY <1>1 DEF Apart
<1>3. \A k \in DOMAIN pos : pos[k] \in Group(P)
    BY LenProperties
<1>4. CASE fits # {}
    <2>1. PICK m : m = Min(fits) OBVIOUS
    <2>2. PICK r : r = joined OBVIOUS
    <2>3. DOMAIN r = DOMAIN pos
        BY <1>1, <2>2
    <2>4. \A k \in DOMAIN pos : r[k].ids = IF k = m THEN pos[k].ids \union x.ids ELSE pos[k].ids
        <3> SUFFICES ASSUME NEW k \in DOMAIN pos
                     PROVE  r[k].ids = IF k = m THEN pos[k].ids \union x.ids ELSE pos[k].ids
            OBVIOUS
        <3>1. r[k] = IF k = m THEN Join(pos[k], x) ELSE pos[k]
            BY <1>1, <2>1, <2>2
        <3>2. Join(pos[k], x).ids = pos[k].ids \union x.ids
            BY <1>3 DEF Join, Group
        <3> QED BY <3>1, <3>2
    <2>5. Disjoint(r)
        <3> SUFFICES ASSUME NEW k \in DOMAIN pos, NEW l \in DOMAIN pos, k # l
                     PROVE  r[k].ids \intersect r[l].ids = {}
            BY <2>3 DEF Disjoint
        <3>1. pos[k].ids \intersect pos[l].ids = {} BY <1>2 DEF Disjoint
        <3>2. pos[k].ids \intersect x.ids = {} /\ pos[l].ids \intersect x.ids = {} BY <1>2 DEF Within
        <3> QED BY <2>4, <3>1, <3>2
    <2>6. Within(r, E \union x.ids) /\ Within(extra, E \union x.ids)
        BY <1>2, <2>3, <2>4 DEF Within
    <2>7. ASSUME NEW k \in DOMAIN pos, NEW l \in DOMAIN extra
          PROVE  r[k].ids \intersect extra[l].ids = {}
        <3>1. pos[k].ids \intersect extra[l].ids = {} BY <1>2
        <3>2. extra[l].ids \intersect x.ids = {} BY <1>2 DEF Within
        <3> QED BY <2>4, <3>1, <3>2
    <2>8. PICK t : t = [pos |-> r, extra |-> extra] OBVIOUS
    <2>9. PlaceGeneric(p, x) = t
        BY <1>1, <1>4, <2>2, <2>8 DEF PlaceGeneric
    <2>10. t.pos = r /\ t.extra = extra BY <2>8
    <2>11. Apart(t, E \union x.ids)
        BY <1>2, <2>3, <2>5, <2>6, <2>7, <2>10 DEF Apart
    <2> QED BY <2>9, <2>11
<1>5. CASE ~(fits # {})
    <2>1. PICK r : r = Append(extra, x) OBVIOUS
    <2>2. Len(extra) \in Nat /\ DOMAIN extra = 1..Len(extra)
        BY LenProperties
    <2>3. /\ DOMAIN r = 1..Len(extra) + 1
          /\ r[Len(extra) + 1] = x
          /\ \A k \in 1..Len(extra) : r[k] = extra[k]
        BY <2>1, <2>2, AppendProperties, LenProperties
    <2>4. \A k \in DOMAIN r : (k \in DOMAIN extra /\ r[k] = extra[k]) \/ (k = Len(extra) + 1 /\ r[k] = x)
        <3> SUFFICES ASSUME NEW k \in 1..Len(extra) + 1
                     PROVE  (k \in 1..Len(extra) /\ r[k] = extra[k]) \/ (k = Len(extra) + 1 /\ r[k] = x)
            BY <2>2, <2>3
        <3>1. CASE k = Len(extra) + 1 BY <2>3, <3>1
        <3>2. CASE k # Len(extra) + 1
            <4>1. k \in 1..Len(extra) BY <2>2, <3>2
            <4>2. \A i \in 1..Len(extra) : r[i] = extra[i] BY <2>3
            <4>3. r[k] = extra[k] BY ONLY <4>1, <4>2
            <4> QED BY <4>1, <4>3
        <3> QED BY <3>1, <3>2
    <2>5. \A l \in DOMAIN extra : extra[l].ids \intersect x.ids = {}
        BY <1>2 DEF Within
    <2>6. Disjoint(r)
        <3> SUFFICES ASSUME NEW k \in DOMAIN r, NEW l \in DOMAIN r, k # l
                     PROVE  r[k].ids \intersect r[l].ids = {}
            BY DEF Disjoint
        <3>1. CASE k \in DOMAIN extra /\ r[k] = extra[k] /\ l \in DOMAIN extra /\ r[l] = extra[l]
            BY <1>2, <3>1 DEF Disjoint
        <3>2. CASE k \in DOMAIN extra /\ r[k] = extra[k] /\ r[l] = x
            BY <2>5, <3>2
        <3>3. CASE r[k] = x /\ l \in DOMAIN extra /\ r[l] = extra[l]
            BY <2>5, <3>3
        <3> QED BY <2>4, <3>1, <3>2, <3>3
    <2>7. Within(pos, E \union x.ids) /\ Within(r, E \union x.ids)
        BY <1>2, <2>4 DEF Within
    <2>8. ASSUME NEW k \in DOMAIN pos, NEW l \in DOMAIN r
          PROVE  pos[k].ids \intersect r[l].ids = {}
        <3>1. pos[k].ids \intersect x.ids = {} BY <1>2 DEF Within
        <3> QED BY <1>2, <2>4, <3>1
    <2>9. PICK t : t = [pos |-> pos, extra |-> r] OBVIOUS
    <2>10. PlaceGeneric(p, x) = t
        BY <1>1, <1>5, <2>1, <2>9 DEF PlaceGeneric
    <2>11. t.pos = pos /\ t.extra = r BY <2>9
    <2>12. Apart(t, E \union x.ids)
        BY <1>2, <2>6, <2>7, <2>8, <2>11 DEF Apart
    <2> QED BY <2>10, <2>12
<1> QED BY <1>4, <1>5

\* No track is in two groups.
LEMMA GroupsApart ==
    ASSUME NEW s, NEW dets, NEW q \in Seq(Exported(s)), Distinct(q)
    PROVE  /\ Disjoint(ItemGroups(q, dets))
           /\ Within(ItemGroups(q, dets), {Identity(q[i]) : i \in DOMAIN q})
<1>1. PICK spec \in Seq(Group(DrawnAt(s, dets))) :
            /\ spec = Specific(q, dets) /\ Disjoint(spec)
            /\ \A k \in DOMAIN spec :
                    \E i \in DOMAIN q : q[i].label \in PosLines /\ spec[k].ids = {Identity(q[i])}
    BY SeedsApart DEF Specific
<1>2. PICK gen \in Seq(Group(DrawnAt(s, dets))) :
            /\ gen = Generic(q, dets) /\ Disjoint(gen)
            /\ \A k \in DOMAIN gen :
                    \E i \in DOMAIN q : q[i].label \in ItemLabels \ PosLines /\ gen[k].ids = {Identity(q[i])}
    BY SeedsApart DEF Generic
<1>3. PICK g :
            /\ g[0] = [pos |-> spec, extra |-> <<>>]
            /\ \A n \in 1..Len(gen) : g[n] = PlaceGeneric(g[n - 1], gen[n])
            /\ \A n \in 0..Len(gen) : g[n] \in Placement(DrawnAt(s, dets))
            /\ ItemGroups(q, dets) = g[Len(gen)].pos \o g[Len(gen)].extra
    <2>1. PICK h :
            /\ h[0] = [pos |-> Specific(q, dets), extra |-> <<>>]
            /\ \A n \in 1..Len(Generic(q, dets)) : h[n] = PlaceGeneric(h[n - 1], Generic(q, dets)[n])
            /\ \A n \in 0..Len(Generic(q, dets)) : h[n] \in Placement(DrawnAt(s, dets))
            /\ ItemGroups(q, dets) = h[Len(Generic(q, dets))].pos \o h[Len(Generic(q, dets))].extra
        BY ItemGroupsIs
    <2> QED BY <1>1, <1>2, <2>1
<1>4. PICK N \in Nat : N = Len(gen) /\ DOMAIN gen = 1..N /\ \A n \in 1..N : gen[n] \in Group(DrawnAt(s, dets))
    BY LenProperties
<1> DEFINE all == {Identity(q[i]) : i \in DOMAIN q}
           E(n) == {id \in all : \/ \E k \in DOMAIN spec : id \in spec[k].ids
                                 \/ \E m \in 1..n : id \in gen[m].ids}
           T == {n \in 0..N : Apart(g[n], E(n))}
<1>0. /\ \A k \in DOMAIN spec : spec[k].ids \subseteq all
      /\ \A m \in 1..N : gen[m].ids \subseteq all
    <2>1. ASSUME NEW i \in DOMAIN q PROVE {Identity(q[i])} \subseteq all
        OBVIOUS
    <2> HIDE DEF all
    <2>2. ASSUME NEW k \in DOMAIN spec PROVE spec[k].ids \subseteq all
        <3>1. PICK i \in DOMAIN q : spec[k].ids = {Identity(q[i])} BY <1>1
        <3> QED BY <2>1, <3>1
    <2>3. ASSUME NEW m \in 1..N PROVE gen[m].ids \subseteq all
        <3>1. PICK i \in DOMAIN q : gen[m].ids = {Identity(q[i])} BY <1>2, <1>4
        <3> QED BY <2>1, <3>1
    <2> QED BY <2>2, <2>3
<1>5. \A k \in DOMAIN spec, m \in 1..N : spec[k].ids \intersect gen[m].ids = {}
    <2> SUFFICES ASSUME NEW k \in DOMAIN spec, NEW m \in 1..N PROVE spec[k].ids \intersect gen[m].ids = {}
        OBVIOUS
    <2>1. PICK i \in DOMAIN q : q[i].label \in PosLines /\ spec[k].ids = {Identity(q[i])}
        BY <1>1
    <2>2. PICK j \in DOMAIN q : q[j].label \in ItemLabels \ PosLines /\ gen[m].ids = {Identity(q[j])}
        BY <1>2, <1>4
    <2>3. Identity(q[i]) # Identity(q[j])
        BY <2>1, <2>2 DEF Distinct
    <2> QED BY <2>1, <2>2, <2>3
<1>6. ASSUME NEW n \in 1..N PROVE gen[n].ids \intersect E(n - 1) = {} /\ E(n) = E(n - 1) \union gen[n].ids
    <2>1. \A m \in 1..(n - 1) : m \in 1..N /\ m # n
        OBVIOUS
    <2>2. \A m \in 1..(n - 1) : gen[m].ids \intersect gen[n].ids = {}
        BY <1>2, <1>4, <2>1 DEF Disjoint
    <2>3. 1..n = (1..(n - 1)) \union {n}
        OBVIOUS
    <2>4. gen[n].ids \intersect E(n - 1) = {}
        BY <1>5, <2>2
    <2>5. \A id : id \in E(n) <=> id \in E(n - 1) \union gen[n].ids
        BY <1>0, <2>3
    <2> HIDE DEF E
    <2> QED BY <2>4, <2>5
<1>7. 0 \in T
    <2>1. PICK p : p = g[0] OBVIOUS
    <2>2. p.pos = spec /\ p.extra = <<>> BY <1>3, <2>1
    <2>3. Within(spec, E(0)) BY <1>0 DEF Within
    <2>4. DOMAIN <<>> = {} OBVIOUS
    <2> HIDE DEF E
    <2>5. Apart(p, E(0))
        BY <1>1, <2>2, <2>3, <2>4 DEF Apart, Disjoint, Within
    <2> QED BY <2>1, <2>5
<1>8. ASSUME NEW n \in 1..N, n - 1 \in T PROVE n \in T
    <2>1. PICK p \in Placement(DrawnAt(s, dets)) : p = g[n - 1]
        <3>1. n - 1 \in 0..N OBVIOUS
        <3> QED BY <1>3, <1>4, <3>1
    <2>2. PICK x \in Group(DrawnAt(s, dets)) : x = gen[n]
        BY <1>4
    <2>3. PICK F : F = E(n - 1)
        OBVIOUS
    <2> HIDE DEF E
    <2>4. Apart(p, F) /\ x.ids \intersect F = {} /\ E(n) = F \union x.ids
        BY <1>6, <1>8, <2>1, <2>2, <2>3
    <2>5. Apart(PlaceGeneric(p, x), F \union x.ids)
        BY <2>4, PlaceApart
    <2>6. g[n] = PlaceGeneric(p, x)
        BY <1>3, <1>4, <2>1, <2>2
    <2>7. n \in 0..N OBVIOUS
    <2>8. Apart(g[n], E(n)) BY <2>4, <2>5, <2>6
    <2> QED BY <2>7, <2>8
<1>9. Apart(g[N], E(N))
    <2> HIDE DEF T
    <2>1. 0 \in T BY <1>7
    <2>2. \A n \in 1..N : n - 1 \in T => n \in T BY <1>8
    <2>3. \A n \in 0..N : n \in T BY ONLY N \in Nat, <2>1, <2>2, Staircase
    <2>4. N \in T BY <2>3
    <2> QED BY <2>4 DEF T
<1>10. E(N) \subseteq all
    OBVIOUS
<1>11. PICK p \in Placement(DrawnAt(s, dets)) : p = g[N]
    BY <1>3, <1>4
<1>12. PICK pos \in Seq(Group(DrawnAt(s, dets))), extra \in Seq(Group(DrawnAt(s, dets))) :
            pos = p.pos /\ extra = p.extra
    BY DEF Placement
<1> HIDE DEF E
<1>13. /\ Disjoint(pos) /\ Disjoint(extra) /\ Within(pos, E(N)) /\ Within(extra, E(N))
       /\ \A k \in DOMAIN pos, l \in DOMAIN extra : pos[k].ids \intersect extra[l].ids = {}
    BY <1>9, <1>11, <1>12 DEF Apart
<1>14. PICK r : r = pos \o extra
    OBVIOUS
<1>15. \A k \in DOMAIN r : \/ k \in DOMAIN pos /\ r[k] = pos[k]
                           \/ /\ k - Len(pos) \in DOMAIN extra /\ r[k] = extra[k - Len(pos)]
                              /\ k \in Nat /\ Len(pos) \in Nat
    <2>1. /\ DOMAIN r = 1..Len(pos) + Len(extra) /\ Len(pos) \in Nat /\ Len(extra) \in Nat
          /\ DOMAIN pos = 1..Len(pos) /\ DOMAIN extra = 1..Len(extra)
        BY <1>14, ConcatProperties, LenProperties
    <2> SUFFICES ASSUME NEW k \in 1..Len(pos) + Len(extra)
                 PROVE  \/ k \in DOMAIN pos /\ r[k] = pos[k]
                        \/ /\ k - Len(pos) \in DOMAIN extra /\ r[k] = extra[k - Len(pos)]
                           /\ k \in Nat /\ Len(pos) \in Nat
        BY <2>1
    <2>2. r[k] = IF k <= Len(pos) THEN pos[k] ELSE extra[k - Len(pos)]
        BY <1>14, <2>1, ConcatProperties
    <2>3. k <= Len(pos) => k \in 1..Len(pos)
        BY <2>1
    <2>4. ~(k <= Len(pos)) => k - Len(pos) \in 1..Len(extra)
        BY <2>1
    <2> QED BY <2>1, <2>2, <2>3, <2>4
<1>16. Disjoint(r)
    <2> SUFFICES ASSUME NEW k \in DOMAIN r, NEW l \in DOMAIN r, k # l
                 PROVE  r[k].ids \intersect r[l].ids = {}
        BY DEF Disjoint
    <2>1. CASE k \in DOMAIN pos /\ r[k] = pos[k] /\ l \in DOMAIN pos /\ r[l] = pos[l]
        BY <1>13, <2>1 DEF Disjoint
    <2>2. CASE k \in DOMAIN pos /\ r[k] = pos[k] /\ l - Len(pos) \in DOMAIN extra /\ r[l] = extra[l - Len(pos)]
        BY <1>13, <2>2
    <2>3. CASE l \in DOMAIN pos /\ r[l] = pos[l] /\ k - Len(pos) \in DOMAIN extra /\ r[k] = extra[k - Len(pos)]
        BY <1>13, <2>3
    <2>4. CASE /\ k - Len(pos) \in DOMAIN extra /\ r[k] = extra[k - Len(pos)] /\ k \in Nat /\ Len(pos) \in Nat
               /\ l - Len(pos) \in DOMAIN extra /\ r[l] = extra[l - Len(pos)] /\ l \in Nat
        <3>1. k - Len(pos) # l - Len(pos) BY <2>4
        <3> QED BY <1>13, <2>4, <3>1 DEF Disjoint
    <2> QED BY <1>15, <2>1, <2>2, <2>3, <2>4
<1>17. Within(r, {Identity(q[i]) : i \in DOMAIN q})
    BY <1>10, <1>13, <1>15 DEF Within
<1>18. ItemGroups(q, dets) = r
    BY <1>3, <1>4, <1>11, <1>12, <1>14
<1> QED BY <1>16, <1>17, <1>18

-----------------------------------------------------------------------------
(* No two groups that were seen apart are in one container.                *)

\* The candidates are some of the groups.
LEMMA CandidatesApart ==
    ASSUME NEW X, NEW q \in Seq(X), NEW E, Disjoint(q), Within(q, E)
    PROVE  Disjoint(Candidates(q)) /\ Within(Candidates(q), E)
<1>1. PICK I : I = {i \in DOMAIN q : q[i].labels \intersect ContainerFamily # {}}
    OBVIOUS
<1>2. I \subseteq DOMAIN q
    BY <1>1
<1>3. PICK r \in Seq(X) : r = Candidates(q) /\ r = Selected(q, I)
    BY <1>1, <1>2, SelectedIs DEF Candidates
<1>4. DOMAIN r = 1..Cardinality(I)
    BY <1>2, <1>3, SelectedIs, LenProperties
<1>5. /\ \A k \in DOMAIN r : Nth(I, k) \in DOMAIN q /\ r[k] = q[Nth(I, k)]
      /\ \A k, l \in DOMAIN r : Nth(I, k) = Nth(I, l) => k = l
    BY <1>2, <1>3, <1>4, SelectedIs
<1>6. Within(r, E)
    BY <1>5 DEF Within
<1>7. Disjoint(r)
    <2> SUFFICES ASSUME NEW k \in DOMAIN r, NEW l \in DOMAIN r, k # l
                 PROVE  r[k].ids \intersect r[l].ids = {}
        BY DEF Disjoint
    <2>1. Nth(I, k) # Nth(I, l) BY <1>5
    <2> QED BY <1>5, <2>1 DEF Disjoint
<1> QED BY <1>3, <1>6, <1>7

\* Where SAM 3 alone reports, the tracks are its objects, each with an identity.
LEMMA ObjectTracks ==
    ASSUME NEW s \in Scenes, \A f \in Frames : s.falcon[f] = {}
    PROVE  /\ Tracks(s) \in Seq(Exported(s)) /\ Distinct(Tracks(s))
           /\ \A i \in DOMAIN Tracks(s) : \E n \in Nat : Identity(Tracks(s)[i]) = <<"sam3_obj", n>>
<1>1. FalconTracks(s) = <<>>
    <2>1. Tracked(s) = <<>>
        BY TrackedType
    <2>2. PICK t \in Seq(Exported(s)) : t = FalconTracks(s)
        BY FalconTracksType
    <2>3. DOMAIN t = {}
        <3>1. PICK S : S = {i \in DOMAIN Tracked(s) : Open(Tracked(s)[i]) \/ Tracked(s)[i].hits >= ConfirmHits}
            OBVIOUS
        <3>2. S = {} BY <2>1, <3>1
        <3>3. Cardinality(S) = 0 BY <3>2, FS_EmptySet
        <3>4. DOMAIN t = 1..Cardinality(S) BY <2>2, <3>1 DEF FalconTracks, Selected
        <3> QED BY <3>3, <3>4
    <2> QED BY <2>2, <2>3
<1>2. PICK q \in Seq(Exported(s)) : q = Tracks(s) /\ q = Sam3Tracks(s)
    BY <1>1, Sam3TracksType DEF Tracks
<1>3. PICK nums : nums = {o.num : o \in s.sam3}
    OBVIOUS
<1>4. /\ IsFiniteSet(nums) /\ nums \subseteq Nat /\ Cardinality(nums) \in Nat
      /\ \A k \in 1..Cardinality(nums) :
            /\ Nth(nums, k) \in Nat
            /\ (CHOOSE o \in s.sam3 : o.num = Nth(nums, k)).num = Nth(nums, k)
    BY <1>3, ObjectNumbers
<1>5. /\ DOMAIN q = 1..Cardinality(nums)
      /\ \A k \in 1..Cardinality(nums) :
            q[k].by = "sam3_obj" /\ q[k].num = (CHOOSE o \in s.sam3 : o.num = Nth(nums, k)).num
    <2>1. PICK listed : listed = Listed(Sam3(s))
        OBVIOUS
    <2> DEFINE refs(o) == {i \in DOMAIN listed : listed[i].object = o.num}
               record(o) == [by |-> "sam3_obj", num |-> o.num, label |-> o.label, first |-> Min(DOMAIN o.at),
                             last |-> Max(DOMAIN o.at), zones |-> {"audit"}, refs |-> refs(o)]
               object(k) == CHOOSE o \in s.sam3 : o.num = Nth(nums, k)
    <2>2. Sam3Tracks(s) = [k \in 1..Cardinality(nums) |-> record(object(k))]
        BY <1>3, <2>1 DEF Sam3Tracks
    <2>3. \A o : record(o).by = "sam3_obj" /\ record(o).num = o.num
        OBVIOUS
    <2> HIDE DEF record
    <2> QED BY <1>2, <2>2, <2>3
<1>6. \A k \in DOMAIN q : Identity(q[k]) = <<"sam3_obj", Nth(nums, k)>>
    BY <1>4, <1>5 DEF Identity
<1>7. Distinct(q)
    <2> SUFFICES ASSUME NEW i \in DOMAIN q, NEW j \in DOMAIN q, Identity(q[i]) = Identity(q[j])
                 PROVE  i = j
        BY DEF Distinct
    <2>1. Nth(nums, i) = Nth(nums, j) BY <1>6
    <2>2. /\ Cardinality({m \in nums : m < Nth(nums, i)}) = i - 1
          /\ Cardinality({m \in nums : m < Nth(nums, j)}) = j - 1
        <3>1. i \in 1..Cardinality(nums) /\ j \in 1..Cardinality(nums) BY <1>5
        <3>2. IsFiniteSet(nums) /\ nums \subseteq Nat BY <1>4
        <3> QED BY ONLY <3>1, <3>2, NthIs
    <2>3. i - 1 = j - 1 BY <2>1, <2>2
    <2>4. i \in Nat /\ j \in Nat BY <1>4, <1>5
    <2> QED BY <2>3, <2>4
<1> QED BY <1>2, <1>4, <1>5, <1>6, <1>7

\* Two objects seen apart, each in a candidate of its own, are a conflict.
LEMMA ConflictOf ==
    ASSUME NEW cands, NEW dets, NEW d \in Range(dets), NEW e \in Range(dets),
           d.object # 0, e.object # 0, d.frame = e.frame, d.spot # e.spot,
           NEW a \in Nat, NEW b \in Nat, a # b,
           CandidateOf(d.object, cands) = {a}, CandidateOf(e.object, cands) = {b}
    PROVE  {a, b} \in Conflicts(cands, dets)
<1>1. Max({a}) = a /\ Max({b}) = b
    <2>1. \A x \in Nat : IsFiniteSet({x}) BY FS_Singleton
    <2>2. \A x \in Nat : Max({x}) \in {x}
        <3> SUFFICES ASSUME NEW x \in Nat PROVE Max({x}) \in {x} OBVIOUS
        <3>1. {x} \subseteq Nat /\ {x} # {} OBVIOUS
        <3> QED BY <2>1, <3>1, MaxIs
    <2> QED BY <2>2
<1> DEFINE seen == {x \in Range(dets) : x.object # 0 /\ CandidateOf(x.object, cands) # {}}
           whose(x) == Max(CandidateOf(x.object, cands))
           apart(x) == {y \in seen : y.frame = x.frame /\ y.spot # x.spot /\ whose(y) # whose(x)}
<1>2. whose(d) = a /\ whose(e) = b
    BY <1>1
<1>3. d \in seen /\ e \in seen
    OBVIOUS
<1>4. Conflicts(cands, dets) = UNION {{{whose(x), whose(y)} : y \in apart(x)} : x \in seen}
    BY DEF Conflicts
<1> HIDE DEF seen, whose
<1>5. e \in apart(d)
    BY <1>2, <1>3
<1> HIDE DEF apart
<1>6. {whose(d), whose(e)} \in {{whose(d), whose(y)} : y \in apart(d)}
    BY <1>5
<1> QED BY <1>2, <1>3, <1>4, <1>6

\* Where SAM 3 alone reports, no two groups of a container were seen apart.
LEMMA NoneApartIn ==
    ASSUME scene \in Scenes, \A f \in Frames : scene.falcon[f] = {},
           NEW c \in Count(Tracks(scene), Detections(scene)).containers
    PROVE  NoneApart(c)
<1>1. PICK q \in Seq(Exported(scene)) : q = Tracks(scene)
    BY ObjectTracks
<1>0. PICK dets : dets = Detections(scene)
    OBVIOUS
<1>2. Distinct(q) /\ \A i \in DOMAIN q : \E n \in Nat : Identity(q[i]) = <<"sam3_obj", n>>
    BY <1>1, ObjectTracks
<1>3. PICK D : D = Group(DrawnAt(scene, dets))
    OBVIOUS
<1>4. PICK groups \in Seq(D) : groups = ItemGroups(q, dets)
    BY <1>3, ItemGroupsIs
<1>5. PICK E : E = {Identity(q[i]) : i \in DOMAIN q}
    OBVIOUS
<1>6. Disjoint(groups) /\ Within(groups, E)
    BY <1>2, <1>4, <1>5, GroupsApart
<1>7. PICK cands \in Seq(D) : cands = Candidates(groups)
    BY CandidatesType
<1>8. Disjoint(cands) /\ Within(cands, E)
    BY <1>6, <1>7, CandidatesApart
<1>9. PICK conflicts : conflicts = Conflicts(cands, dets)
    OBVIOUS
<1>10. PICK clusters \in Seq(Agreeing(Len(cands), conflicts)) : clusters = Clusters(cands, dets)
    BY <1>9, ClustersType
<1>11. c \in {{cands[i].ids : i \in clusters[k]} : k \in DOMAIN clusters}
    <2>1. Count(q, dets).containers = {{cands[i].ids : i \in clusters[k]} : k \in DOMAIN clusters}
        BY <1>4, <1>7, <1>10 DEF Count
    <2> QED BY <1>0, <1>1, <2>1
<1>12. PICK k \in DOMAIN clusters : c = {cands[i].ids : i \in clusters[k]}
    BY <1>11
<1>13. PICK K \in Agreeing(Len(cands), conflicts) : K = clusters[k]
    BY LenProperties
<1>14. K \subseteq DOMAIN cands /\ DOMAIN cands \subseteq Nat /\ \A a, b \in K : {a, b} \notin conflicts
    BY <1>13, LenProperties DEF Agreeing
<1>15. ASSUME NEW a \in K, NEW b \in K, a # b, NEW i \in cands[a].ids, NEW j \in cands[b].ids,
              SeenApart(i, j)
       PROVE  FALSE
    <2>1. PICK m \in Nat, n \in Nat : i = <<"sam3_obj", m>> /\ j = <<"sam3_obj", n>>
        <3>1. \A id \in E : \E l \in Nat : id = <<"sam3_obj", l>> BY <1>2, <1>5
        <3>2. i \in E /\ j \in E BY <1>8, <1>14, <1>15 DEF Within
        <3> QED BY <3>1, <3>2
    <2>2. CandidateOf(m, cands) = {a} /\ CandidateOf(n, cands) = {b}
        <3>1. ASSUME NEW l \in DOMAIN cands, NEW id \in cands[l].ids, NEW x \in Nat, id[2] = x
              PROVE  id = <<"sam3_obj", x>>
            <4>1. \A u \in E : \E y \in Nat : u = <<"sam3_obj", y>> BY <1>2, <1>5
            <4>2. id \in E BY <1>8 DEF Within
            <4> QED BY <3>1, <4>1, <4>2
        <3>2. \A l \in DOMAIN cands : i \in cands[l].ids => l = a
            BY <1>8, <1>14 DEF Disjoint
        <3>3. \A l \in DOMAIN cands : j \in cands[l].ids => l = b
            BY <1>8, <1>14 DEF Disjoint
        <3>4. i[2] = m /\ j[2] = n BY <2>1
        <3>5. \A l \in DOMAIN cands : (\E id \in cands[l].ids : id[2] = m) => l = a
            <4> SUFFICES ASSUME NEW l \in DOMAIN cands, NEW id \in cands[l].ids, id[2] = m PROVE l = a
                OBVIOUS
            <4>1. id = <<"sam3_obj", m>> BY <3>1
            <4> QED BY <2>1, <3>2, <4>1
        <3>6. \A l \in DOMAIN cands : (\E id \in cands[l].ids : id[2] = n) => l = b
            <4> SUFFICES ASSUME NEW l \in DOMAIN cands, NEW id \in cands[l].ids, id[2] = n PROVE l = b
                OBVIOUS
            <4>1. id = <<"sam3_obj", n>> BY <3>1
            <4> QED BY <2>1, <3>3, <4>1
        <3>7. a \in DOMAIN cands /\ b \in DOMAIN cands
            BY <1>14
        <3>8. a \in CandidateOf(m, cands) /\ b \in CandidateOf(n, cands)
            BY <1>15, <3>4, <3>7 DEF CandidateOf
        <3> QED BY <3>5, <3>6, <3>8 DEF CandidateOf
    <2>3. PICK x \in SeenAt(i), y \in SeenAt(j) : x[1] = y[1] /\ x[2] # y[2]
        BY <1>15 DEF SeenApart
    <2>4. ASSUME NEW l \in Nat, NEW z \in SeenAt(<<"sam3_obj", l>>)
          PROVE  \E d \in Range(dets) : d.object = l /\ l # 0 /\ d.frame = z[1] /\ d.spot = z[2]
        <3>1. PICK o \in scene.sam3 : o.num = l /\ \E f \in DOMAIN o.at : z = <<f, o.at[f]>>
            BY <2>4 DEF SeenAt
        <3>2. PICK f \in DOMAIN o.at : z = <<f, o.at[f]>>
            BY <3>1
        <3>3. PICK d : d = [label |-> o.label, spot |-> o.at[f], frame |-> f, object |-> o.num]
            OBVIOUS
        <3>4. d \in Sam3(scene)
            BY <3>3 DEF Sam3
        <3>5. f \in Frames /\ o.num \in Nat \ {0}
            BY ScenesAssumption
        <3>6. d.object = l /\ d.frame = f /\ d.spot = o.at[f]
            BY <3>1, <3>3
        <3>7. d \in Range(dets)
            BY <1>0, <3>4, <3>5, <3>6, AllDetected
        <3> QED BY <3>1, <3>2, <3>5, <3>6, <3>7
    <2>5. PICK d \in Range(dets) : d.object = m /\ m # 0 /\ d.frame = x[1] /\ d.spot = x[2]
        BY <2>1, <2>3, <2>4
    <2>6. PICK e \in Range(dets) : e.object = n /\ n # 0 /\ e.frame = y[1] /\ e.spot = y[2]
        BY <2>1, <2>3, <2>4
    <2>7. a \in Nat /\ b \in Nat
        BY <1>14
    <2>8. {a, b} \in Conflicts(cands, dets)
        <3>1. CandidateOf(d.object, cands) = {a} /\ CandidateOf(e.object, cands) = {b}
            BY <2>2, <2>5, <2>6
        <3>2. d.object # 0 /\ e.object # 0 /\ d.frame = e.frame /\ d.spot # e.spot
            BY <2>3, <2>5, <2>6
        <3> QED BY ONLY <1>15, <2>5, <2>6, <2>7, <3>1, <3>2, ConflictOf
    <2> QED BY <1>9, <1>14, <2>8
<1>16. ASSUME NEW g \in c, NEW h \in c, g # h, NEW i \in g, NEW j \in h
       PROVE  ~ SeenApart(i, j)
    <2>1. PICK a \in K, b \in K : g = cands[a].ids /\ h = cands[b].ids
        BY <1>12, <1>13
    <2>2. a # b BY <1>16, <2>1
    <2> QED BY <1>15, <2>1, <2>2
<1> QED BY <1>16 DEF NoneApart

\* Rule R2 of container_merge on SAM 3's detections: groups whose objects were seen apart in one frame are
\* never one container, whatever the scene and however the clusters grew.
THEOREM ApartAreNotMerged == Spec => []ApartStayApart
<1>1. AttemptInv => ApartStayApart
    <2> SUFFICES ASSUME AttemptInv, step = "ask", count # None, scene # None,
                        \A f \in Frames : scene.falcon[f] = {}, NEW c \in count.containers
                 PROVE  NoneApart(c)
        BY DEF ApartStayApart
    <2>1. scene \in Scenes
        BY DEF AttemptInv, TypeOK
    <2>2. count = Count(Tracks(scene), Detections(scene))
        BY DEF AttemptInv, Counting, TracksOf, DetectionsOf, NoContainers
    <2> QED BY <2>1, <2>2, NoneApartIn
<1> QED BY <1>1, AttemptInvariant, PTL
=============================================================================
