------------------------------ MODULE ItemCount ------------------------------
(***************************************************************************)
(* What the perception stage makes of one window, from detections to the   *)
(* numbers the decision policy reads: the tracker, the union of the two    *)
(* detectors' results, the customer episode, the canonical item groups and *)
(* the merge of fragmented containers.  All of it is pure code; Analysis   *)
(* runs it as steps of one attempt.                                        *)
(*                                                                         *)
(* A box is the spot it lies at: two boxes overlap enough to be one thing  *)
(* when their spots are equal, and spots are numbers so that the distance  *)
(* between two boxes is the difference.  Boxes have one size and detections*)
(* one score, so the first of several candidates is the best one.          *)
(***************************************************************************)
EXTENDS Integers, Sequences, SequencesExt, FiniteSetsExt

CONSTANTS
    None,         \* no value
    Horizon,      \* last sampled frame of the window; the first one is 0
    ZonesAt,      \* [spot -> zones that contain it]
    ConfirmHits,  \* Tracker: hits after which a track is confirmed
    CloseMiss,    \* Tracker: misses in a row after which it is closed
    Gap,          \* MERGE_GAP_SEC and the grouper's time_gap_sec (both 5 s)
    MaxEpisode,   \* MAX_EPISODE_SEC
    Tolerance,    \* POS_ANCHOR_TOLERANCE_SEC
    FragmentGap,  \* MAX_FRAGMENT_GAP_SEC
    Near          \* MAX_FRAGMENT_PIXEL_DISTANCE

Frames == 0 .. Horizon
Spots == DOMAIN ZonesAt
Zones == {"audit", "counter", "customer"}

\* Labels: the default Falcon categories, two POS lines (sco_item_000, _001)
\* and two generic concepts (a food container, a shopping bag).
PosLines == {"line1", "line2"}
Labels == {"person", "receipt", "item", "box", "bag"} \union PosLines
ItemLabels == Labels \ {"person", "receipt"}
ContainerFamily == ItemLabels \ {"bag"}      \* CONTAINER_FAMILY_TOKENS
PhysicalLabels == ItemLabels \ {"box"}       \* substrings of "sco_generic_food_container" miss
                                             \* every physical_item_label

ASSUME EvidenceAssumption ==
    /\ Horizon \in Nat
    /\ \A s \in Spots : s \in Nat /\ ZonesAt[s] \subseteq Zones
    /\ {ConfirmHits, CloseMiss, Gap, MaxEpisode, Tolerance, FragmentGap, Near} \subseteq Nat

-----------------------------------------------------------------------------
(* A scene is what the two detectors report of the window.  Falcon: boxes  *)
(* with a label in each frame.  SAM 3: objects with an identity of their   *)
(* own, each with its label and the spot it has in every frame it is in.   *)

Falcon(scene) == UNION {{[label |-> d.label, spot |-> d.spot, frame |-> f, object |-> 0] :
                             d \in scene.falcon[f]} : f \in Frames}
Sam3(scene) == UNION {{[label |-> o.label, spot |-> o.at[f], frame |-> f, object |-> o.num] :
                           f \in DOMAIN o.at} : o \in scene.sam3}

\* Detections come out frame by frame.
Listed(D) ==
    LET before[n \in 0 .. Horizon + 1] ==
            IF n = 0 THEN <<>> ELSE before[n - 1] \o SetToSeq({d \in D : d.frame = n - 1})
    IN  before[Horizon + 1]

\* The kth of a set of numbers, and what a sequence has at a set of indices.
Nth(S, k) == CHOOSE n \in S : Cardinality({m \in S : m < n}) = k - 1
Selected(seq, S) == [k \in 1 .. Cardinality(S) |-> seq[Nth(S, k)]]

(* Tracker._step: a detection goes to the open track of its label it       *)
(* overlaps; what is left opens a track, and the other open tracks miss.   *)
Open(t) == t.misses < CloseMiss
Opened(d, f) == [label |-> d.label, spot |-> d.spot, first |-> f, last |-> f, hits |-> 1, misses |-> 0]
TrackFrame(f, tracks, D) ==
    LET matches(t, d) == Open(t) /\ t.label = d.label /\ t.spot = d.spot
        next(t) == IF \E d \in D : matches(t, d)
                   THEN [t EXCEPT !.last = f, !.hits = @ + 1, !.misses = 0]
                   ELSE IF Open(t) THEN [t EXCEPT !.misses = @ + 1] ELSE t
        fresh == SetToSeq({d \in D : \A i \in DOMAIN tracks : ~ matches(tracks[i], d)})
    IN  [i \in DOMAIN tracks |-> next(tracks[i])] \o [i \in DOMAIN fresh |-> Opened(fresh[i], f)]

\* Only frames with a detection reach the tracker: an empty one is no miss.
Tracked(scene) ==
    LET before[n \in 0 .. Horizon + 1] ==
            IF n = 0 THEN <<>>
            ELSE IF scene.falcon[n - 1] = {} THEN before[n - 1]
            ELSE TrackFrame(n - 1, before[n - 1], scene.falcon[n - 1])
    IN  before[Horizon + 1]

(* Tracker.export, annotate_tracks and _t_dict.  The exported record has   *)
(* no list of detections, so a Falcon track refers to none.                *)
FalconTracks(scene) ==
    LET all == Tracked(scene)
        record(i) == [by |-> "track", num |-> i, label |-> all[i].label, first |-> all[i].first,
                      last |-> all[i].last, zones |-> ZonesAt[all[i].spot], refs |-> {}]
    IN  Selected([i \in DOMAIN all |-> record(i)],
                 {i \in DOMAIN all : Open(all[i]) \/ all[i].hits >= ConfirmHits})

(* Sam3Client: one track per object, always in the audit zone, referring   *)
(* to its detections by their index in SAM 3's own list.                   *)
Sam3Tracks(scene) ==
    LET listed == Listed(Sam3(scene))
        refs(o) == {i \in DOMAIN listed : listed[i].object = o.num}
        record(o) == [by |-> "sam3_obj", num |-> o.num, label |-> o.label, first |-> Min(DOMAIN o.at),
                      last |-> Max(DOMAIN o.at), zones |-> {"audit"}, refs |-> refs(o)]
        nums == {o.num : o \in scene.sam3}
    IN  [k \in 1 .. Cardinality(nums) |-> record(CHOOSE o \in scene.sam3 : o.num = Nth(nums, k))]

(* run_perception_on_window: SAM 3 alone returns its own result; beside    *)
(* Falcon its detections and tracks are appended, indices as they are.     *)
Detections(scene) == Listed(Falcon(scene)) \o Listed(Sam3(scene))
Tracks(scene) == FalconTracks(scene) \o Sam3Tracks(scene)

-----------------------------------------------------------------------------
(* perception.episode_selector *)

\* The persons in the audit zone or, when there is none, the items.
InZone(tracks, labels) ==
    {tracks[i] : i \in {j \in DOMAIN tracks : tracks[j].label \in labels /\ "audit" \in tracks[j].zones}}
Activity(tracks) ==
    LET persons == InZone(tracks, {"person"})
    IN  IF persons # {} THEN persons ELSE InZone(tracks, ItemLabels)

\* _merge_intervals: a group starts where everything earlier ended more than
\* Gap before, and ends with the last track that started before the next group.
Groups(act) ==
    LET starts == {t.first : t \in {u \in act : \A v \in act :
                                        v.first < u.first => v.last + Gap < u.first}}
        members(s) == {t \in act : t.first >= s /\ \A n \in starts : n > s => t.first < n}
    IN  {[first |-> s, last |-> Max({t.last : t \in members(s)})] : s \in starts}

\* The group is at the checkout about the frame the time stamps put the sale at.
AtSale(g, sale) == g.first - Tolerance <= sale /\ sale <= g.last + Tolerance
Length(g) == g.last - g.first

\* select_sco_episode; covered stands for coverage_ratio >= 0.05, in a window that has
\* a length at least.
Covered(seconds) == seconds > 0 /\ seconds * 20 >= Horizon
Episode(tracks, sale) ==
    LET groups == {g \in Groups(Activity(tracks)) : AtSale(g, sale)}
        one == CHOOSE g \in groups : TRUE
    IN  CASE groups = {} -> [ambiguous |-> FALSE, covered |-> FALSE]
          [] Cardinality(groups) > 1 ->
                [ambiguous |-> TRUE, covered |-> Covered(MapThenSumSet(Length, groups))]
          [] OTHER -> [ambiguous |-> Length(one) > MaxEpisode, covered |-> Covered(Length(one))]

-----------------------------------------------------------------------------
(* perception.item_grouping *)

\* _summarise_track: the detection a track is drawn at is the first it refers to
\* and, for a track that refers to none, the first with its label.
Drawn(t, dets) ==
    LET own == t.refs \intersect DOMAIN dets
        alike == {i \in DOMAIN dets : dets[i].label = t.label}
    IN  dets[Min(IF own # {} THEN own ELSE alike)].spot

Seed(t, dets) == [labels |-> {t.label}, ids |-> {<<t.by, t.num>>}, first |-> t.first,
                  last |-> t.last, spot |-> Drawn(t, dets)]
Join(g, s) == [g EXCEPT !.labels = @ \union s.labels, !.ids = @ \union s.ids,
                        !.first = Min({@, s.first}), !.last = Max({@, s.last})]
Overlaps(g, s) == /\ g.spot = s.spot
                  /\ Max({g.first, s.first}) <= Min({g.last, s.last}) + Gap

\* Every POS-specific track seeds a group; a generic one joins the first of them it
\* overlaps, else it is a group of its own.
PlaceGeneric(groups, s) ==
    LET fits == {i \in DOMAIN groups.pos : Overlaps(groups.pos[i], s)}
        joined == [i \in DOMAIN groups.pos |->
                      IF i = Min(fits) THEN Join(groups.pos[i], s) ELSE groups.pos[i]]
    IN  IF fits # {} THEN [pos |-> joined, extra |-> groups.extra]
                     ELSE [pos |-> groups.pos, extra |-> Append(groups.extra, s)]
OfLabels(tracks, labels) == Selected(tracks, {i \in DOMAIN tracks : tracks[i].label \in labels})
Seeds(tracks, dets) == [i \in DOMAIN tracks |-> Seed(tracks[i], dets)]
ItemGroups(tracks, dets) ==
    LET generic == Seeds(OfLabels(tracks, ItemLabels \ PosLines), dets)
        after[n \in 0 .. Len(generic)] ==
            IF n = 0 THEN [pos |-> Seeds(OfLabels(tracks, PosLines), dets), extra |-> <<>>]
                     ELSE PlaceGeneric(after[n - 1], generic[n])
        placed == after[Len(generic)]
    IN  placed.pos \o placed.extra

-----------------------------------------------------------------------------
(* perception.container_merge *)

Candidates(groups) ==
    Selected(groups, {i \in DOMAIN groups : groups[i].labels \intersect ContainerFamily # {}})

\* sam3_id_to_cand looks at the number at the end of a track id only, and the last
\* candidate with the number has it.
CandidateOf(n, cands) == {i \in DOMAIN cands : \E id \in cands[i].ids : id[2] = n}
Conflicts(cands, dets) ==
    LET seen == {d \in Range(dets) : d.object # 0 /\ CandidateOf(d.object, cands) # {}}
        whose(d) == Max(CandidateOf(d.object, cands))
        apart(d) == {e \in seen : e.frame = d.frame /\ e.spot # d.spot /\ whose(e) # whose(d)}
    IN  UNION {{{whose(d), whose(e)} : e \in apart(d)} : d \in seen}

\* Defect: of a grown cluster only the first candidate is looked at.
CanMergeFirst(a, b, cands, conflicts) ==
    LET i == Min(a)  j == Min(b)
        apart == cands[i].spot - cands[j].spot
    IN  /\ {i, j} \notin conflicts
        /\ Max({cands[i].first, cands[j].first}) - Min({cands[i].last, cands[j].last}) <= FragmentGap
        /\ Max({apart, - apart}) <= Near

\* _can_merge_clusters on two sets of candidates; the distance is between the means.
CanMerge(a, b, cands, conflicts) ==
    LET sum(c) == MapThenSumSet(LAMBDA i : cands[i].spot, c)
        first(c) == Min({cands[i].first : i \in c})
        last(c) == Max({cands[i].last : i \in c})
        apart == sum(a) * Cardinality(b) - sum(b) * Cardinality(a)
    IN  /\ \A i \in a, j \in b : {i, j} \notin conflicts
        /\ Max({first(a), first(b)}) - Min({last(a), last(b)}) <= FragmentGap
        /\ Max({apart, - apart}) <= Near * Cardinality(a) * Cardinality(b)

\* Cluster j goes into cluster i, before it, and what follows moves up.
Merged(c, i, j) ==
    [k \in 1 .. Len(c) - 1 |-> IF k = i THEN c[i] \union c[j] ELSE IF k < j THEN c[k] ELSE c[k + 1]]

\* The two loops of merge_sam3_containers over the clusters of run, one turn at a time;
\* i and j are where the loops are.
Turn(run, cands, conflicts) ==
    LET c == run.clusters  i == run.i  j == run.j
    IN  IF i >= Len(c) THEN run
        ELSE IF j > Len(c) THEN [clusters |-> c, i |-> i + 1, j |-> i + 2]
        ELSE IF CanMerge(c[i], c[j], cands, conflicts)
             THEN [clusters |-> Merged(c, i, j), i |-> i, j |-> j]
             ELSE [clusters |-> c, i |-> i, j |-> j + 1]

\* One greedy pass: the loops are at their end after as many turns as there are pairs.
Sweep(clusters, cands, conflicts) ==
    LET size == Len(clusters)
        run[n \in 0 .. size * size] ==
            IF n = 0 THEN [clusters |-> clusters, i |-> 1, j |-> 2]
                     ELSE Turn(run[n - 1], cands, conflicts)
    IN  run[size * size].clusters

\* Passes run until nothing changes, four at most.
Clusters(cands, dets) ==
    LET conflicts == Conflicts(cands, dets)
        pass(clusters) == Sweep(clusters, cands, conflicts)
    IN  pass(pass(pass(pass([i \in DOMAIN cands |-> {i}]))))

\* Defect: the ends of the range are swapped.
CountSwapped(tracks, dets) ==
    LET cands == Candidates(ItemGroups(tracks, dets))
        clusters == Clusters(cands, dets)
    IN  [min |-> Len(cands), max |-> Len(clusters),
         containers |-> {{cands[i].ids : i \in clusters[k]} : k \in DOMAIN clusters}]

(* What the policy reads of the merge: the count is between the number of  *)
(* containers and the number of raw groups, and its confidence is low only *)
(* when there was nothing to count.                                        *)
Count(tracks, dets) ==
    LET cands == Candidates(ItemGroups(tracks, dets))
        clusters == Clusters(cands, dets)
    IN  [min |-> Len(clusters), max |-> Len(cands),
         containers |-> {{cands[i].ids : i \in clusters[k]} : k \in DOMAIN clusters}]
=============================================================================
