------------------------------- MODULE Analysis -------------------------------
(***************************************************************************)
(* One run of app.case_runner.analyze_case: footage, perception, episode,  *)
(* item count, the model's answer, the decision and the commit.  What the  *)
(* stages compute is in ItemCount; this module has their order, the way    *)
(* each of them fails, and the three decision policies.                    *)
(*                                                                         *)
(* Case rows, the queue of attempts and competing attempts are the subject *)
(* of CaseLifecycle; here an attempt runs alone, and an exception that     *)
(* leaves analyze_case ends it.                                            *)
(***************************************************************************)
EXTENDS ItemCount

CONSTANTS
    Error,     \* the answer that is an error
    Scenes,    \* what the detectors may report of a window
    Baskets,   \* number of items on the bill; 0: the event names none
    Answers,   \* [prompt -> the model's answers to it, parsed]
    PreRolls,  \* what the plan may begin before the sale, in frames: the default, and
               \* what an operator asks for with a reprocess
    Shifts,    \* frames by which the segments may begin after the plan or, where they could
               \* only be joined whole, before it (negative)
    Lost,      \* frames without recording there may be before the sale
    NvrPre, NvrPost, NvrMax    \* the rolls of the camera's nvr block, and their cap

Prompts == {"v2", "v1", "legacy"}
Configured == Prompts \union {"unknown"}
Tri == {"yes", "no", "uncertain"}

Answer2 == [usable : BOOLEAN, sure : BOOLEAN, count : Tri, same : Tri, missing : BOOLEAN,
            extra : BOOLEAN]
Answer1 == [usable : BOOLEAN, sure : BOOLEAN, match : Tri, missing : BOOLEAN, extra : BOOLEAN]
AnswerLegacy == [sure : BOOLEAN, item : BOOLEAN, receipt : BOOLEAN, handover : BOOLEAN,
                 obstructed : BOOLEAN]

ASSUME AnalysisAssumption ==
    /\ None \notin Prompts
    /\ Baskets \subseteq Nat
    /\ Answers["v2"] \subseteq Answer2 /\ Answers["v1"] \subseteq Answer1
    /\ Answers["legacy"] \subseteq AnswerLegacy
    /\ PreRolls \subseteq Frames /\ Shifts \subseteq Int /\ Lost \subseteq Nat
    /\ {NvrPre, NvrPost, NvrMax} \subseteq Nat

\* Object number 0 is none; every object has its own and is in at least one frame.
ASSUME ScenesAssumption ==
    \A s \in Scenes :
        /\ \A f \in Frames :
            /\ IsFiniteSet(s.falcon[f])
            /\ \A d \in s.falcon[f] : d.label \in Labels /\ d.spot \in Spots
        /\ IsFiniteSet(s.sam3)
        /\ \A o \in s.sam3 :
            /\ o.num \in Nat \ {0} /\ o.label \in Labels
            /\ DOMAIN o.at # {} /\ DOMAIN o.at \subseteq Frames
            /\ \A f \in DOMAIN o.at : o.at[f] \in Spots
            /\ \A p \in s.sam3 : p.num = o.num => p = o

VARIABLES
    step,      \* where the attempt is
    prompt,    \* prompt version of the run
    basket,    \* number of items on the bill
    sale,      \* frame of the clip that, by its time stamps, has the sale
    real,      \* history: the frame that has it; None: not in the clip
    window,    \* status of the attempt's VideoWindow row, as committed
    scene,     \* what perception reported; None: nothing came back
    episode,   \* selected episode; None: the selector failed
    count,     \* container merge metadata; None: not available
    answer,    \* the model's answer; Error, or None: no runner
    verdict    \* outcome and tags of the closed case

vars == <<step, prompt, basket, sale, real, window, scene, episode, count, answer, verdict>>

Steps == {"plan", "local", "nvr", "perceive", "select", "prepare", "ask", "decide",
          "closed", "raised"}

-----------------------------------------------------------------------------
(* Parsing and the decision policies.                                      *)

\* parse_or_fallback(_v2): an error or an empty answer reads as an unsure one.
Parsed2(a) == IF a \notin {Error, None} THEN a
              ELSE [usable |-> TRUE, sure |-> FALSE, count |-> "uncertain", same |-> "uncertain",
                    missing |-> FALSE, extra |-> FALSE]
Parsed1(a) == IF a \notin {Error, None} THEN a
              ELSE [usable |-> TRUE, sure |-> FALSE, match |-> "uncertain",
                    missing |-> FALSE, extra |-> FALSE]

\* Defect: an episode that could not be selected counts as long enough.
EpisodeTagsTrusting(ep, a) ==
    {t \in {"ambiguous", "short", "low_confidence"} :
        CASE t = "ambiguous" -> ep # None /\ ep.ambiguous
          [] t = "short" -> ep # None /\ ~ ep.covered
          [] t = "low_confidence" -> ~ a.sure}

\* The gates both SCO policies share: an ambiguous or short episode, an unsure model.
EpisodeTags(ep, a) ==
    {t \in {"ambiguous", "short", "low_confidence"} :
        CASE t = "ambiguous" -> ep # None /\ ep.ambiguous
          [] t = "short" -> ep = None \/ ~ ep.covered
          [] t = "low_confidence" -> ~ a.sure}

\* Gate 5 of decide_sco_v2.  With a count and a basket the count decides: a mismatch
\* when it is further than one off and the model does not contradict, else doubt when
\* groups were merged or none were found.  Without them the model's word is taken.
CountTags(a, c, size) ==
    IF c # None /\ size > 0
    THEN LET far == size + 1 < c.min \/ size - 1 > c.max
         IN  IF far /\ c.max > 0 /\ a.count # "yes" THEN {"mismatch"}
             ELSE IF c.max > c.min \/ c.max = 0 THEN {"count_uncertain"} ELSE {}
    ELSE CASE a.count = "no" -> {"mismatch"}
           [] a.count = "uncertain" -> {"count_uncertain"}
           [] OTHER -> {}

\* Gates 6 and 7: when the count matches and the identity is open, leftovers are not
\* held against the customer.
IdentityTags(a) ==
    (CASE a.same = "no" -> {"mismatch"}
       [] a.same = "uncertain" -> {"identity_uncertain"}
       [] OTHER -> {})
    \union (IF a.missing /\ a.same # "uncertain" THEN {"missing"} ELSE {})
    \union (IF a.extra /\ ~ (a.count = "yes" /\ a.same = "uncertain") THEN {"extra"} ELSE {})

Outcome(usable, tags) ==
    IF ~ usable THEN [outcome |-> "INVALID_VIDEO", tags |-> {"bad_footage"}]
    ELSE IF tags = {} THEN [outcome |-> "VERIFIED", tags |-> {}]
    ELSE [outcome |-> "REVIEW", tags |-> tags]

Decide2(a, ep, c, size) ==
    Outcome(a.usable, EpisodeTags(ep, a) \union CountTags(a, c, size) \union IdentityTags(a))

Decide1(a, ep) ==
    Outcome(a.usable, EpisodeTags(ep, a)
                      \union (IF a.match # "yes" THEN {"mismatch"} ELSE {})
                      \union (IF a.missing THEN {"missing"} ELSE {})
                      \union (IF a.extra THEN {"extra"} ELSE {}))

\* summary_from_vlm: what the tracks say, whatever the model claims.
Physical(t) == t.label \in (IF t.by = "track" THEN PhysicalLabels ELSE ItemLabels)
ItemSeen(ts) == \E i \in DOMAIN ts : Physical(ts[i])
ItemAtCounter(ts) == \E i \in DOMAIN ts : Physical(ts[i]) /\ "counter" \in ts[i].zones
CustomerSeen(ts) == \E i \in DOMAIN ts : ts[i].label = "person" /\ "customer" \in ts[i].zones

\* decide on that summary.  No stage reports an obstruction, so obstructed is FALSE
\* here and the model's own report of one is overridden.
DecideLegacy(a, ts) ==
    LET empty == [sure |-> FALSE, item |-> FALSE, receipt |-> FALSE, handover |-> FALSE,
                  obstructed |-> FALSE]
        said == IF a \in {Error, None} THEN empty ELSE a
        contradicted == a = Error \/ (said.item /\ ~ ItemSeen(ts))
        out(o) == [outcome |-> o, tags |-> {}]
    IN  IF contradicted THEN out("REVIEW")
        ELSE IF said.receipt /\ ~ ItemSeen(ts)
             THEN out(IF said.sure THEN "HIGH_RISK_REVIEW" ELSE "REVIEW")
        ELSE IF ItemAtCounter(ts) /\ CustomerSeen(ts) /\ said.handover /\ said.sure
             THEN out("VERIFIED") ELSE out("REVIEW")

-----------------------------------------------------------------------------
(* The attempt.                                                            *)

Init ==
    /\ step = "plan"
    /\ prompt = None
    /\ basket \in Baskets
    /\ sale = None /\ real = None
    /\ window = None /\ scene = None /\ episode = None /\ count = None /\ answer = None
    /\ verdict = None

\* The prompt version is settled, the window planned - from its pre-roll before the
\* sale - and its PENDING row committed.
\* Without matching segments the local build is skipped.
Plan ==
    /\ step = "plan"
    /\ \E configured \in Configured, matched \in BOOLEAN :
        /\ prompt' = IF configured \in Prompts THEN configured ELSE "v2"
        /\ step' = IF matched THEN "local" ELSE "nvr"
    /\ sale' \in PreRolls
    /\ window' = "PENDING"
    /\ UNCHANGED <<basket, real, scene, episode, count, answer, verdict>>

\* A clip from either source: by its time stamps it has the sale at one frame, in truth
\* at another.  The row is committed SUCCEEDED before perception.
FootageReady(stamped, true) ==
    /\ window' = "SUCCEEDED"
    /\ sale' = stamped /\ real' = true
    /\ step' = "perceive"
    /\ UNCHANGED <<prompt, basket, scene, episode, count, answer, verdict>>

\* build_window stamps the clip from the start of the plan or that of the segments and
\* cuts it by that distance out of the joined segments, which have nothing where the
\* recording has a gap: what comes after a gap is earlier in the clip than its stamps
\* say.  The coverage lets a fifth of the window pass as gaps, and counts neither the
\* drift margin nor the files that are gone.
BuildLocal ==
    /\ step = "local"
    /\ \/ \E shift \in Shifts, lost \in Lost :
            /\ sale - shift \in Frames
            /\ FootageReady(sale - shift, IF lost <= sale - shift THEN sale - shift - lost ELSE None)
       \/ /\ step' = "nvr"
          /\ UNCHANGED <<prompt, basket, sale, real, window, scene, episode, count, answer,
                         verdict>>

\* _close_invalid: the FAILED row, the verdict and the package in one commit.
CloseInvalid ==
    /\ window' = "FAILED"
    /\ verdict' = [outcome |-> "INVALID_VIDEO", tags |-> {}]
    /\ step' = "closed"
    /\ UNCHANGED <<prompt, basket, sale, real, scene, episode, count, answer>>

\* bounded_window: where the sale is in a clip of the recorder, which goes by the rolls
\* of its own configuration, shrunk to the cap.
ClipSale == IF NvrPre + NvrPost <= NvrMax THEN NvrPre
            ELSE (NvrPre * NvrMax) \div (NvrPre + NvrPost)

\* The recorder exports the clip, which is labelled with the plan's start; or it is disabled, its query fails, it has no
\* recording of the time or exports nothing usable.
RetrieveNvr == step = "nvr" /\ (FootageReady(sale, ClipSale) \/ CloseInvalid)

\* Perception may return nothing: its exceptions are logged and swallowed.
Perceive ==
    /\ step = "perceive"
    /\ scene' \in Scenes \union {None}
    /\ step' = "select"
    /\ UNCHANGED <<prompt, basket, sale, real, window, episode, count, answer, verdict>>

TracksOf(s) == IF s = None THEN <<>> ELSE Tracks(s)
DetectionsOf(s) == IF s = None THEN <<>> ELSE Detections(s)

\* The selector's own failure (a timestamp it cannot compare) is swallowed too.
SelectEpisode ==
    /\ step = "select"
    /\ episode' \in {Episode(TracksOf(scene), sale), None}
    /\ step' = "prepare"
    /\ UNCHANGED <<prompt, basket, sale, real, window, scene, count, answer, verdict>>

\* What the merger makes of an empty list.
NoContainers == [min |-> 0, max |-> 0, containers |-> {}]

\* Grouping and merging belong to the v2 prompt.  When the grouping fails the merger gets
\* an empty list; when the merging or what comes before fails the policy gets no count.
BuildPrompt ==
    /\ step = "prepare"
    /\ count' \in {None} \union
            (IF prompt = "v2" THEN {Count(TracksOf(scene), DetectionsOf(scene)), NoContainers} ELSE {})
    /\ step' = "ask"
    /\ UNCHANGED <<prompt, basket, sale, real, window, scene, episode, answer, verdict>>

\* The chain answers or its error is recorded; when it cannot even be built nobody is
\* asked.
AskModel ==
    /\ step = "ask"
    /\ answer' \in Answers[prompt] \union {Error, None}
    /\ step' = "decide"
    /\ UNCHANGED <<prompt, basket, sale, real, window, scene, episode, count, verdict>>

\* Decision, VlmRun row, evidence package and audit entry are one commit.
Close ==
    /\ step = "decide"
    /\ verdict' = CASE prompt = "v2" -> Decide2(Parsed2(answer), episode, count, basket)
                    [] prompt = "v1" -> Decide1(Parsed1(answer), episode)
                    [] prompt = "legacy" -> DecideLegacy(answer, TracksOf(scene))
    /\ step' = "closed"
    /\ UNCHANGED <<prompt, basket, sale, real, window, scene, episode, count, answer>>

\* What is not caught: an ffmpeg or hashing error while the window is made, a commit
\* after a failed flush of the perception rows, the frames and crops of the manifest, an
\* unwritable package.  The session rolls back to the last commit.
Raise ==
    /\ step \in {"local", "nvr", "select", "prepare", "decide"}
    /\ step' = "raised"
    /\ UNCHANGED <<prompt, basket, sale, real, window, scene, episode, count, answer, verdict>>

Next == Plan \/ BuildLocal \/ RetrieveNvr \/ Perceive \/ SelectEpisode \/ BuildPrompt
            \/ AskModel \/ Close \/ Raise

Spec == Init /\ [][Next]_vars

-----------------------------------------------------------------------------
(* Properties.                                                             *)

\* Every variable holds a value of its kind, and a verdict one of the four outcomes.
TypeOK ==
    /\ step \in Steps
    /\ prompt \in Prompts \union {None}
    /\ basket \in Baskets
    /\ sale \in Frames \union {None} /\ real \in Nat \union {None}
    /\ window \in {None, "PENDING", "SUCCEEDED", "FAILED"}
    /\ scene \in Scenes \union {None}
    /\ episode = None \/ episode \in [ambiguous : BOOLEAN, covered : BOOLEAN]
    /\ count = None \/ (count.min \in Nat /\ count.max \in Nat /\ count.min <= count.max)
    /\ prompt = None => answer = None
    /\ prompt # None => answer \in Answers[prompt] \union {Error, None}
    /\ verdict = None \/ verdict.outcome \in {"VERIFIED", "REVIEW", "HIGH_RISK_REVIEW", "INVALID_VIDEO"}

\* The frames in which a detector saw one of the labels in the zone.
SeenIn(zone, labels) ==
    {f \in Frames : \/ \E d \in scene.falcon[f] : d.label \in labels /\ zone \in ZonesAt[d.spot]
                    \/ zone = "audit" /\ \E o \in scene.sam3 : o.label \in labels /\ f \in DOMAIN o.at}

\* Somebody, or something, was at the checkout about the frame, for more than an
\* instant and not for longer than one customer takes.
OneVisit(frame) ==
    \E from, to \in SeenIn("audit", Labels \ {"receipt"}) :
        /\ from < to /\ to - from <= MaxEpisode
        /\ from - Tolerance <= frame /\ frame <= to + Tolerance

(* A case is closed VERIFIED only on evidence: real footage, a visit the   *)
(* detectors saw in the audit zone about the frame that has the sale by    *)
(* the clip's time stamps, an answer                                       *)
(* the model was sure of and, by the active prompt, a basket it found      *)
(* matched, nothing missing, nothing extra, and a count that it confirms   *)
(* or that stands without doubt within one of the bill; for a refund, a    *)
(* customer and a handed-over item that Falcon saw.                        *)
VerifiedBacked ==
    step = "closed" /\ verdict.outcome = "VERIFIED" =>
        /\ window = "SUCCEEDED" /\ scene # None
        /\ answer \notin {Error, None} /\ answer.sure
        /\ prompt # "legacy" => answer.usable /\ OneVisit(sale) /\ ~ answer.missing /\ ~ answer.extra
        /\ prompt = "v1" => answer.match = "yes"
        /\ prompt = "v2" =>
            /\ answer.same = "yes"
            /\ \/ answer.count = "yes"
               \/ /\ basket > 0 /\ count # None
                  /\ count.min = count.max /\ basket \in count.min - 1 .. count.max + 1
        /\ prompt = "legacy" =>
            /\ SeenIn("customer", {"person"}) # {} /\ SeenIn("counter", PhysicalLabels) # {}
            /\ answer.handover

\* Where a track was seen, as <<frame, spot>>, and whether two ever were seen apart.
SeenAt(id) ==
    IF id[1] = "sam3_obj"
    THEN UNION {{<<f, o.at[f]>> : f \in DOMAIN o.at} : o \in {p \in scene.sam3 : p.num = id[2]}}
    ELSE LET t == Tracked(scene)[id[2]]
         IN  {<<f, t.spot>> : f \in {g \in t.first .. t.last :
                                         [label |-> t.label, spot |-> t.spot] \in scene.falcon[g]}}
SeenApart(i, j) == \E x \in SeenAt(i), y \in SeenAt(j) : x[1] = y[1] /\ x[2] # y[2]
NoneApart(container) == \A g, h \in container : g # h => \A i \in g, j \in h : ~ SeenApart(i, j)

(* Rule R2 where the detections come from SAM 3 alone: groups whose        *)
(* objects were seen apart in one frame are never one container, however   *)
(* the clusters grew.                                                      *)
ApartStayApart ==
    step = "ask" /\ count # None /\ scene # None /\ (\A f \in Frames : scene.falcon[f] = {}) =>
        \A c \in count.containers : NoneApart(c)

(* Not so: R2 as the merger states it, whichever detector saw the groups.  *)
(* Falcon's detections carry no object number and no conflict comes of     *)
(* them, and its tracks are all drawn where the first of their label is.   *)
ApartWhoeverSees ==
    step = "ask" /\ count # None /\ scene # None => \A c \in count.containers : NoneApart(c)

(* Not so: sco_policy_v2's docstring requires physical_count_match = "yes" *)
(* of every VERIFIED case; with a count at hand the model's "no" is not    *)
(* looked at.                                                              *)
VerifiedPassesGates ==
    step = "closed" /\ prompt = "v2" /\ verdict.outcome = "VERIFIED" => answer.count = "yes"

(* Not so: the episode is the activity "that overlaps pos_time" (the       *)
(* episode selector).  A clip cut out of segments with a gap before the    *)
(* sale is ahead of its time stamps, and a clip of the recorder bears      *)
(* those of the plan, with an operator's wider pre-roll, and shows the     *)
(* camera's own rolls: another customer's visit is taken for the one at    *)
(* the sale.                                                               *)
VisitAtSale ==
    step = "closed" /\ verdict.outcome = "VERIFIED" /\ prompt # "legacy" =>
        real # None /\ OneVisit(real)

=============================================================================
