---------------------------- MODULE SegmentStore ----------------------------
(***************************************************************************)
(* The CCTV segments of one camera: files on disk, their rows in           *)
(* video_segments, and the four actors that touch both without a common    *)
(* lock:                                                                   *)
(*   - the recorder process, which writes a file and indexes it later, off *)
(*     the capture thread (video/segment_recorder.py);                     *)
(*   - cleanup, which reads what is expired and unlinked, removes files    *)
(*     one by one and only then deletes the rows (app/storage_guard.py);   *)
(*   - the analysis job, which links segments to a case by committing a    *)
(*     window row and then reads the files (app/case_runner.py);           *)
(*   - re-timing, in the same job, which replaces files in place and       *)
(*     commits their new hashes at the end (video/retime.py).              *)
(* Segments are numbered in the order they start.                          *)
(***************************************************************************)
EXTENDS Naturals, Sequences, FiniteSets

CONSTANTS
    LastSeg,     \* segments 1..LastSeg are recorded, in this order
    Legacy,      \* segments 1..Legacy exist already, in slow motion
    Cases,       \* cases with a window on this camera
    Overlap,     \* [Cases -> SUBSET segments]: what the padded window overlaps
    Needed,      \* segments that make coverage reach COVERAGE_RATIO_THRESHOLD
    Cleaners,    \* cleanup requests that can run at once
    MaxRuns, MaxCleanups, MaxCrashes, MaxFailures   \* bounds of the model

Segs == 1..LastSeg

ASSUME SegsAssumption == LastSeg \in Nat /\ Legacy \in 0..LastSeg
ASSUME OverlapAssumption == Overlap \in [Cases -> SUBSET Segs] /\ Needed \in Nat \ {0}
ASSUME StoreBoundsAssumption ==
    {MaxRuns, MaxCleanups, MaxCrashes, MaxFailures} \subseteq Nat

\* What the frames of a segment file play like; the content hash tells the two
\* apart, and both from a file the recorder has not finished.
Contents == {"partial", "slow", "realtime"}
Absent == "absent"
None == "none"
NoClip == [counted |-> {}, used |-> {}]

VARIABLES
    disk,       \* content of each segment's file, or Absent
    index,      \* the hash in each committed video_segments row, or None
    corrupt,    \* segments whose row says corrupt
    linked,     \* segments named by some committed video_windows row
    horizon,    \* segments 1..horizon are older than the retention period
    next,       \* the next segment the recorder will start
    recording,  \* is the recorder writing segment next - 1?
    finalizer,  \* closed segments waiting to be hashed and indexed
    cleaner,    \* the cleanup requests
    job,        \* the analysis job
    clip,       \* each case's latest local clip: the segments its coverage was
                \* counted from and those it was built from
    late,       \* history: segments linked when a cleanup had already chosen
                \* them or their file was already gone
    stale,      \* history: segments replaced by a session that did not commit
    leaked,     \* history: files whose row was lost or deleted before them
    used        \* how much of each bound has been used

store == <<disk, index, corrupt, linked>>
recorder == <<next, recording, finalizer>>
history == <<late, stale, leaked>>
vars == <<store, horizon, recorder, cleaner, job, clip, history, used>>

Idle == [pc |-> "idle"]

Use(what, limit) ==
    /\ used[what] < limit
    /\ used' = [used EXCEPT ![what] = @ + 1]

OnDisk(s) == disk[s] # Absent
Indexed(s) == index[s] # None

-----------------------------------------------------------------------------
(* The recorder.                                                           *)

\* The first frame of a segment opens its file; below the low-disk mark the
\* recorder just does not take this step.
StartSegment ==
    /\ ~recording
    /\ next <= LastSeg
    /\ disk' = [disk EXCEPT ![next] = "partial"]
    /\ next' = next + 1
    /\ recording' = TRUE
    /\ UNCHANGED <<index, corrupt, linked, horizon, finalizer, cleaner, job, clip, history, used>>

\* _close_and_index: rotation, low disk or stop.
CloseSegment ==
    /\ recording
    /\ disk' = [disk EXCEPT ![next - 1] = "realtime"]
    /\ recording' = FALSE
    /\ finalizer' = Append(finalizer, next - 1)
    /\ UNCHANGED <<index, corrupt, linked, horizon, next, cleaner, job, clip, history, used>>

IndexSegment ==
    /\ finalizer # <<>>
    /\ LET s == Head(finalizer)
       IN /\ index' = [index EXCEPT ![s] = disk[s]]
          /\ corrupt' \in {corrupt, corrupt \union {s}}
    /\ finalizer' = Tail(finalizer)
    /\ UNCHANGED <<disk, linked, horizon, next, recording, cleaner, job, clip, history, used>>

\* _safe_index swallows whatever goes wrong: the file stays, without a row.
IndexFails ==
    /\ finalizer # <<>>
    /\ Use("failures", MaxFailures)
    /\ finalizer' = Tail(finalizer)
    /\ leaked' = leaked \union {Head(finalizer)}
    /\ UNCHANGED <<store, horizon, next, recording, cleaner, job, clip, late, stale>>

\* The recorder is a process of its own: what it had not indexed has no row.
RecorderCrash ==
    /\ Use("crashes", MaxCrashes)
    /\ leaked' = leaked \union {finalizer[i] : i \in 1..Len(finalizer)}
                        \union (IF recording THEN {next - 1} ELSE {})
    /\ recording' = FALSE
    /\ finalizer' = <<>>
    /\ UNCHANGED <<store, horizon, next, cleaner, job, clip, late, stale>>

\* Time passes; segments expire in the order they were recorded.
Expire ==
    /\ horizon + 1 < next
    /\ horizon' = horizon + 1
    /\ UNCHANGED <<store, recorder, cleaner, job, clip, history, used>>

-----------------------------------------------------------------------------
(* Cleanup.                                                                *)

\* Defect: expired segments are chosen without looking at the windows.
ExpiredIndexed == {s \in 1..horizon : Indexed(s)}

\* identify_expired_unlinked_segments.
Candidates == {s \in 1..horizon : Indexed(s) /\ s \notin linked}

ReadCandidates(k) ==
    /\ cleaner[k].pc = "idle"
    /\ Use("cleanups", MaxCleanups)
    /\ cleaner' = [cleaner EXCEPT ![k] = [pc |-> "removing", todo |-> Candidates, gone |-> {}]]
    /\ UNCHANGED <<store, horizon, recorder, job, clip, history>>

\* os.remove when the file exists, and session.delete either way.
RemoveFile(k, s) ==
    /\ cleaner[k].pc = "removing"
    /\ s \in cleaner[k].todo
    /\ disk' = [disk EXCEPT ![s] = Absent]
    /\ cleaner' = [cleaner EXCEPT ![k] = [pc |-> "removing", todo |-> @.todo \ {s},
                                          gone |-> @.gone \union {s}]]
    /\ UNCHANGED <<index, corrupt, linked, horizon, recorder, job, clip, history, used>>

\* OSError: the segment is reported as failed and keeps its row.
RemoveFails(k, s) ==
    /\ cleaner[k].pc = "removing"
    /\ s \in cleaner[k].todo
    /\ Use("failures", MaxFailures)
    /\ cleaner' = [cleaner EXCEPT ![k] = [pc |-> "removing", todo |-> @.todo \ {s},
                                          gone |-> @.gone]]
    /\ UNCHANGED <<store, horizon, recorder, job, clip, history>>

\* Defect: the rows are deleted by a query of their own, whatever became of the
\* files.
RowsDeletedByQuery(gone) == [s \in Segs |-> IF s \in 1..horizon \ linked THEN None ELSE index[s]]

WithoutRows(gone) == [s \in Segs |-> IF s \in gone THEN None ELSE index[s]]

\* The row deletes and the audit row are one transaction.
CommitCleanup(k) ==
    /\ cleaner[k].pc = "removing"
    /\ cleaner[k].todo = {}
    /\ index' = WithoutRows(cleaner[k].gone)
    /\ leaked' = leaked \union {s \in cleaner[k].gone : OnDisk(s)}
    /\ cleaner' = [cleaner EXCEPT ![k] = Idle]
    /\ UNCHANGED <<disk, corrupt, linked, horizon, recorder, job, clip, late, stale, used>>

\* The audit row or the commit fails: the rows come back, the files do not.
CleanupAborts(k) ==
    /\ cleaner[k].pc = "removing"
    /\ Use("failures", MaxFailures)
    /\ cleaner' = [cleaner EXCEPT ![k] = Idle]
    /\ UNCHANGED <<store, horizon, recorder, job, clip, history>>

-----------------------------------------------------------------------------
(* The analysis job, with re-timing when the request asked for it.         *)

\* plan_window: the usable segments of the window, or the corrupt ones if there
\* are no others.
Matched(c) ==
    LET rows == {s \in Overlap[c] : Indexed(s)}
        usable == rows \ corrupt
    IN IF usable = {} THEN rows ELSE usable

\* The plan is valid when the usable segments cover enough of the window.
Sound(segs) == Cardinality(segs \ corrupt) >= Needed

StartJob(c, retime) ==
    /\ job.pc = "idle"
    /\ Use("runs", MaxRuns)
    /\ job' = IF retime THEN [pc |-> "retiming", case |-> c, todo |-> Matched(c), done |-> {}]
                        ELSE [pc |-> "planning", case |-> c]
    /\ UNCHANGED <<store, horizon, recorder, cleaner, clip, history>>

\* A missing file, a failed encoding or a clip that already plays in real time.
SkipRetime(s) ==
    /\ job.pc = "retiming"
    /\ s \in job.todo
    /\ IF disk[s] = "slow" THEN Use("failures", MaxFailures) ELSE UNCHANGED used
    /\ job' = [job EXCEPT !.todo = @ \ {s}]
    /\ UNCHANGED <<store, horizon, recorder, cleaner, clip, history>>

\* ffmpeg opens the slow file and writes a copy beside it, for a long time.
EncodeRetimed(s) ==
    /\ job.pc = "retiming"
    /\ s \in job.todo
    /\ disk[s] = "slow"
    /\ job' = [pc |-> "replacing", case |-> job.case, todo |-> job.todo \ {s},
               done |-> job.done, seg |-> s]
    /\ UNCHANGED <<store, horizon, recorder, cleaner, clip, history, used>>

\* os.replace puts the copy at the segment's path, whether or not the original
\* is still there; the row's new hash waits in the session.
ReplaceFile ==
    /\ job.pc = "replacing"
    /\ disk' = [disk EXCEPT ![job.seg] = "realtime"]
    /\ leaked' = IF Indexed(job.seg) THEN leaked ELSE leaked \union {job.seg}
    /\ job' = [pc |-> "retiming", case |-> job.case, todo |-> job.todo,
               done |-> job.done \union {job.seg}]
    /\ UNCHANGED <<index, corrupt, linked, horizon, recorder, cleaner, clip, late, stale, used>>

\* Defect: the new hash is not assigned to the row.
OldHash(hash) == hash

\* Defect: the hash is cleared, for somebody else to compute.
ClearedHash(hash) == ""

NewHash(hash) == "realtime"

Plan == job' = [pc |-> "planning", case |-> job.case]

\* One commit for all the rows; a row deleted meanwhile makes the flush raise,
\* which loses the hashes of all of them.
CommitRetime ==
    /\ job.pc = "retiming"
    /\ job.todo = {}
    /\ IF \A s \in job.done : Indexed(s)
       THEN /\ index' = [s \in Segs |-> IF s \in job.done THEN NewHash(index[s]) ELSE index[s]]
            /\ UNCHANGED stale
       ELSE /\ stale' = stale \union job.done
            /\ UNCHANGED index
    /\ Plan
    /\ UNCHANGED <<disk, corrupt, linked, horizon, recorder, cleaner, clip, late, leaked, used>>

\* Anything else raised while re-timing rolls back the hashes, not the files;
\* the job goes on to plan the window.
RetimeRaises ==
    /\ job.pc \in {"retiming", "replacing"}
    /\ Use("failures", MaxFailures)
    /\ stale' = stale \union job.done
    /\ Plan
    /\ UNCHANGED <<store, horizon, recorder, cleaner, clip, late, leaked>>

PlanWindow ==
    /\ job.pc = "planning"
    /\ LET m == Matched(job.case)
       IN job' = [pc |-> "planned", case |-> job.case, matched |-> m, valid |-> Sound(m)]
    /\ UNCHANGED <<store, horizon, recorder, cleaner, clip, history, used>>

\* What a cleanup has chosen, before it saw the links committed since.
Chosen(k) == IF cleaner[k].pc = "removing" THEN cleaner[k].todo \union cleaner[k].gone ELSE {}

\* The PENDING window row, with the segments of the plan, is committed.
LinkWindow ==
    /\ job.pc = "planned"
    /\ linked' = linked \union job.matched
    /\ late' = late \union {s \in job.matched : \/ ~OnDisk(s) \/ ~Indexed(s)
                                               \/ \E k \in Cleaners : s \in Chosen(k)}
    /\ job' = [job EXCEPT !.pc = "building"]
    /\ UNCHANGED <<disk, index, corrupt, horizon, recorder, cleaner, clip, stale, leaked, used>>

\* build_window concatenates the planned segments that still have a row and a
\* file.  The window row keeps the list of the plan.
BuildWindow ==
    /\ job.pc = "building"
    /\ LET usable == {s \in job.matched : Indexed(s) /\ OnDisk(s)}
       IN /\ job.valid
          /\ usable # {}
          /\ clip' = [clip EXCEPT ![job.case] = [counted |-> job.matched, used |-> usable]]
    /\ job' = Idle
    /\ UNCHANGED <<store, horizon, recorder, cleaner, history, used>>

\* No local clip: the NVR delivers one or the case closes as INVALID_VIDEO.
NoLocalClip ==
    /\ job.pc = "building"
    /\ clip' = [clip EXCEPT ![job.case] = NoClip]
    /\ job' = Idle
    /\ UNCHANGED <<store, horizon, recorder, cleaner, history, used>>

\* The API process dies, with its cleanup requests and its job.
AppCrash ==
    /\ Use("crashes", MaxCrashes)
    /\ cleaner' = [k \in Cleaners |-> Idle]
    /\ stale' = IF job.pc \in {"retiming", "replacing"} THEN stale \union job.done ELSE stale
    /\ job' = Idle
    /\ UNCHANGED <<store, horizon, recorder, clip, late, leaked>>

-----------------------------------------------------------------------------
Init ==
    /\ disk = [s \in Segs |-> IF s <= Legacy THEN "slow" ELSE Absent]
    /\ index = [s \in Segs |-> IF s <= Legacy THEN "slow" ELSE None]
    /\ corrupt = {}
    /\ linked = {}
    /\ horizon = 0
    /\ next = Legacy + 1
    /\ recording = FALSE
    /\ finalizer = <<>>
    /\ cleaner = [k \in Cleaners |-> Idle]
    /\ job = Idle
    /\ clip = [c \in Cases |-> NoClip]
    /\ late = {} /\ stale = {} /\ leaked = {}
    /\ used = [runs |-> 0, cleanups |-> 0, crashes |-> 0, failures |-> 0]

RecorderStep == StartSegment \/ CloseSegment \/ IndexSegment \/ IndexFails \/ RecorderCrash

CleanerStep(k) ==
    \/ ReadCandidates(k)
    \/ \E s \in Segs : RemoveFile(k, s) \/ RemoveFails(k, s)
    \/ CommitCleanup(k)
    \/ CleanupAborts(k)

JobStep ==
    \/ \E c \in Cases, retime \in BOOLEAN : StartJob(c, retime)
    \/ \E s \in Segs : SkipRetime(s) \/ EncodeRetimed(s)
    \/ ReplaceFile
    \/ CommitRetime
    \/ RetimeRaises
    \/ PlanWindow
    \/ LinkWindow
    \/ BuildWindow
    \/ NoLocalClip

Next ==
    \/ RecorderStep
    \/ Expire
    \/ \E k \in Cleaners : CleanerStep(k)
    \/ JobStep
    \/ AppCrash

Spec == Init /\ [][Next]_vars

-----------------------------------------------------------------------------
(* Type correctness.                                                       *)

CleanerStates ==
    [pc: {"idle"}] \union [pc: {"removing"}, todo: SUBSET Segs, gone: SUBSET Segs]

JobStates ==
    [pc: {"idle"}]
        \union [pc: {"retiming"}, case: Cases, todo: SUBSET Segs, done: SUBSET Segs]
        \union [pc: {"replacing"}, case: Cases, todo: SUBSET Segs, done: SUBSET Segs, seg: Segs]
        \union [pc: {"planning"}, case: Cases]
        \union [pc: {"planned", "building"}, case: Cases, matched: SUBSET Segs, valid: BOOLEAN]

\* Every variable has the shape its declaration describes.
TypeOK ==
    /\ disk \in [Segs -> Contents \union {Absent}]
    /\ index \in [Segs -> Contents \union {None}]
    /\ corrupt \in SUBSET Segs
    /\ linked \in SUBSET Segs
    /\ horizon \in Nat
    /\ next \in 1..(LastSeg + 1)
    /\ recording \in BOOLEAN
    /\ finalizer \in Seq(Segs)
    /\ cleaner \in [Cleaners -> CleanerStates]
    /\ job \in JobStates
    /\ clip \in [Cases -> [counted: SUBSET Segs, used: SUBSET Segs]]
    /\ late \in SUBSET Segs
    /\ stale \in SUBSET Segs
    /\ leaked \in SUBSET Segs
    /\ used \in [{"runs", "cleanups", "crashes", "failures"} -> Nat]

-----------------------------------------------------------------------------
(* Safety.                                                                 *)

\* A segment linked to a case keeps its file and its row for good, unless it was
\* linked after a running cleanup had read its candidates or when it was damaged
\* already: across several cleanups, aborted ones, crashes and re-timing.
LinkedKept == \A s \in linked \ late : OnDisk(s) /\ Indexed(s)

\* Every finished file has a row, is about to get one, or was lost in one of the
\* ways the code has: an index step that failed, a crash, a re-timing that
\* puts back a file that cleanup has removed.
FilesAccounted ==
    \A s \in Segs : OnDisk(s) /\ ~Indexed(s) =>
        \/ recording /\ s = next - 1
        \/ \E i \in 1..Len(finalizer) : finalizer[i] = s
        \/ s \in leaked

\* The hash of a row is that of its file, except between a replacement and the
\* commit of its session, and after one that did not commit.
RowsDescribeFiles ==
    \A s \in Segs : Indexed(s) /\ OnDisk(s) /\ index[s] # disk[s] =>
        \/ job.pc \in {"retiming", "replacing"} /\ s \in job.done
        \/ s \in stale

\* What makes the three inductive.  A segment that is not indexed yet is in nobody's
\* hands but the recorder's, and waits for its row once, with its file in place;
\* what a cleanup has chosen can only be linked late; a file that was replaced is
\* not slow any more.
Unindexed ==
    {s \in Segs : s >= next}
        \union {s \in Segs : recording /\ s = next - 1}
        \union {finalizer[i] : i \in 1..Len(finalizer)}

Retimed ==
    (IF job.pc \in {"retiming", "replacing"} THEN job.todo \union job.done ELSE {})
        \union (IF job.pc = "replacing" THEN {job.seg} ELSE {})

RecorderInv ==
    /\ horizon < next
    /\ recording => next > 1
    /\ \A i, j \in 1..Len(finalizer) : finalizer[i] = finalizer[j] => i = j
    /\ \A i \in 1..Len(finalizer) : /\ finalizer[i] < next
                                    /\ OnDisk(finalizer[i])
                                    /\ recording => finalizer[i] # next - 1
    /\ \A s \in Unindexed : /\ ~Indexed(s)
                             /\ s \notin Retimed
                             /\ \A k \in Cleaners : s \notin Chosen(k)

ChosenLate == \A k \in Cleaners : Chosen(k) \intersect linked \subseteq late

ReplacedRealtime ==
    job.pc \in {"retiming", "replacing"} =>
        \A s \in job.done : disk[s] \in {"realtime", Absent}

StoreInv ==
    /\ TypeOK
    /\ RecorderInv
    /\ LinkedKept
    /\ FilesAccounted
    /\ RowsDescribeFiles
    /\ ChosenLate
    /\ ReplacedRealtime

\* "Linked-to-case segments are NEVER touched" (app/api/storage.py).
LinkedNeverDeleted ==
    [][\A s \in linked : OnDisk(s) => disk'[s] # Absent]_vars

\* Not so: a local clip shows enough of the window, not only its plan ("Require
\* coverage_ratio >= 0.8 ... before allowing the case to enter perception",
\* pos/correlation.py); segments lost after the plan are left out of the clip.
CoverageBeforePerception ==
    \A c \in Cases : clip[c].used # {} => Cardinality(clip[c].used) >= Needed

=============================================================================
