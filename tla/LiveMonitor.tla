----------------------------- MODULE LiveMonitor -----------------------------
(***************************************************************************)
(* The live monitor of the dashboard process (app.py, monitor.py,          *)
(* session_logger.py): a thread for each camera turns motion into          *)
(* sessions, the dispatcher merges sessions of a customer who comes back,  *)
(* the inference worker analyses the clips one by one and logs a row for   *)
(* each.  A stop joins the threads with time-outs, writes the daily report *)
(* and closes the log; the next start of the same day goes on with it.     *)
(*                                                                         *)
(* A clip is the sequence of the sessions it was merged from; frames and   *)
(* model outputs are left out.  The clock counts seconds of the model.     *)
(***************************************************************************)
EXTENDS Naturals, Sequences, FiniteSets

CONSTANTS
    Cameras,
    Prefix,         \* [Cameras -> prefixes]: _slugify_cam_id of the camera's id
    Cooldown,       \* [Cameras -> Nat]: cooldown_sec of each camera
    EndEmpty,       \* session_end_empty_sec
    MaxSession,     \* session_max_sec
    MinSession,     \* min_session_sec
    MergeWindow,    \* session_merge_window_sec
    Margin,         \* the 120 s a pending clip waits beyond the merge window
    QueueMax,       \* inference_queue_max
    LastTick, MaxSessions, MaxTroubles   \* bounds of the model

ASSUME CamerasAssumption ==
    /\ Prefix \in [Cameras -> STRING]
    /\ Cameras \intersect {"dispatcher", "inference"} = {}
ASSUME SettingsAssumption ==
    /\ Cooldown \in [Cameras -> Nat]
    /\ {MinSession, MergeWindow, Margin} \subseteq Nat
    /\ {EndEmpty, MaxSession, QueueMax} \subseteq Nat \ {0}
ASSUME MonitorBoundsAssumption ==
    {LastTick, MaxSessions, MaxTroubles} \subseteq Nat

VARIABLES
    clock,      \* wall-clock time
    camera,     \* each CameraWorker: idle until the cooldown ends, or recording
    arrived,    \* the dispatcher's queue
    pending,    \* the dispatcher's clip of each camera, or <<>>
    waiting,    \* the inference queue
    worker,     \* what the inference worker is doing
    numbers,    \* SessionLogger._seq_by_prefix
    log,        \* the rows of today's CSV
    files,      \* evidence files by session id, with the start they are named for
    threads,    \* the threads that run: a worker for each camera, and the two behind
    main,       \* the life of the process: running, stopping, closed, down
    ended,      \* history: the sessions handed to the dispatcher
    parted,     \* history: pairs of sessions found dissimilar
    dropped,    \* clips the full inference queue refused (counted per camera)
    failed,     \* history: clips whose analysis raised
    lost,       \* history: clips that were in memory when a process ended
    spent       \* troubles so far: failures, stops, deaths

capture == <<camera, ended>>
dispatch == <<arrived, pending, parted>>
inference == <<waiting, dropped, worker, numbers, log, files, failed>>
process == <<threads, main, lost>>
vars == <<clock, capture, dispatch, inference, process, spent>>

Ready(t) == [mode |-> "idle", until |-> t]
Idle == [pc |-> "idle"]

Stopping == main # "running"

Threads == Cameras \union {"dispatcher", "inference"}

\* The thread's loop ends when it sees the stop and has nothing left to do.
ThreadEnds(thread) ==
    /\ Stopping
    /\ thread \in threads
    /\ threads' = threads \ {thread}
    /\ UNCHANGED <<clock, capture, dispatch, inference, main, lost, spent>>

Trouble ==
    /\ spent < MaxTroubles
    /\ spent' = spent + 1

Parts(clip) == {clip[i] : i \in 1..Len(clip)}
First(clip) == clip[1]
Last(clip) == clip[Len(clip)]

\* Nothing is recorded in the last tick, which stands for all the time after it.
Tick ==
    /\ clock < LastTick
    /\ clock' = clock + 1
    /\ UNCHANGED <<capture, dispatch, inference, process, spent>>

-----------------------------------------------------------------------------
(* A camera's worker: one sampled frame.  A frame that was read before the *)
(* stop is still processed; it is the thread's last, and a session that is *)
(* open then is abandoned.                                                 *)

Frame(c) ==
    /\ c \in threads
    /\ clock < LastTick
    /\ threads' = IF Stopping THEN threads \ {c} ELSE threads
    /\ UNCHANGED <<clock, pending, parted, inference, main, lost, spent>>

\* Motion, outside the cooldown.
StartSession(c) ==
    /\ Frame(c)
    /\ camera[c].mode = "idle"
    /\ camera[c].until <= clock
    /\ Cardinality(ended) < MaxSessions
    /\ camera' = [camera EXCEPT ![c] = [mode |-> "recording", start |-> clock, seen |-> clock]]
    /\ UNCHANGED <<ended, arrived>>

LastMotion(c, motion) == IF motion THEN clock ELSE camera[c].seen

ShouldEnd(c, seen) == clock - seen >= EndEmpty \/ clock - camera[c].start >= MaxSession

KeepRecording(c, motion) ==
    /\ Frame(c)
    /\ camera[c].mode = "recording"
    /\ ~ShouldEnd(c, LastMotion(c, motion))
    /\ camera' = [camera EXCEPT ![c] = [mode |-> "recording", start |-> @.start,
                                        seen |-> LastMotion(c, motion)]]
    /\ UNCHANGED <<ended, arrived>>

\* The clip goes to the dispatcher, unless it is too short.
EndSession(c, motion) ==
    /\ Frame(c)
    /\ camera[c].mode = "recording"
    /\ ShouldEnd(c, LastMotion(c, motion))
    /\ LET session == [cam |-> c, start |-> camera[c].start, end |-> clock]
       IN IF session.end - session.start >= MinSession
          THEN /\ arrived' = Append(arrived, session)
               /\ ended' = ended \union {session}
          ELSE UNCHANGED <<arrived, ended>>
    /\ camera' = [camera EXCEPT ![c] = Ready(clock + Cooldown[c])]

-----------------------------------------------------------------------------
(* The dispatcher.                                                         *)

\* Defect: the full queue makes room by forgetting its oldest clip.
EnqueueReplacing(clip) ==
    /\ waiting' = IF Len(waiting) < QueueMax THEN Append(waiting, clip)
                                             ELSE Append(Tail(waiting), clip)
    /\ UNCHANGED dropped

\* Defect: a queue without a limit.
EnqueueUnlimited(clip) ==
    /\ waiting' = Append(waiting, clip)
    /\ UNCHANGED dropped

\* InferenceWorker.enqueue.
Enqueue(clip) ==
    IF Len(waiting) < QueueMax
    THEN waiting' = Append(waiting, clip) /\ UNCHANGED dropped
    ELSE dropped' = dropped \union {clip} /\ UNCHANGED waiting

Receiving(session) ==
    /\ "dispatcher" \in threads
    /\ arrived # <<>>
    /\ session = Head(arrived)
    /\ arrived' = Tail(arrived)
    /\ UNCHANGED <<clock, capture, process, spent, worker, numbers, log, files, failed>>

\* Does the session start within the merge window after the pending clip?
Returns(session, clip) ==
    Last(clip).end <= session.start /\ session.start - Last(clip).end <= MergeWindow

ReceiveFirst(session) ==
    /\ Receiving(session)
    /\ pending[session.cam] = <<>>
    /\ pending' = [pending EXCEPT ![session.cam] = <<session>>]
    /\ UNCHANGED <<waiting, dropped, parted>>

\* The descriptions of the two clips are similar.
Merge(session) ==
    /\ Receiving(session)
    /\ pending[session.cam] # <<>>
    /\ Returns(session, pending[session.cam])
    /\ pending' = [pending EXCEPT ![session.cam] = Append(@, session)]
    /\ UNCHANGED <<waiting, dropped, parted>>

\* Defect: the session that came is handed on, and the pending clip stays.
ReplaceNew(session) ==
    /\ Receiving(session)
    /\ pending[session.cam] # <<>>
    /\ parted' = parted \union {<<Last(pending[session.cam]), session>>}
    /\ Enqueue(<<session>>)
    /\ UNCHANGED pending

\* Outside the window, or not similar: the pending clip is handed on.
Replace(session) ==
    /\ Receiving(session)
    /\ pending[session.cam] # <<>>
    /\ LET clip == pending[session.cam]
       IN /\ parted' = IF Returns(session, clip) THEN parted \union {<<Last(clip), session>>}
                                                 ELSE parted
          /\ Enqueue(clip)
    /\ pending' = [pending EXCEPT ![session.cam] = <<session>>]

\* Defect: a pending clip is stale when the merge window is over.
StaleAfterWindow(clip) == clock - Last(clip).end >= MergeWindow \/ clock = LastTick

\* Defect: only the camera's next session makes a pending clip go on.
NeverStale(clip) == FALSE

Stale(clip) == clock - Last(clip).end >= MergeWindow + Margin \/ clock = LastTick

\* Nothing has come for a second: stale clips are handed on.
FinalizeStale(c) ==
    /\ "dispatcher" \in threads
    /\ arrived = <<>>
    /\ pending[c] # <<>>
    /\ Stale(pending[c])
    /\ Enqueue(pending[c])
    /\ pending' = [pending EXCEPT ![c] = <<>>]
    /\ UNCHANGED <<clock, capture, arrived, parted, worker, numbers, log, files, failed,
                   process, spent>>

DispatcherEnds ==
    /\ arrived = <<>>
    /\ \A c \in Cameras : pending[c] = <<>>
    /\ ThreadEnds("dispatcher")

-----------------------------------------------------------------------------
(* The inference worker: analyze.                                          *)

\* Defect: the number is only read.
TakeClipUncounted ==
    /\ "inference" \in threads
    /\ worker.pc = "idle"
    /\ waiting # <<>>
    /\ LET clip == Head(waiting)
           p == Prefix[First(clip).cam]
       IN worker' = [pc |-> "analysing", clip |-> clip, sid |-> <<p, numbers[p] + 1>>]
    /\ waiting' = Tail(waiting)
    /\ UNCHANGED <<clock, capture, dispatch, dropped, numbers, log, files, failed, process, spent>>

\* The next clip, and its session id.
TakeClip ==
    /\ "inference" \in threads
    /\ worker.pc = "idle"
    /\ waiting # <<>>
    /\ LET clip == Head(waiting)
           p == Prefix[First(clip).cam]
       IN /\ numbers' = [numbers EXCEPT ![p] = @ + 1]
          /\ worker' = [pc |-> "analysing", clip |-> clip, sid |-> <<p, numbers[p] + 1>>]
    /\ waiting' = Tail(waiting)
    /\ UNCHANGED <<clock, capture, dispatch, dropped, log, files, failed, process, spent>>

\* Snapshot and MP4, named for the id and the start; a failure is only logged.
SaveEvidence(saved) ==
    /\ worker.pc = "analysing"
    /\ files' = IF saved THEN files \union {[sid |-> worker.sid, start |-> First(worker.clip).start]}
                         ELSE files
    /\ saved \/ Trouble
    /\ saved => UNCHANGED spent
    /\ worker' = [pc |-> "saved", clip |-> worker.clip, sid |-> worker.sid, saved |-> saved]
    /\ UNCHANGED <<clock, capture, dispatch, waiting, dropped, numbers, log, failed, process>>

LogRow ==
    /\ worker.pc = "saved"
    /\ main # "closed"
    /\ log' = Append(log, [sid |-> worker.sid, clip |-> worker.clip, saved |-> worker.saved])
    /\ worker' = Idle
    /\ UNCHANGED <<clock, capture, dispatch, waiting, dropped, numbers, files, failed, process, spent>>

\* The CSV is closed already, so that writing the row raises.
LogClosed ==
    /\ worker.pc = "saved"
    /\ main = "closed"
    /\ failed' = failed \union {worker.clip}
    /\ worker' = Idle
    /\ UNCHANGED <<clock, capture, dispatch, waiting, dropped, numbers, log, files, process, spent>>

\* A detector or provider raises, or the row cannot be written.
AnalysisRaises ==
    /\ worker.pc \in {"analysing", "saved"}
    /\ Trouble
    /\ failed' = failed \union {worker.clip}
    /\ worker' = Idle
    /\ UNCHANGED <<clock, capture, dispatch, waiting, dropped, numbers, log, files, process>>

InferenceEnds ==
    /\ worker.pc = "idle"
    /\ waiting = <<>>
    /\ ThreadEnds("inference")

-----------------------------------------------------------------------------
(* The process: stop_pipeline and start_pipeline.                          *)

RequestStop ==
    /\ main = "running"
    /\ main' = "stopping"
    /\ Trouble
    /\ UNCHANGED <<clock, capture, dispatch, inference, threads, lost>>

\* Each join has a time-out: the report is written and the log closed, whether or
\* not the threads have ended.
CloseLog ==
    /\ main = "stopping"
    /\ main' = "closed"
    /\ UNCHANGED <<clock, capture, dispatch, inference, threads, lost, spent>>

\* The clips that only this process knows.
InMemory ==
    {<<arrived[i]>> : i \in 1..Len(arrived)}
        \union {waiting[i] : i \in 1..Len(waiting)}
        \union {pending[c] : c \in {d \in Cameras : pending[d] # <<>>}}
        \union (IF worker.pc = "idle" THEN {} ELSE {worker.clip})

\* The threads are daemons: they end with the process, wherever they are.
EndProcess ==
    /\ main' = "down"
    /\ lost' = lost \union InMemory
    /\ threads' = {}
    /\ camera' = [c \in Cameras |-> Ready(0)]
    /\ arrived' = <<>>
    /\ pending' = [c \in Cameras |-> <<>>]
    /\ waiting' = <<>>
    /\ worker' = Idle
    /\ UNCHANGED <<clock, ended, parted, dropped, numbers, log, files, failed>>

ProcessExits ==
    /\ main = "closed"
    /\ EndProcess
    /\ UNCHANGED spent

\* Killed, or the power fails.  (During a stop it is no different from an exit.)
ProcessDies ==
    /\ main = "running"
    /\ Trouble
    /\ EndProcess

\* _rehydrate: the largest number logged for the prefix.
LastNumber(p) ==
    CHOOSE n \in {0} \union {log[i].sid[2] : i \in {j \in 1..Len(log) : log[j].sid[1] = p}} :
        \A i \in 1..Len(log) : log[i].sid[1] = p => log[i].sid[2] <= n

Boot ==
    /\ main = "down"
    /\ main' = "running"
    /\ threads' = Threads
    /\ numbers' = [p \in DOMAIN numbers |-> LastNumber(p)]
    /\ UNCHANGED <<clock, capture, dispatch, waiting, dropped, worker, log, files, failed, lost, spent>>

-----------------------------------------------------------------------------
Init ==
    /\ clock = 0
    /\ camera = [c \in Cameras |-> Ready(0)]
    /\ arrived = <<>>
    /\ pending = [c \in Cameras |-> <<>>]
    /\ waiting = <<>>
    /\ worker = Idle
    /\ numbers = [p \in {Prefix[c] : c \in Cameras} |-> 0]
    /\ log = <<>>
    /\ files = {}
    /\ threads = Threads
    /\ main = "running"
    /\ ended = {} /\ parted = {} /\ dropped = {} /\ failed = {} /\ lost = {}
    /\ spent = 0

CameraStep(c) ==
    \/ StartSession(c)
    \/ \E motion \in BOOLEAN : KeepRecording(c, motion) \/ EndSession(c, motion)

DispatcherStep ==
    \/ \E session \in ended : ReceiveFirst(session) \/ Merge(session) \/ Replace(session)
    \/ \E c \in Cameras : FinalizeStale(c)
    \/ DispatcherEnds

InferenceStep ==
    \/ TakeClip
    \/ \E saved \in BOOLEAN : SaveEvidence(saved)
    \/ LogRow
    \/ LogClosed
    \/ AnalysisRaises
    \/ InferenceEnds

ProcessStep == RequestStop \/ CloseLog \/ ProcessExits \/ ProcessDies \/ Boot

Next ==
    \/ Tick
    \/ \E c \in Cameras : CameraStep(c)
    \/ DispatcherStep
    \/ InferenceStep
    \/ ProcessStep

Spec == Init /\ [][Next]_vars

\* Time passes, and the two threads behind the cameras always come to their next
\* step: their queues are polled with a time-out and the calls they make return.  A
\* stop ends by itself; nobody has to ask for one, or to start the process again.
FairSpec ==
    /\ Spec
    /\ WF_vars(Tick)
    /\ WF_vars(DispatcherStep)
    /\ WF_vars(InferenceStep)
    /\ WF_vars(CloseLog)
    /\ WF_vars(ProcessExits)

-----------------------------------------------------------------------------
(* Type correctness.                                                       *)

SessionSet == [cam: Cameras, start: Nat, end: Nat]

CameraStates ==
    [mode: {"idle"}, until: Nat] \union [mode: {"recording"}, start: Nat, seen: Nat]

IdSet == {Prefix[c] : c \in Cameras} \X Nat

WorkerStates ==
    [pc: {"idle"}]
        \union [pc: {"analysing"}, clip: Seq(SessionSet), sid: IdSet]
        \union [pc: {"saved"}, clip: Seq(SessionSet), sid: IdSet, saved: BOOLEAN]

\* Every variable has the shape its declaration describes; the inference queue
\* keeps its limit.
TypeOK ==
    /\ clock \in Nat
    /\ camera \in [Cameras -> CameraStates]
    /\ arrived \in Seq(SessionSet)
    /\ pending \in [Cameras -> Seq(SessionSet)]
    /\ waiting \in Seq(Seq(SessionSet))
    /\ Len(waiting) <= QueueMax
    /\ worker \in WorkerStates
    /\ numbers \in [{Prefix[c] : c \in Cameras} -> Nat]
    /\ log \in Seq([sid: IdSet, clip: Seq(SessionSet), saved: BOOLEAN])
    /\ files \in SUBSET [sid: IdSet, start: Nat]
    /\ threads \subseteq Threads
    /\ main \in {"running", "stopping", "closed", "down"}
    /\ ended \in SUBSET SessionSet
    /\ parted \in SUBSET (SessionSet \X SessionSet)
    /\ {dropped, failed, lost} \subseteq SUBSET Seq(SessionSet)
    /\ spent \in Nat

-----------------------------------------------------------------------------
(* Safety.                                                                 *)

\* Every place a clip can be in.
Spots ==
    {<<"arrived", i, <<arrived[i]>>>> : i \in 1..Len(arrived)}
        \union {<<"pending", c, pending[c]>> : c \in Cameras}
        \union {<<"waiting", i, waiting[i]>> : i \in 1..Len(waiting)}
        \union (IF worker.pc = "idle" THEN {} ELSE {<<"worker", 0, worker.clip>>})
        \union {<<"log", i, log[i].clip>> : i \in 1..Len(log)}
        \union {<<"dropped", clip, clip>> : clip \in dropped}
        \union {<<"failed", clip, clip>> : clip \in failed}
        \union {<<"lost", clip, clip>> : clip \in lost}

\* A session that was handed to the dispatcher is in one clip and the clip in one
\* place: on its way, in the log, refused by the full queue, failed, or lost with
\* its process.  None is analysed twice and none disappears, through merges, full
\* queues, late finishes of a stop, crashes and restarts.
EachSessionOnce ==
    /\ \A s \in ended : \E p \in Spots :
          /\ s \in Parts(p[3])
          /\ \A q \in Spots : s \in Parts(q[3]) => q = p
    /\ \A p \in Spots : \A i, j \in 1..Len(p[3]) : p[3][i] = p[3][j] => i = j

\* The rows of a camera come in the order in which the sessions happened, and do
\* not overlap ("One row per analysed session", README.md).
RowsInOrder ==
    \A i, j \in 1..Len(log) :
        i < j /\ First(log[i].clip).cam = First(log[j].clip).cam
            => Last(log[i].clip).end <= First(log[j].clip).start

\* Clips the dispatcher has handed on and that did not go down with a process.
HandedOn ==
    {waiting[i] : i \in 1..Len(waiting)} \union {log[i].clip : i \in 1..Len(log)}
        \union dropped \union failed
        \union (IF worker.pc = "idle" THEN {} ELSE {worker.clip})

\* A session that starts within the merge window after the one before ends up in the
\* same clip, unless the two were found dissimilar: the pending clip waits long
\* enough for the next session to end, provided that the camera delivers.
ReturnsMerged ==
    \A a, b \in HandedOn :
        /\ First(a).cam = First(b).cam
        /\ Returns(First(b), a)
        /\ First(b).end < Last(a).end + MergeWindow + Margin
        /\ \A s \in ended : s.cam = First(a).cam =>
              s.end <= Last(a).end \/ s.start >= First(b).start
        => <<Last(a), First(b)>> \in parted

\* GET /snapshot/{session_id} and /videos/{session_id} take the newest file of the
\* id: for a row whose evidence was saved it is that row's, even when a process
\* that died had used the id for another clip.
EvidenceIsOwn ==
    \A i \in 1..Len(log) : log[i].saved =>
        \A f \in files : f.sid = log[i].sid => f.start <= First(log[i].clip).start

-----------------------------------------------------------------------------
(* Liveness, under FairSpec.                                               *)

\* When the customers stop coming, every session ends up in the log, or is dropped,
\* failed or lost: neither the dispatcher's polls nor the worker's queue keep one
\* back, in a running process or in one that stops.  (EachSessionOnce says that what
\* left the memory is in one of these places.)
SessionsSettle == <>[](InMemory = {})

=============================================================================
