-------------------------- MODULE LiveMonitorProofs --------------------------
(***************************************************************************)
(* Proofs about LiveMonitor, for any cameras, settings and bounds.         *)
(*                                                                         *)
(* ShapeInv is about the shapes of the state.  FlowInv follows the clips   *)
(* from the dispatcher's queue to the log: of one camera they never        *)
(* overtake each other, no two share any time, and no session is without a *)
(* clip.  With Timely, which puts sessions in the past, it gives the order *)
(* of the rows and the one place of each session.  FilesOld and IdsGiven   *)
(* then say what the files of an id can be when a process died with it.    *)
(* ReturnInv says why no session comes back to a clip that was handed on.  *)
(***************************************************************************)
EXTENDS LiveMonitor, TLAPS

Clips == Seq(SessionSet) \ {<<>>}
Rows == [sid: IdSet, clip: Clips, saved: BOOLEAN]

\* Only clips with a session are handed on.
ClipsFull ==
    /\ waiting \in Seq(Clips)
    /\ worker.pc # "idle" => worker.clip \in Clips
    /\ log \in Seq(Rows)

\* A session that is being recorded has begun.
CamerasTimed ==
    \A c \in Cameras : camera[c].mode = "recording" =>
        camera[c].start <= camera[c].seen /\ camera[c].seen <= clock

\* The numbers in the log have a maximum.
NumbersOf(p) == {0} \union {log[i].sid[2] : i \in {j \in 1..Len(log) : log[j].sid[1] = p}}
Tops(p, n) == \A i \in 1..Len(log) : log[i].sid[1] = p => log[i].sid[2] <= n
LogBounded == \A p \in DOMAIN numbers : \E n \in NumbersOf(p) : Tops(p, n)

ShapeInv == TypeOK /\ ClipsFull /\ CamerasTimed /\ LogBounded

-----------------------------------------------------------------------------
(* Shapes.                                                                 *)

\* First and last session of a clip.
LEMMA ClipEnds ==
    ASSUME NEW clip \in Clips
    PROVE  First(clip) \in SessionSet /\ Last(clip) \in SessionSet /\ Len(clip) \in Nat \ {0}
BY DEF Clips, First, Last

\* The fields of a session.
LEMMA SessionFields ==
    ASSUME NEW s \in SessionSet
    PROVE  s.cam \in Cameras /\ s.start \in Nat /\ s.end \in Nat
BY DEF SessionSet

\* One session is a clip, and a clip stays one when it grows.
LEMMA ClipGrows ==
    ASSUME NEW s \in SessionSet
    PROVE  <<s>> \in Clips /\ \A clip \in Seq(SessionSet) : Append(clip, s) \in Clips
<1>1. <<s>> \in Seq(SessionSet) /\ <<s>> # <<>>
  OBVIOUS
<1>2. ASSUME NEW clip \in Seq(SessionSet)
      PROVE  Append(clip, s) \in Seq(SessionSet) /\ Append(clip, s) # <<>>
  <2>1. Append(clip, s) \in Seq(SessionSet) /\ Len(Append(clip, s)) # 0
    OBVIOUS
  <2>2. Len(<< >>) = 0
    OBVIOUS
  <2>. QED
    BY <2>1, <2>2
<1>. QED
  BY <1>1, <1>2 DEF Clips

\* What the state of a camera may be.
LEMMA CameraShape ==
    ASSUME TypeOK, NEW c \in Cameras
    PROVE  /\ camera[c] \in CameraStates
           /\ camera[c].mode \in {"idle", "recording"}
           /\ camera[c].mode = "recording" => camera[c].start \in Nat /\ camera[c].seen \in Nat
           /\ camera[c].mode = "idle" => camera[c].until \in Nat
BY DEF TypeOK, CameraStates

\* A cooldown is a camera state.
LEMMA ReadyShape == ASSUME NEW t \in Nat PROVE Ready(t) \in CameraStates /\ Ready(t).mode = "idle"
BY DEF Ready, CameraStates

\* What the worker has in its hands.
LEMMA WorkerShape ==
    ASSUME TypeOK, worker.pc # "idle"
    PROVE  /\ worker.pc \in {"analysing", "saved"}
           /\ worker.clip \in Seq(SessionSet) /\ worker.sid \in IdSet
           /\ worker.pc = "saved" => worker.saved \in BOOLEAN
BY DEF TypeOK, WorkerStates

\* An idle worker is Idle.
LEMMA IdleShape ==
    ASSUME TypeOK
    PROVE  Idle \in WorkerStates /\ (worker.pc = "idle" => worker = Idle)
BY DEF TypeOK, WorkerStates, Idle

\* A prefix and a number are an id.
LEMMA IdShape ==
    /\ \A c \in Cameras, n \in Nat : <<Prefix[c], n>> \in IdSet
    /\ \A sid \in IdSet : sid[1] \in {Prefix[c] : c \in Cameras} /\ sid[2] \in Nat
                          /\ sid = <<sid[1], sid[2]>>
BY DEF IdSet

\* The first of a queue, and what is left of it.
LEMMA FirstOf ==
    ASSUME NEW S, NEW seq \in Seq(S), seq # <<>>
    PROVE  /\ Head(seq) \in S /\ Head(seq) = seq[1] /\ Tail(seq) \in Seq(S)
           /\ Len(seq) \in Nat \ {0} /\ Len(Tail(seq)) = Len(seq) - 1
           /\ \A i \in 1..Len(Tail(seq)) : Tail(seq)[i] = seq[i + 1] /\ i + 1 \in 1..Len(seq)
OBVIOUS

\* A queue that has grown.
LEMMA Grown ==
    ASSUME NEW S, NEW seq \in Seq(S), NEW x \in S
    PROVE  /\ Append(seq, x) \in Seq(S)
           /\ Len(seq) \in Nat /\ Len(Append(seq, x)) = Len(seq) + 1
           /\ \A i \in 1..Len(seq) : Append(seq, x)[i] = seq[i]
           /\ Append(seq, x)[Len(seq) + 1] = x
OBVIOUS

\* A row of the log.
LEMMA RowFields ==
    ASSUME NEW row \in Rows
    PROVE  row.sid \in IdSet /\ row.clip \in Clips /\ row.saved \in BOOLEAN
BY DEF Rows

\* _rehydrate finds the largest number of each prefix in the log.
LEMMA LastNumberIs ==
    ASSUME ShapeInv, NEW p \in DOMAIN numbers
    PROVE  LastNumber(p) \in Nat /\ Tops(p, LastNumber(p))
<1>1. PICK n \in NumbersOf(p) : Tops(p, n)
  BY DEF ShapeInv, LogBounded
<1>2. LastNumber(p) \in NumbersOf(p) /\ Tops(p, LastNumber(p))
  BY <1>1 DEF LastNumber, NumbersOf, Tops
<1>3. NumbersOf(p) \subseteq Nat
  BY RowFields, IdShape DEF ShapeInv, ClipsFull, NumbersOf
<1>. QED
  BY <1>2, <1>3

-----------------------------------------------------------------------------
(* Type correctness.                                                       *)

\* The inference queue after enqueue.
LEMMA EnqueueShape ==
    ASSUME TypeOK, ClipsFull, NEW clip \in Clips, Enqueue(clip)
    PROVE  /\ waiting' \in Seq(Clips) /\ waiting' \in Seq(Seq(SessionSet))
           /\ Len(waiting') <= QueueMax
           /\ dropped' \subseteq Seq(SessionSet)
<1>1. clip \in Seq(SessionSet) /\ QueueMax \in Nat
  BY SettingsAssumption DEF Clips
<1>2. CASE Len(waiting) < QueueMax
  <2>1. waiting' = Append(waiting, clip) /\ dropped' = dropped
    BY <1>2 DEF Enqueue
  <2>. QED
    BY <1>1, <1>2, <2>1, Grown DEF TypeOK, ClipsFull
<1>3. CASE ~(Len(waiting) < QueueMax)
  <2>1. waiting' = waiting /\ dropped' = dropped \union {clip}
    BY <1>3 DEF Enqueue
  <2>. QED
    BY <1>1, <2>1 DEF TypeOK, ClipsFull
<1>. QED
  BY <1>2, <1>3

\* As long as neither the log nor the prefixes change.
LEMMA BoundKept ==
    ASSUME LogBounded, log' = log, DOMAIN numbers' = DOMAIN numbers
    PROVE  LogBounded'
<1>1. \A p : NumbersOf(p)' = NumbersOf(p) /\ (\A n : Tops(p, n)' <=> Tops(p, n))
  BY DEF NumbersOf, Tops
<1>. QED
  BY <1>1 DEF LogBounded

\* The frame of a camera's step.
LEMMA FrameShape ==
    ASSUME TypeOK, NEW c \in Cameras, Frame(c)
    PROVE  /\ threads' \subseteq Threads
           /\ UNCHANGED <<clock, pending, parted, inference, main, lost, spent>>
BY DEF Frame, TypeOK

\* The steps of a camera.
LEMMA CameraShapes ==
    ASSUME ShapeInv, NEW c \in Cameras, CameraStep(c)
    PROVE  TypeOK' /\ ClipsFull' /\ CamerasTimed' /\ LogBounded'
<1>1. TypeOK /\ ClipsFull /\ CamerasTimed /\ LogBounded /\ clock \in Nat
  BY DEF ShapeInv, TypeOK
<1>2. Frame(c)
  BY DEF CameraStep, StartSession, KeepRecording, EndSession
<1>3. /\ threads' \subseteq Threads
      /\ UNCHANGED <<clock, pending, parted, waiting, dropped, worker, numbers, log, files,
                     failed, main, lost, spent>>
  BY <1>1, <1>2, FrameShape DEF inference
<1>4. /\ camera' \in [Cameras -> CameraStates]
      /\ CamerasTimed'
      /\ arrived' \in Seq(SessionSet)
      /\ ended' \in SUBSET SessionSet
  <2>1. CASE StartSession(c)
    <3>1. /\ camera' = [camera EXCEPT ![c] = [mode |-> "recording", start |-> clock, seen |-> clock]]
          /\ arrived' = arrived /\ ended' = ended
      BY <2>1 DEF StartSession
    <3>2. [mode |-> "recording", start |-> clock, seen |-> clock] \in CameraStates
      BY <1>1 DEF CameraStates
    <3>. QED
      BY <1>1, <1>3, <3>1, <3>2 DEF TypeOK, CamerasTimed
  <2>2. ASSUME NEW motion \in BOOLEAN, KeepRecording(c, motion)
        PROVE  <1>4!:
    <3>1. /\ camera[c].mode = "recording"
          /\ camera' = [camera EXCEPT ![c] = [mode |-> "recording", start |-> @.start,
                                               seen |-> LastMotion(c, motion)]]
          /\ arrived' = arrived /\ ended' = ended
      BY <2>2 DEF KeepRecording
    <3>2. /\ camera[c].start \in Nat /\ LastMotion(c, motion) \in Nat
          /\ camera[c].start <= LastMotion(c, motion) /\ LastMotion(c, motion) <= clock
      BY <1>1, <3>1, CameraShape DEF LastMotion, CamerasTimed
    <3>3. [mode |-> "recording", start |-> camera[c].start, seen |-> LastMotion(c, motion)]
             \in CameraStates
      BY <3>2 DEF CameraStates
    <3>. QED
      BY <1>1, <1>3, <3>1, <3>2, <3>3 DEF TypeOK, CamerasTimed
  <2>3. ASSUME NEW motion \in BOOLEAN, EndSession(c, motion)
        PROVE  <1>4!:
    <3> DEFINE session == [cam |-> c, start |-> camera[c].start, end |-> clock]
    <3>1. /\ camera[c].mode = "recording"
          /\ camera' = [camera EXCEPT ![c] = Ready(clock + Cooldown[c])]
          /\ \/ arrived' = Append(arrived, session) /\ ended' = ended \union {session}
             \/ arrived' = arrived /\ ended' = ended
      BY <2>3 DEF EndSession
    <3>2. session \in SessionSet
      BY <1>1, <3>1, CameraShape DEF SessionSet
    <3>3. clock + Cooldown[c] \in Nat
      BY <1>1, SettingsAssumption
    <3>4. Ready(clock + Cooldown[c]) \in CameraStates /\ Ready(clock + Cooldown[c]).mode = "idle"
      BY <3>3, ReadyShape
    <3>. HIDE DEF session
    <3>5. arrived' \in Seq(SessionSet) /\ ended' \in SUBSET SessionSet
      <4>1. arrived \in Seq(SessionSet) /\ ended \in SUBSET SessionSet
        BY <1>1 DEF TypeOK
      <4>. QED
        BY <3>1, <3>2, <4>1, Grown
    <3>. QED
      BY <1>1, <1>3, <3>1, <3>4, <3>5 DEF TypeOK, CamerasTimed
  <2>. QED
    BY <2>1, <2>2, <2>3 DEF CameraStep
<1>5. TypeOK'
  BY <1>1, <1>3, <1>4 DEF TypeOK
<1>6. ClipsFull'
  BY <1>1, <1>3 DEF ClipsFull
<1>7. LogBounded'
  BY <1>1, <1>3, BoundKept
<1>. QED
  BY <1>4, <1>5, <1>6, <1>7

\* The steps of the dispatcher.
LEMMA DispatcherShapes ==
    ASSUME ShapeInv, DispatcherStep
    PROVE  TypeOK' /\ ClipsFull' /\ CamerasTimed' /\ LogBounded'
<1>1. TypeOK /\ ClipsFull /\ CamerasTimed /\ LogBounded
  BY DEF ShapeInv
<1>2. /\ UNCHANGED <<clock, camera, ended, worker, numbers, log, files, failed, main, lost, spent>>
      /\ arrived' \in Seq(SessionSet)
      /\ pending' \in [Cameras -> Seq(SessionSet)]
      /\ waiting' \in Seq(Clips) /\ waiting' \in Seq(Seq(SessionSet)) /\ Len(waiting') <= QueueMax
      /\ dropped' \subseteq Seq(SessionSet)
      /\ parted' \in SUBSET (SessionSet \X SessionSet)
      /\ threads' \subseteq Threads
  <2>1. ASSUME NEW session \in ended, ReceiveFirst(session) \/ Merge(session) \/ Replace(session)
        PROVE  <1>2!:
    <3>1. Receiving(session)
      BY <2>1 DEF ReceiveFirst, Merge, Replace
    <3>2. /\ UNCHANGED <<clock, camera, ended, worker, numbers, log, files, failed, threads, main,
                         lost, spent>>
          /\ arrived # <<>> /\ arrived' = Tail(arrived)
      BY <3>1 DEF Receiving, capture, process
    <3>3. /\ session \in SessionSet /\ session.cam \in Cameras
          /\ arrived' \in Seq(SessionSet) /\ threads' \subseteq Threads
      BY <1>1, <3>2, FirstOf, SessionFields DEF TypeOK
    <3>4. <<session>> \in Seq(SessionSet)
      BY <3>3
    <3>5. CASE ReceiveFirst(session)
      <4>1. /\ pending' = [pending EXCEPT ![session.cam] = <<session>>]
            /\ UNCHANGED <<waiting, dropped, parted>>
        BY <3>5 DEF ReceiveFirst
      <4>. QED
        BY <1>1, <3>2, <3>3, <3>4, <4>1 DEF TypeOK, ClipsFull
    <3>6. CASE Merge(session)
      <4>1. /\ pending' = [pending EXCEPT ![session.cam] = Append(@, session)]
            /\ UNCHANGED <<waiting, dropped, parted>>
        BY <3>6 DEF Merge
      <4>2. Append(pending[session.cam], session) \in Seq(SessionSet)
        BY <1>1, <3>3 DEF TypeOK
      <4>. QED
        BY <1>1, <3>2, <3>3, <4>1, <4>2 DEF TypeOK, ClipsFull
    <3>7. CASE Replace(session)
      <4>1. /\ pending[session.cam] # <<>>
            /\ pending' = [pending EXCEPT ![session.cam] = <<session>>]
            /\ Enqueue(pending[session.cam])
            /\ parted' \in {parted, parted \union {<<Last(pending[session.cam]), session>>}}
        BY <3>7 DEF Replace
      <4>2. pending[session.cam] \in Clips
        BY <1>1, <3>3, <4>1 DEF TypeOK, Clips
      <4>3. Last(pending[session.cam]) \in SessionSet
        BY <4>2, ClipEnds
      <4>4. parted' \in SUBSET (SessionSet \X SessionSet)
        BY <1>1, <3>3, <4>1, <4>3 DEF TypeOK
      <4>5. pending' \in [Cameras -> Seq(SessionSet)]
        BY <1>1, <3>3, <3>4, <4>1 DEF TypeOK
      <4>. QED
        BY <1>1, <3>2, <3>3, <4>1, <4>2, <4>4, <4>5, EnqueueShape
    <3>. QED
      BY <2>1, <3>5, <3>6, <3>7
  <2>2. ASSUME NEW c \in Cameras, FinalizeStale(c)
        PROVE  <1>2!:
    <3>1. /\ UNCHANGED <<clock, camera, ended, arrived, parted, worker, numbers, log, files,
                         failed, threads, main, lost, spent>>
          /\ pending[c] # <<>> /\ Enqueue(pending[c])
          /\ pending' = [pending EXCEPT ![c] = <<>>]
      BY <2>2 DEF FinalizeStale, capture, process
    <3>2. pending[c] \in Clips
      BY <1>1, <3>1 DEF TypeOK, Clips
    <3>3. pending' \in [Cameras -> Seq(SessionSet)]
      <4>1. <<>> \in Seq(SessionSet)
        OBVIOUS
      <4>. QED
        BY <1>1, <3>1, <4>1 DEF TypeOK
    <3>. QED
      BY <1>1, <3>1, <3>2, <3>3, EnqueueShape DEF TypeOK
  <2>3. CASE DispatcherEnds
    BY <1>1, <2>3 DEF DispatcherEnds, ThreadEnds, capture, dispatch, inference, TypeOK, ClipsFull
  <2>. QED
    BY <2>1, <2>2, <2>3 DEF DispatcherStep
<1>3. TypeOK'
  BY <1>1, <1>2 DEF TypeOK
<1>4. ClipsFull' /\ CamerasTimed'
  BY <1>1, <1>2 DEF ClipsFull, CamerasTimed
<1>5. LogBounded'
  BY <1>1, <1>2, BoundKept
<1>. QED
  BY <1>3, <1>4, <1>5

\* The next clip and its id.
LEMMA TakenShape ==
    ASSUME ShapeInv, TakeClip
    PROVE  LET clip == Head(waiting)
               sid == <<Prefix[First(clip).cam], numbers[Prefix[First(clip).cam]] + 1>>
           IN  /\ clip \in Clips /\ clip = waiting[1] /\ sid \in IdSet
               /\ sid[1] \in DOMAIN numbers /\ numbers[sid[1]] \in Nat
               /\ numbers' = [numbers EXCEPT ![sid[1]] = sid[2]]
               /\ sid[2] = numbers[sid[1]] + 1
               /\ worker' = [pc |-> "analysing", clip |-> clip, sid |-> sid]
               /\ waiting' = Tail(waiting) /\ waiting # <<>>
               /\ worker.pc = "idle"
               /\ UNCHANGED <<clock, capture, dispatch, dropped, log, files, failed, process, spent>>
<1> DEFINE clip == Head(waiting)
           p == Prefix[First(clip).cam]
           sid == <<p, numbers[p] + 1>>
<1>1. waiting \in Seq(Clips) /\ waiting # <<>>
  BY DEF ShapeInv, ClipsFull, TakeClip
<1>2. clip \in Clips /\ clip = waiting[1]
  BY <1>1, FirstOf
<1>3. First(clip).cam \in Cameras
  BY <1>2, ClipEnds, SessionFields
<1>4. p \in DOMAIN numbers /\ numbers[p] \in Nat
  BY <1>3 DEF ShapeInv, TypeOK
<1>5. sid \in IdSet
  BY <1>3, <1>4, IdShape
<1>6. /\ numbers' = [numbers EXCEPT ![p] = @ + 1]
      /\ worker' = [pc |-> "analysing", clip |-> clip, sid |-> sid]
      /\ waiting' = Tail(waiting) /\ worker.pc = "idle"
      /\ UNCHANGED <<clock, capture, dispatch, dropped, log, files, failed, process, spent>>
  BY DEF TakeClip
<1>. QED
  BY <1>1, <1>2, <1>4, <1>5, <1>6

\* A row is logged: its number is known to the log.
LEMMA BoundGrows ==
    ASSUME ShapeInv, NEW row \in Rows, log' = Append(log, row), DOMAIN numbers' = DOMAIN numbers
    PROVE  LogBounded'
<1>1. log \in Seq(Rows) /\ log' \in Seq(Rows)
      /\ Len(log) \in Nat /\ Len(log') = Len(log) + 1
      /\ (\A i \in 1..Len(log) : log'[i] = log[i]) /\ log'[Len(log) + 1] = row
  BY Grown DEF ShapeInv, ClipsFull
<1>2. row.sid[2] \in Nat /\ \A i \in 1..Len(log) : log[i].sid[2] \in Nat
  BY <1>1, RowFields, IdShape
<1>3. ASSUME NEW p \in DOMAIN numbers
      PROVE  \E n \in NumbersOf(p)' : Tops(p, n)'
  <2>1. PICK n \in NumbersOf(p) : Tops(p, n)
    BY DEF ShapeInv, LogBounded
  <2>2. n \in Nat
    BY <1>2 DEF NumbersOf
  <2>3. \A i \in 1..Len(log') : log'[i] = row \/ (i \in 1..Len(log) /\ log'[i] = log[i])
    BY <1>1
  <2>4. CASE row.sid[1] = p /\ row.sid[2] > n
    <3>1. row.sid[2] \in NumbersOf(p)'
      <4>1. Len(log) + 1 \in {j \in 1..Len(log') : log'[j].sid[1] = p}
        BY <1>1, <2>4
      <4>. QED
        BY <1>1, <4>1 DEF NumbersOf
    <3>2. \A i \in 1..Len(log') : log'[i].sid[1] = p => log'[i].sid[2] <= row.sid[2]
      BY <1>2, <2>1, <2>2, <2>3, <2>4 DEF Tops
    <3>. QED
      BY <3>1, <3>2 DEF Tops
  <2>5. CASE ~(row.sid[1] = p /\ row.sid[2] > n)
    <3>1. n \in NumbersOf(p)'
      <4>1. CASE n = 0
        BY <4>1 DEF NumbersOf
      <4>2. CASE n # 0
        <5>1. PICK i \in 1..Len(log) : log[i].sid[1] = p /\ n = log[i].sid[2]
          BY <2>1, <4>2 DEF NumbersOf
        <5>2. i \in {j \in 1..Len(log') : log'[j].sid[1] = p} /\ log'[i].sid[2] = n
          BY <1>1, <5>1
        <5>. QED
          BY <5>2 DEF NumbersOf
      <4>. QED
        BY <4>1, <4>2
    <3>2. \A i \in 1..Len(log') : log'[i].sid[1] = p => log'[i].sid[2] <= n
      BY <1>2, <2>1, <2>2, <2>3, <2>5 DEF Tops
    <3>. QED
      BY <3>1, <3>2 DEF Tops
  <2>. QED
    BY <2>4, <2>5
<1>. QED
  BY <1>3 DEF LogBounded

\* The row a saved clip becomes.
LEMMA LoggedShape ==
    ASSUME ShapeInv, LogRow
    PROVE  LET row == [sid |-> worker.sid, clip |-> worker.clip, saved |-> worker.saved]
           IN  row \in Rows /\ log' = Append(log, row)
BY WorkerShape DEF ShapeInv, ClipsFull, LogRow, Rows

\* The steps of the inference worker.
LEMMA InferenceShapes ==
    ASSUME ShapeInv, InferenceStep
    PROVE  TypeOK' /\ ClipsFull' /\ CamerasTimed' /\ LogBounded'
<1>1. TypeOK /\ ClipsFull /\ CamerasTimed /\ LogBounded
  BY DEF ShapeInv
<1>2. CASE TakeClip
  <2> DEFINE clip == Head(waiting)
             sid == <<Prefix[First(clip).cam], numbers[Prefix[First(clip).cam]] + 1>>
  <2>1. /\ clip \in Clips /\ sid \in IdSet
        /\ sid[1] \in DOMAIN numbers /\ sid[2] = numbers[sid[1]] + 1 /\ numbers[sid[1]] \in Nat
        /\ numbers' = [numbers EXCEPT ![sid[1]] = sid[2]]
        /\ worker' = [pc |-> "analysing", clip |-> clip, sid |-> sid]
        /\ waiting' = Tail(waiting) /\ waiting # <<>>
        /\ UNCHANGED <<clock, camera, ended, arrived, pending, parted, dropped, log, files, failed,
                       threads, main, lost, spent>>
    BY <1>2, TakenShape DEF capture, dispatch, process
  <2>. HIDE DEF clip, sid
  <2>2. worker' \in WorkerStates /\ worker'.pc # "idle" /\ worker'.clip = clip
    BY <2>1 DEF WorkerStates, Clips
  <2>3. /\ waiting' \in Seq(Clips) /\ waiting' \in Seq(Seq(SessionSet)) /\ Len(waiting') <= QueueMax
    <3>1. /\ waiting \in Seq(Clips) /\ waiting \in Seq(Seq(SessionSet)) /\ Len(waiting) <= QueueMax
          /\ QueueMax \in Nat
      BY <1>1, SettingsAssumption DEF TypeOK, ClipsFull
    <3>. QED
      BY <2>1, <3>1, FirstOf
  <2>4. numbers' \in [DOMAIN numbers -> Nat]
    BY <1>1, <2>1 DEF TypeOK
  <2>5. TypeOK'
    BY <1>1, <2>1, <2>2, <2>3, <2>4 DEF TypeOK
  <2>6. ClipsFull' /\ CamerasTimed'
    BY <1>1, <2>1, <2>2, <2>3 DEF ClipsFull, CamerasTimed
  <2>. QED
    BY <1>1, <2>1, <2>4, <2>5, <2>6, BoundKept
<1>3. ASSUME NEW saved \in BOOLEAN, SaveEvidence(saved)
      PROVE  TypeOK' /\ ClipsFull' /\ CamerasTimed' /\ LogBounded'
  <2>1. /\ worker.pc = "analysing"
        /\ files' \in {files, files \union {[sid |-> worker.sid, start |-> First(worker.clip).start]}}
        /\ worker' = [pc |-> "saved", clip |-> worker.clip, sid |-> worker.sid, saved |-> saved]
        /\ UNCHANGED <<clock, camera, ended, arrived, pending, parted, waiting, dropped, numbers, log,
                       failed, threads, main, lost>>
    BY <1>3 DEF SaveEvidence, capture, dispatch, process
  <2>2. spent' \in Nat
    BY <1>1, <1>3 DEF SaveEvidence, Trouble, TypeOK
  <2>3. worker.clip \in Clips /\ worker.sid \in IdSet /\ worker.clip \in Seq(SessionSet)
    BY <1>1, <2>1, WorkerShape DEF ClipsFull
  <2>4. First(worker.clip).start \in Nat
    BY <2>3, ClipEnds, SessionFields
  <2>5. files' \in SUBSET [sid: IdSet, start: Nat]
    BY <1>1, <2>1, <2>3, <2>4 DEF TypeOK
  <2>6. worker' \in WorkerStates /\ worker'.clip = worker.clip
    BY <2>1, <2>3 DEF WorkerStates
  <2>. QED
    BY <1>1, <2>1, <2>2, <2>3, <2>5, <2>6, BoundKept DEF TypeOK, ClipsFull, CamerasTimed
<1>4. CASE LogRow
  <2> DEFINE row == [sid |-> worker.sid, clip |-> worker.clip, saved |-> worker.saved]
  <2>1. /\ row \in Rows /\ log' = Append(log, row) /\ worker' = Idle
        /\ UNCHANGED <<clock, camera, ended, arrived, pending, parted, waiting, dropped, numbers,
                       files, failed, threads, main, lost, spent>>
    BY <1>4, LoggedShape DEF LogRow, capture, dispatch, process
  <2>2. row \in [sid: IdSet, clip: Seq(SessionSet), saved: BOOLEAN]
    BY <2>1 DEF Rows, Clips
  <2>. HIDE DEF row
  <2>3. /\ log' \in Seq(Rows)
        /\ log' \in Seq([sid: IdSet, clip: Seq(SessionSet), saved: BOOLEAN])
    BY <1>1, <2>1, <2>2, Grown DEF TypeOK, ClipsFull
  <2>4. worker' \in WorkerStates /\ worker'.pc = "idle"
    BY <1>1, <2>1, IdleShape DEF Idle
  <2>. QED
    BY <1>1, <2>1, <2>3, <2>4, BoundGrows DEF TypeOK, ClipsFull, CamerasTimed
<1>5. CASE LogClosed \/ AnalysisRaises
  <2>1. /\ worker.pc # "idle"
        /\ failed' = failed \union {worker.clip} /\ worker' = Idle
        /\ UNCHANGED <<clock, camera, ended, arrived, pending, parted, waiting, dropped, numbers, log,
                       files, threads, main, lost>>
    BY <1>5 DEF LogClosed, AnalysisRaises, capture, dispatch, process
  <2>2. spent' \in Nat
    BY <1>1, <1>5 DEF LogClosed, AnalysisRaises, Trouble, TypeOK
  <2>3. worker.clip \in Seq(SessionSet)
    BY <1>1, <2>1, WorkerShape
  <2>4. worker' \in WorkerStates /\ worker'.pc = "idle"
    BY <1>1, <2>1, IdleShape DEF Idle
  <2>. QED
    BY <1>1, <2>1, <2>2, <2>3, <2>4, BoundKept DEF TypeOK, ClipsFull, CamerasTimed
<1>6. CASE InferenceEnds
  <2>1. /\ threads' \subseteq threads
        /\ UNCHANGED <<clock, camera, ended, arrived, pending, parted, waiting, dropped, worker,
                       numbers, log, files, failed, main, lost, spent>>
    BY <1>6 DEF InferenceEnds, ThreadEnds, capture, dispatch, inference
  <2>. QED
    BY <1>1, <2>1, BoundKept DEF TypeOK, ClipsFull, CamerasTimed
<1>. QED
  BY <1>2, <1>3, <1>4, <1>5, <1>6 DEF InferenceStep

\* What is in memory are clips.
LEMMA MemoryShape == ASSUME ShapeInv PROVE InMemory \subseteq Clips
<1>1. TypeOK /\ ClipsFull
  BY DEF ShapeInv
<1>2. \A i \in 1..Len(arrived) : <<arrived[i]>> \in Clips
  BY <1>1, ClipGrows DEF TypeOK
<1>3. \A i \in 1..Len(waiting) : waiting[i] \in Clips
  BY <1>1 DEF ClipsFull
<1>4. \A c \in Cameras : pending[c] # <<>> => pending[c] \in Clips
  BY <1>1 DEF TypeOK, Clips
<1>5. worker.pc # "idle" => worker.clip \in Clips
  BY <1>1 DEF ClipsFull
<1>. QED
  BY <1>2, <1>3, <1>4, <1>5 DEF InMemory

\* What the end of the process leaves.
LEMMA EndLeaves ==
    ASSUME ShapeInv, EndProcess
    PROVE  /\ main' = "down" /\ threads' = {}
           /\ lost' = lost \union InMemory
           /\ \A c \in Cameras : camera'[c] = Ready(0)
           /\ camera' \in [Cameras -> CameraStates]
           /\ arrived' = <<>> /\ waiting' = <<>> /\ worker' = Idle
           /\ pending' = [c \in Cameras |-> <<>>]
           /\ UNCHANGED <<clock, ended, parted, dropped, numbers, log, files, failed>>
BY ReadyShape DEF EndProcess

\* The steps of the process.
LEMMA ProcessShapes ==
    ASSUME ShapeInv, ProcessStep
    PROVE  TypeOK' /\ ClipsFull' /\ CamerasTimed' /\ LogBounded'
<1>1. TypeOK /\ ClipsFull /\ CamerasTimed /\ LogBounded
  BY DEF ShapeInv
<1>2. CASE RequestStop \/ CloseLog
  <2>1. /\ main' \in {"stopping", "closed"}
        /\ UNCHANGED <<clock, camera, ended, arrived, pending, parted, waiting, dropped, worker,
                       numbers, log, files, failed, threads, lost>>
    BY <1>2 DEF RequestStop, CloseLog, capture, dispatch, inference
  <2>2. spent' \in Nat
    BY <1>1, <1>2 DEF RequestStop, CloseLog, Trouble, TypeOK
  <2>. QED
    BY <1>1, <2>1, <2>2, BoundKept DEF TypeOK, ClipsFull, CamerasTimed
<1>3. CASE ProcessExits \/ ProcessDies
  <2>1. EndProcess /\ spent' \in Nat
    BY <1>1, <1>3 DEF ProcessExits, ProcessDies, Trouble, TypeOK
  <2>2. lost' \subseteq Seq(SessionSet)
    BY <1>1, <2>1, EndLeaves, MemoryShape DEF TypeOK, Clips
  <2>3. /\ arrived' \in Seq(SessionSet) /\ waiting' \in Seq(Clips)
        /\ waiting' \in Seq(Seq(SessionSet)) /\ Len(waiting') <= QueueMax
        /\ pending' \in [Cameras -> Seq(SessionSet)]
    <3>1. /\ <<>> \in Seq(SessionSet) /\ <<>> \in Seq(Clips) /\ <<>> \in Seq(Seq(SessionSet))
          /\ QueueMax \in Nat /\ Len(<< >>) = 0
      BY SettingsAssumption
    <3>2. arrived' = <<>> /\ waiting' = <<>> /\ pending' = [c \in Cameras |-> <<>>]
      BY <2>1, EndLeaves
    <3>. QED
      BY <3>1, <3>2
  <2>4. worker' \in WorkerStates /\ worker'.pc = "idle"
    BY <1>1, <2>1, EndLeaves, IdleShape DEF Idle
  <2>5. TypeOK'
    BY <1>1, <2>1, <2>2, <2>3, <2>4, EndLeaves DEF TypeOK
  <2>6. ClipsFull'
    BY <1>1, <2>1, <2>3, <2>4, EndLeaves DEF ClipsFull
  <2>7. CamerasTimed'
    BY <2>1, EndLeaves DEF CamerasTimed, Ready
  <2>8. log' = log /\ numbers' = numbers
    BY <2>1, EndLeaves
  <2>. QED
    BY <1>1, <2>5, <2>6, <2>7, <2>8, BoundKept
<1>4. CASE Boot
  <2>1. /\ main' = "running" /\ threads' = Threads
        /\ numbers' = [p \in DOMAIN numbers |-> LastNumber(p)]
        /\ UNCHANGED <<clock, camera, ended, arrived, pending, parted, waiting, dropped, worker,
                       log, files, failed, lost, spent>>
    BY <1>4 DEF Boot, capture, dispatch
  <2>2. numbers' \in [DOMAIN numbers -> Nat]
    BY <2>1, LastNumberIs
  <2>. QED
    BY <1>1, <2>1, <2>2, BoundKept DEF TypeOK, ClipsFull, CamerasTimed
<1>. QED
  BY <1>2, <1>3, <1>4 DEF ProcessStep

\* The first state.
LEMMA ShapeInit == Init => ShapeInv
<1> SUFFICES ASSUME Init PROVE ShapeInv
  OBVIOUS
<1>1. /\ QueueMax \in Nat /\ Len(<< >>) = 0
      /\ \A S : <<>> \in Seq(S)
  BY SettingsAssumption
<1>2. camera \in [Cameras -> CameraStates] /\ \A c \in Cameras : camera[c].mode = "idle"
  BY ReadyShape DEF Init
<1>3. worker \in WorkerStates /\ worker.pc = "idle"
  BY DEF Init, Idle, WorkerStates
<1>4. numbers \in [{Prefix[c] : c \in Cameras} -> Nat]
  BY DEF Init
<1>5. TypeOK
  BY <1>1, <1>2, <1>3, <1>4 DEF Init, TypeOK
<1>6. ClipsFull /\ CamerasTimed
  BY <1>1, <1>2, <1>3 DEF Init, ClipsFull, CamerasTimed
<1>7. LogBounded
  <2>1. Len(log) = 0
    BY <1>1 DEF Init
  <2>. QED
    BY <2>1 DEF LogBounded, NumbersOf, Tops
<1>. QED
  BY <1>5, <1>6, <1>7 DEF ShapeInv

\* Every step keeps the shapes.
LEMMA ShapeStep == ShapeInv /\ [Next]_vars => ShapeInv'
<1> SUFFICES ASSUME ShapeInv, [Next]_vars PROVE ShapeInv'
  OBVIOUS
<1>1. CASE Tick
  <2>1. /\ clock' = clock + 1 /\ clock \in Nat
        /\ UNCHANGED <<camera, ended, arrived, pending, parted, waiting, dropped, worker,
                       numbers, log, files, failed, threads, main, lost, spent>>
    BY <1>1 DEF Tick, capture, dispatch, inference, process, ShapeInv, TypeOK
  <2>2. TypeOK' /\ ClipsFull'
    BY <2>1 DEF ShapeInv, TypeOK, ClipsFull
  <2>3. CamerasTimed'
    BY <2>1, CameraShape DEF ShapeInv, CamerasTimed
  <2>. QED
    BY <2>1, <2>2, <2>3, BoundKept DEF ShapeInv
<1>2. ASSUME NEW c \in Cameras, CameraStep(c) PROVE ShapeInv'
  BY <1>2, CameraShapes DEF ShapeInv
<1>3. CASE DispatcherStep
  BY <1>3, DispatcherShapes DEF ShapeInv
<1>4. CASE InferenceStep
  BY <1>4, InferenceShapes DEF ShapeInv
<1>5. CASE ProcessStep
  BY <1>5, ProcessShapes DEF ShapeInv
<1>6. CASE UNCHANGED vars
  BY <1>6, BoundKept DEF vars, capture, dispatch, inference, process, ShapeInv, TypeOK,
     ClipsFull, CamerasTimed
<1>. QED
  BY <1>1, <1>2, <1>3, <1>4, <1>5, <1>6 DEF Next

\* TypeOK holds in every reachable state of the monitor (app.py, monitor.py), the
\* bound of the inference queue with it.
THEOREM TypeCorrect == Spec => []TypeOK
<1>1. ShapeInv => TypeOK
  BY DEF ShapeInv
<1>. QED
  BY <1>1, ShapeInit, ShapeStep, PTL DEF Spec

-----------------------------------------------------------------------------
(* Where clips are, from the log back to the dispatcher's queue.           *)

Logged == {log[i].clip : i \in 1..Len(log)}
InWork == IF worker.pc = "idle" THEN {} ELSE {worker.clip}
Queued == {waiting[i] : i \in 1..Len(waiting)}
Pending == {pending[c] : c \in {d \in Cameras : pending[d] # <<>>}}
Arrived == {<<arrived[i]>> : i \in 1..Len(arrived)}
Gone == dropped \union failed \union lost
Everywhere == Logged \union InWork \union Queued \union Pending \union Arrived \union Gone

\* Sessions are over, and before the one the camera is recording.
Timely ==
    \A s \in ended :
        /\ s.start < s.end /\ s.end <= clock
        /\ camera[s.cam].mode = "recording" => s.end <= camera[s.cam].start

\* A clip's sessions are of one camera, one after the other.
Whole(clip) ==
    /\ clip \in Clips
    /\ \A i \in 1..Len(clip) : clip[i].cam = First(clip).cam /\ clip[i].start < clip[i].end
    /\ \A i, j \in 1..Len(clip) : i < j => clip[i].end <= clip[j].start

ClipsWhole ==
    /\ \A clip \in Everywhere : Whole(clip) /\ Parts(clip) \subseteq ended
    /\ \A c \in Cameras : pending[c] # <<>> => First(pending[c]).cam = c

\* Of one camera, the first clip is over when the second begins.
Before(a, b) == First(a).cam = First(b).cam => Last(a).end <= First(b).start
Ahead(S, T) == \A a \in S, b \in T : Before(a, b)
Apart(a, b) == Before(a, b) \/ Before(b, a)

\* Clips of a camera never overtake one another on their way to the log, a lost clip
\* was not overtaken by what is still with the dispatcher, and the places have no
\* clip in common.
Placed ==
    /\ Ahead(Logged, InWork \union Queued \union Pending \union Arrived)
    /\ Ahead(InWork, Queued \union Pending \union Arrived)
    /\ Ahead(Queued, Pending \union Arrived)
    /\ Ahead(Pending, Arrived)
    /\ Ahead(Gone, Pending \union Arrived)
    /\ Gone \intersect (Logged \union InWork \union Queued) = {}
    /\ dropped \intersect failed = {} /\ dropped \intersect lost = {} /\ failed \intersect lost = {}

\* The queues and the log keep the order.
LogOrdered == \A i, j \in 1..Len(log) : i < j => Before(log[i].clip, log[j].clip)
WaitingOrdered == \A i, j \in 1..Len(waiting) : i < j => Before(waiting[i], waiting[j])
ArrivedOrdered == \A i, j \in 1..Len(arrived) : i < j => Before(<<arrived[i]>>, <<arrived[j]>>)

\* Two clips share no time of a camera.
Separate == \A a, b \in Everywhere : a = b \/ Apart(a, b)

\* No session disappears.
Covered == \A s \in ended : \E clip \in Everywhere : s \in Parts(clip)

\* A process that is down has nothing in memory, and its cameras record nothing.
DownEmpty ==
    main = "down" => /\ InMemory = {} /\ threads = {} /\ worker.pc = "idle"
                     /\ \A c \in Cameras : camera[c].mode = "idle"

\* Ids in the log have been given, and the worker's is greater than those of its prefix.
IdsGiven ==
    /\ \A i \in 1..Len(log) : log[i].sid[2] <= numbers[log[i].sid[1]]
    /\ worker.pc # "idle" =>
          /\ worker.sid[2] <= numbers[worker.sid[1]]
          /\ \A i \in 1..Len(log) : log[i].sid[1] = worker.sid[1] => log[i].sid[2] < worker.sid[2]

\* Files of an id this process has not given yet are of a process before it, and
\* older than everything it knows.
FilesOld ==
    /\ \A f \in files : f.start <= clock
    /\ \A f \in files : f.sid[2] > numbers[f.sid[1]] =>
          /\ \A clip \in Queued \union Pending \union Arrived : f.start <= First(clip).start
          /\ \A c \in Cameras : camera[c].mode = "recording" => f.start <= camera[c].start
    /\ worker.pc # "idle" =>
          \A f \in files : f.sid = worker.sid => f.start <= First(worker.clip).start
    /\ \A i \in 1..Len(log) : \A f \in files : f.sid = log[i].sid => f.start <= First(log[i].clip).start

Ordered == LogOrdered /\ WaitingOrdered /\ ArrivedOrdered
FlowInv == ClipsWhole /\ Placed /\ Ordered /\ Separate /\ Covered

-----------------------------------------------------------------------------
(* Clips.                                                                  *)

\* A whole clip lasts from its first session to its last.
LEMMA WholeEnds ==
    ASSUME NEW clip, Whole(clip)
    PROVE  /\ First(clip) \in SessionSet /\ Last(clip) \in SessionSet
           /\ First(clip).start \in Nat /\ Last(clip).end \in Nat
           /\ First(clip).start < Last(clip).end
           /\ \A s \in Parts(clip) :
                 /\ s \in SessionSet /\ s.cam = First(clip).cam
                 /\ First(clip).start <= s.start /\ s.start < s.end /\ s.end <= Last(clip).end
<1>1. /\ clip \in Clips /\ Len(clip) \in Nat \ {0}
      /\ First(clip) \in SessionSet /\ Last(clip) \in SessionSet
      /\ 1 \in 1..Len(clip) /\ Len(clip) \in 1..Len(clip)
  BY ClipEnds DEF Whole
<1>2. \A i \in 1..Len(clip) : clip[i] \in SessionSet /\ clip[i].start \in Nat /\ clip[i].end \in Nat
  <2>1. \A i \in 1..Len(clip) : clip[i] \in SessionSet
    BY <1>1 DEF Clips
  <2>. QED
    BY <2>1, SessionFields
<1>3. ASSUME NEW i \in 1..Len(clip)
      PROVE  /\ clip[i].cam = First(clip).cam
             /\ First(clip).start <= clip[i].start /\ clip[i].start < clip[i].end
             /\ clip[i].end <= Last(clip).end
  <2>1. clip[i].cam = First(clip).cam /\ clip[i].start < clip[i].end
    BY DEF Whole
  <2>2. First(clip).start <= clip[i].start
    <3>1. CASE i = 1
      BY <1>2, <3>1 DEF First
    <3>2. CASE i # 1
      <4>1. clip[1].end <= clip[i].start /\ clip[1].start < clip[1].end
        BY <1>1, <3>2 DEF Whole
      <4>. QED
        BY <1>1, <1>2, <4>1 DEF First
    <3>. QED
      BY <3>1, <3>2
  <2>3. clip[i].end <= Last(clip).end
    <3>1. CASE i = Len(clip)
      BY <1>2, <3>1 DEF Last
    <3>2. CASE i # Len(clip)
      <4>1. clip[i].end <= clip[Len(clip)].start /\ clip[Len(clip)].start < clip[Len(clip)].end
        BY <1>1, <3>2 DEF Whole
      <4>. QED
        BY <1>1, <1>2, <4>1 DEF Last
    <3>. QED
      BY <3>1, <3>2
  <2>. QED
    BY <2>1, <2>2, <2>3
<1>4. First(clip).start < Last(clip).end
  <2>1. First(clip).start < clip[1].end /\ clip[1].end <= Last(clip).end
    BY <1>1, <1>3 DEF First
  <2>. QED
    BY <1>1, <1>2, <2>1, SessionFields
<1>5. First(clip).start \in Nat /\ Last(clip).end \in Nat
  BY <1>1, SessionFields
<1>6. \A s \in Parts(clip) : \E i \in 1..Len(clip) : s = clip[i]
  BY DEF Parts
<1>. QED
  BY <1>1, <1>2, <1>3, <1>4, <1>5, <1>6

\* A session alone is a whole clip.
LEMMA SingleWhole ==
    ASSUME NEW s \in SessionSet, s.start < s.end
    PROVE  /\ Whole(<<s>>) /\ First(<<s>>) = s /\ Last(<<s>>) = s /\ Parts(<<s>>) = {s}
<1>1. <<s>> \in Clips /\ Len(<<s>>) = 1 /\ <<s>>[1] = s
  BY ClipGrows
<1>2. First(<<s>>) = s /\ Last(<<s>>) = s
  BY <1>1 DEF First, Last
<1>3. Parts(<<s>>) = {s}
  BY <1>1 DEF Parts
<1>4. Whole(<<s>>)
  BY <1>1, <1>2 DEF Whole
<1>. QED
  BY <1>2, <1>3, <1>4

\* A clip merged with a later session of its camera is a whole clip.
LEMMA MergedWhole ==
    ASSUME NEW clip, Whole(clip), NEW s \in SessionSet, s.start < s.end,
           s.cam = First(clip).cam, Last(clip).end <= s.start
    PROVE  LET merged == Append(clip, s)
           IN  /\ Whole(merged) /\ First(merged) = First(clip) /\ Last(merged) = s
               /\ Parts(merged) = Parts(clip) \union {s}
<1> DEFINE merged == Append(clip, s)
<1>1. clip \in Seq(SessionSet) /\ clip \in Clips /\ Len(clip) \in Nat \ {0}
  BY ClipEnds DEF Whole, Clips
<1>2. /\ merged \in Clips /\ Len(merged) = Len(clip) + 1
      /\ \A i \in 1..Len(clip) : merged[i] = clip[i]
      /\ merged[Len(clip) + 1] = s
  <2>1. merged \in Clips
    BY <1>1, ClipGrows
  <2>2. /\ Len(merged) = Len(clip) + 1
        /\ \A i \in 1..Len(clip) : merged[i] = clip[i]
        /\ merged[Len(clip) + 1] = s
    BY <1>1, Grown
  <2>. QED
    BY <2>1, <2>2
<1>. HIDE DEF merged
<1>3. First(merged) = First(clip) /\ Last(merged) = s
  BY <1>1, <1>2 DEF First, Last
<1>4. Parts(merged) = Parts(clip) \union {s}
  <2>1. \A i \in 1..Len(merged) : i \in 1..Len(clip) \/ i = Len(clip) + 1
    BY <1>1, <1>2
  <2>2. \A i \in 1..Len(clip) : i \in 1..Len(merged)
    BY <1>1, <1>2
  <2>3. Len(clip) + 1 \in 1..Len(merged)
    BY <1>1, <1>2
  <2>4. Parts(merged) \subseteq Parts(clip) \union {s}
    BY <1>2, <2>1 DEF Parts
  <2>5. Parts(clip) \subseteq Parts(merged) /\ s \in Parts(merged)
    BY <1>2, <2>2, <2>3 DEF Parts
  <2>. QED
    BY <2>4, <2>5
<1>5. \A i \in 1..Len(clip) : clip[i].end <= s.start
  <2>1. \A i \in 1..Len(clip) : clip[i] \in Parts(clip)
    BY DEF Parts
  <2>2. \A i \in 1..Len(clip) : clip[i].end <= Last(clip).end /\ clip[i].end \in Nat
    BY <2>1, WholeEnds, SessionFields
  <2>. QED
    BY <2>2, WholeEnds, SessionFields
<1>6. Whole(merged)
  <2>1. ASSUME NEW i \in 1..Len(merged)
        PROVE  merged[i].cam = First(merged).cam /\ merged[i].start < merged[i].end
    BY <1>1, <1>2, <1>3 DEF Whole
  <2>2. ASSUME NEW i \in 1..Len(merged), NEW j \in 1..Len(merged), i < j
        PROVE  merged[i].end <= merged[j].start
    <3>1. i \in 1..Len(clip)
      BY <1>1, <1>2, <2>2
    <3>2. CASE j \in 1..Len(clip)
      BY <1>2, <2>2, <3>1, <3>2 DEF Whole
    <3>3. CASE j = Len(clip) + 1
      BY <1>2, <1>5, <3>1, <3>3
    <3>. QED
      BY <1>1, <1>2, <3>2, <3>3
  <2>. QED
    BY <1>2, <2>1, <2>2 DEF Whole
<1>. QED
  BY <1>3, <1>4, <1>6 DEF merged

\* Clips that share no time share no session, and no clip is apart from itself.
LEMMA ApartDisjoint ==
    ASSUME NEW a, NEW b, Whole(a), Whole(b), Apart(a, b)
    PROVE  Parts(a) \intersect Parts(b) = {} /\ a # b
<1>1. ASSUME NEW s \in Parts(a), s \in Parts(b) PROVE FALSE
  <2>1. /\ First(a).cam = First(b).cam
        /\ First(a).start <= s.start /\ First(b).start <= s.start
        /\ s.start < s.end /\ s.end <= Last(a).end /\ s.end <= Last(b).end
        /\ s.start \in Nat /\ s.end \in Nat
        /\ First(a).start \in Nat /\ First(b).start \in Nat
        /\ Last(a).end \in Nat /\ Last(b).end \in Nat
    BY <1>1, WholeEnds, SessionFields
  <2>. QED
    BY <2>1 DEF Apart, Before
<1>2. a # b
  BY WholeEnds DEF Apart, Before
<1>. QED
  BY <1>1, <1>2

\* A whole clip is not before itself.
LEMMA NotBeforeItself == ASSUME NEW a, Whole(a) PROVE ~Before(a, a)
BY WholeEnds DEF Before

\* The places are among everywhere, and memory is what is not logged or gone.
LEMMA Places ==
    /\ Everywhere = Logged \union InMemory \union Gone
    /\ InMemory = InWork \union Queued \union Pending \union Arrived
BY DEF Everywhere, InMemory, InWork, Queued, Pending, Arrived

-----------------------------------------------------------------------------
(* What the steps do to the places.                                        *)

\* The dispatcher's queue after the next session was taken from it.
LEMMA ArrivedLess ==
    ASSUME ShapeInv, ArrivedOrdered, arrived # <<>>, arrived' = Tail(arrived)
    PROVE  /\ Head(arrived) \in SessionSet
           /\ Arrived = Arrived' \union {<<Head(arrived)>>}
           /\ Ahead({<<Head(arrived)>>}, Arrived')
           /\ ArrivedOrdered'
<1>1. arrived \in Seq(SessionSet)
  BY DEF ShapeInv, TypeOK
<1>2. /\ Head(arrived) \in SessionSet /\ Head(arrived) = arrived[1]
      /\ Len(arrived) \in Nat \ {0} /\ Len(arrived') = Len(arrived) - 1
      /\ \A i \in 1..Len(arrived') : arrived'[i] = arrived[i + 1] /\ i + 1 \in 1..Len(arrived)
  BY <1>1, FirstOf
<1>3. 1 \in 1..Len(arrived)
      /\ \A i \in 1..Len(arrived) : i = 1 \/ (i - 1 \in 1..Len(arrived') /\ arrived[i] = arrived'[i - 1])
  <2>1. \A i \in 1..Len(arrived) : i = 1 \/ (i - 1 \in 1..Len(arrived') /\ (i - 1) + 1 = i)
    BY <1>2
  <2>. QED
    BY <1>2, <2>1
<1>4. Arrived = Arrived' \union {<<Head(arrived)>>}
  <2>1. \A i \in 1..Len(arrived) : <<arrived[i]>> \in Arrived' \union {<<Head(arrived)>>}
    <3>1. ASSUME NEW i \in 1..Len(arrived), i # 1 PROVE <<arrived[i]>> \in Arrived'
      <4>1. i - 1 \in 1..Len(arrived') /\ <<arrived[i]>> = <<arrived'[i - 1]>>
        BY <1>3, <3>1
      <4>. QED
        BY <4>1 DEF Arrived
    <3>. QED
      BY <1>2, <3>1
  <2>2. \A i \in 1..Len(arrived') : <<arrived'[i]>> \in Arrived
    BY <1>2 DEF Arrived
  <2>3. <<Head(arrived)>> \in Arrived
    BY <1>2, <1>3 DEF Arrived
  <2>. QED
    BY <2>1, <2>2, <2>3 DEF Arrived
<1>5. Ahead({<<Head(arrived)>>}, Arrived')
  <2>1. \A i \in 1..Len(arrived') : Before(<<arrived[1]>>, <<arrived'[i]>>)
    <3>1. \A i \in 1..Len(arrived') : 1 < i + 1
      OBVIOUS
    <3>. QED
      BY <1>2, <1>3, <3>1 DEF ArrivedOrdered
  <2>. QED
    BY <1>2, <2>1 DEF Ahead, Arrived
<1>6. ArrivedOrdered'
  <2>1. \A i, j \in 1..Len(arrived') : i < j => i + 1 < j + 1
    OBVIOUS
  <2>. QED
    BY <1>2, <2>1 DEF ArrivedOrdered
<1>. QED
  BY <1>2, <1>4, <1>5, <1>6

\* The dispatcher's queue after a session came.
LEMMA ArrivedMore ==
    ASSUME ShapeInv, ArrivedOrdered, NEW s \in SessionSet, arrived' = Append(arrived, s),
           Ahead(Arrived, {<<s>>})
    PROVE  Arrived' = Arrived \union {<<s>>} /\ ArrivedOrdered'
<1>1. /\ Len(arrived) \in Nat /\ Len(arrived') = Len(arrived) + 1
      /\ \A i \in 1..Len(arrived) : arrived'[i] = arrived[i]
      /\ arrived'[Len(arrived) + 1] = s
  BY Grown DEF ShapeInv, TypeOK
<1>2. /\ \A i \in 1..Len(arrived') : i \in 1..Len(arrived) \/ i = Len(arrived) + 1
      /\ \A i \in 1..Len(arrived) : i \in 1..Len(arrived')
      /\ Len(arrived) + 1 \in 1..Len(arrived')
  BY <1>1
<1>3. Arrived' = Arrived \union {<<s>>}
  BY <1>1, <1>2 DEF Arrived
<1>4. ASSUME NEW i \in 1..Len(arrived'), NEW j \in 1..Len(arrived'), i < j
      PROVE  Before(<<arrived'[i]>>, <<arrived'[j]>>)
  <2>1. i \in 1..Len(arrived)
    BY <1>1, <1>4
  <2>2. CASE j \in 1..Len(arrived)
    BY <1>1, <1>4, <2>1, <2>2 DEF ArrivedOrdered
  <2>3. CASE j = Len(arrived) + 1
    BY <1>1, <2>1, <2>3 DEF Ahead, Arrived
  <2>. QED
    BY <1>2, <2>2, <2>3
<1>. QED
  BY <1>3, <1>4 DEF ArrivedOrdered

\* The inference queue after enqueue: the clip is in it, or dropped.
LEMMA EnqueuePlaces ==
    ASSUME ShapeInv, WaitingOrdered, NEW clip \in Clips, Enqueue(clip), Ahead(Queued, {clip})
    PROVE  /\ WaitingOrdered'
           /\ \/ Queued' = Queued \union {clip} /\ dropped' = dropped
              \/ Queued' = Queued /\ dropped' = dropped \union {clip}
<1>1. CASE waiting' = Append(waiting, clip) /\ dropped' = dropped
  <2>1. /\ Len(waiting) \in Nat /\ Len(waiting') = Len(waiting) + 1
        /\ \A i \in 1..Len(waiting) : waiting'[i] = waiting[i]
        /\ waiting'[Len(waiting) + 1] = clip
    BY <1>1, Grown DEF ShapeInv, ClipsFull
  <2>2. /\ \A i \in 1..Len(waiting') : i \in 1..Len(waiting) \/ i = Len(waiting) + 1
        /\ \A i \in 1..Len(waiting) : i \in 1..Len(waiting')
        /\ Len(waiting) + 1 \in 1..Len(waiting')
    BY <2>1
  <2>3. Queued' = Queued \union {clip}
    BY <2>1, <2>2 DEF Queued
  <2>4. ASSUME NEW i \in 1..Len(waiting'), NEW j \in 1..Len(waiting'), i < j
        PROVE  Before(waiting'[i], waiting'[j])
    <3>1. i \in 1..Len(waiting)
      BY <2>1, <2>4
    <3>2. CASE j \in 1..Len(waiting)
      BY <2>1, <2>4, <3>1, <3>2 DEF WaitingOrdered
    <3>3. CASE j = Len(waiting) + 1
      BY <2>1, <3>1, <3>3 DEF Ahead, Queued
    <3>. QED
      BY <2>2, <3>2, <3>3
  <2>. QED
    BY <1>1, <2>3, <2>4 DEF WaitingOrdered
<1>2. CASE waiting' = waiting /\ dropped' = dropped \union {clip}
  BY <1>2 DEF WaitingOrdered, Queued
<1>. QED
  BY <1>1, <1>2 DEF Enqueue

\* The inference queue after the worker took the next clip.
LEMMA WaitingLess ==
    ASSUME ShapeInv, WaitingOrdered, waiting # <<>>, waiting' = Tail(waiting)
    PROVE  /\ Queued = Queued' \union {Head(waiting)}
           /\ Ahead({Head(waiting)}, Queued')
           /\ WaitingOrdered'
<1>1. waiting \in Seq(Clips)
  BY DEF ShapeInv, ClipsFull
<1>2. /\ Head(waiting) = waiting[1]
      /\ Len(waiting) \in Nat \ {0} /\ Len(waiting') = Len(waiting) - 1
      /\ \A i \in 1..Len(waiting') : waiting'[i] = waiting[i + 1] /\ i + 1 \in 1..Len(waiting)
  BY <1>1, FirstOf
<1>3. 1 \in 1..Len(waiting)
      /\ \A i \in 1..Len(waiting) : i = 1 \/ (i - 1 \in 1..Len(waiting') /\ waiting[i] = waiting'[i - 1])
  <2>1. \A i \in 1..Len(waiting) : i = 1 \/ (i - 1 \in 1..Len(waiting') /\ (i - 1) + 1 = i)
    BY <1>2
  <2>. QED
    BY <1>2, <2>1
<1>4. Queued = Queued' \union {Head(waiting)}
  BY <1>2, <1>3 DEF Queued
<1>5. Ahead({Head(waiting)}, Queued')
  <2>1. \A i \in 1..Len(waiting') : Before(waiting[1], waiting'[i])
    <3>1. \A i \in 1..Len(waiting') : 1 < i + 1
      OBVIOUS
    <3>. QED
      BY <1>2, <1>3, <3>1 DEF WaitingOrdered
  <2>. QED
    BY <1>2, <2>1 DEF Ahead, Queued
<1>6. WaitingOrdered'
  <2>1. \A i, j \in 1..Len(waiting') : i < j => i + 1 < j + 1
    OBVIOUS
  <2>. QED
    BY <1>2, <2>1 DEF WaitingOrdered
<1>. QED
  BY <1>4, <1>5, <1>6

\* The log after the worker wrote a row.
LEMMA LoggedMore ==
    ASSUME ShapeInv, LogOrdered, NEW row \in Rows, log' = Append(log, row),
           Ahead(Logged, {row.clip})
    PROVE  Logged' = Logged \union {row.clip} /\ LogOrdered'
<1>1. /\ Len(log) \in Nat /\ Len(log') = Len(log) + 1
      /\ \A i \in 1..Len(log) : log'[i] = log[i]
      /\ log'[Len(log) + 1] = row
  BY Grown DEF ShapeInv, ClipsFull
<1>2. /\ \A i \in 1..Len(log') : i \in 1..Len(log) \/ i = Len(log) + 1
      /\ \A i \in 1..Len(log) : i \in 1..Len(log')
      /\ Len(log) + 1 \in 1..Len(log')
  BY <1>1
<1>3. Logged' = Logged \union {row.clip}
  BY <1>1, <1>2 DEF Logged
<1>4. ASSUME NEW i \in 1..Len(log'), NEW j \in 1..Len(log'), i < j
      PROVE  Before(log'[i].clip, log'[j].clip)
  <2>1. i \in 1..Len(log)
    BY <1>1, <1>4
  <2>2. CASE j \in 1..Len(log)
    BY <1>1, <1>4, <2>1, <2>2 DEF LogOrdered
  <2>3. CASE j = Len(log) + 1
    BY <1>1, <2>1, <2>3 DEF Ahead, Logged
  <2>. QED
    BY <1>2, <2>2, <2>3
<1>. QED
  BY <1>3, <1>4 DEF LogOrdered

\* The pending clips after that of a camera has changed.
LEMMA PendingChanged ==
    ASSUME ShapeInv, ClipsWhole, NEW c \in Cameras, NEW clip,
           pending' = [pending EXCEPT ![c] = clip]
    PROVE  /\ Pending = {p \in Pending : First(p).cam # c}
                           \union (IF pending[c] = <<>> THEN {} ELSE {pending[c]})
           /\ Pending' = {p \in Pending : First(p).cam # c}
                            \union (IF clip = <<>> THEN {} ELSE {clip})
           /\ (clip = <<>> \/ First(clip).cam = c) =>
                 \A d \in Cameras : pending'[d] # <<>> => First(pending'[d]).cam = d
<1>1. /\ \A d \in Cameras : pending[d] # <<>> => First(pending[d]).cam = d
      /\ \A d \in Cameras : pending'[d] = IF d = c THEN clip ELSE pending[d]
  BY DEF ShapeInv, TypeOK, ClipsWhole
<1>2. Pending = {p \in Pending : First(p).cam # c}
                   \union (IF pending[c] = <<>> THEN {} ELSE {pending[c]})
  BY <1>1 DEF Pending
<1>3. Pending' = {p \in Pending : First(p).cam # c} \union (IF clip = <<>> THEN {} ELSE {clip})
  BY <1>1 DEF Pending
<1>. QED
  BY <1>1, <1>2, <1>3

\* What is pending after that was pending before, or is the changed clip.
LEMMA PendingFrom ==
    ASSUME ShapeInv, NEW c \in Cameras, NEW clip, pending' = [pending EXCEPT ![c] = clip]
    PROVE  \A p \in Pending' : p \in Pending \/ (p = clip /\ clip # <<>>)
<1>1. \A d \in Cameras : pending'[d] = IF d = c THEN clip ELSE pending[d]
  BY DEF ShapeInv, TypeOK
<1>. QED
  BY <1>1 DEF Pending

-----------------------------------------------------------------------------
(* The flow of the clips.                                                  *)

\* A step that moves no clip.
LEMMA FlowSame ==
    ASSUME FlowInv, InWork' = InWork,
           UNCHANGED <<ended, arrived, pending, waiting, dropped, log, failed, lost>>
    PROVE  FlowInv'
<1>1. /\ Logged' = Logged /\ Queued' = Queued /\ Pending' = Pending /\ Arrived' = Arrived
      /\ Gone' = Gone
  BY DEF Logged, Queued, Pending, Arrived, Gone
<1>2. Everywhere' = Everywhere
  BY <1>1 DEF Everywhere
<1>. QED
  BY <1>1, <1>2 DEF FlowInv, ClipsWhole, Placed, Ordered, LogOrdered, WaitingOrdered, ArrivedOrdered,
     Separate, Covered

\* A step that only moves clips from one place to another.
LEMMA Moved ==
    ASSUME ClipsWhole, Separate, Covered, Everywhere' = Everywhere, ended' = ended,
           \A c \in Cameras : pending'[c] # <<>> => First(pending'[c]).cam = c
    PROVE  ClipsWhole' /\ Separate' /\ Covered'
BY DEF ClipsWhole, Separate, Covered

\* The dispatcher hands the clip of a camera on, and keeps what is new in its place.
LEMMA ClipHandedOn ==
    ASSUME ShapeInv, FlowInv, NEW c \in Cameras, pending[c] # <<>>, Enqueue(pending[c]),
           NEW new,
           Pending = {p \in Pending : First(p).cam # c} \union {pending[c]},
           Pending' = {p \in Pending : First(p).cam # c} \union new,
           Arrived = Arrived' \union new, Ahead(new, Arrived'), ArrivedOrdered',
           \A d \in Cameras : pending'[d] # <<>> => First(pending'[d]).cam = d,
           UNCHANGED <<ended, worker, log, failed, lost>>
    PROVE  FlowInv'
<1> DEFINE clip == pending[c]
           others == {p \in Pending : First(p).cam # c}
<1>1. ClipsWhole /\ Placed /\ Ordered /\ Separate /\ Covered
  BY DEF FlowInv
<1>2. clip \in Pending /\ clip \in Everywhere /\ Whole(clip) /\ clip \in Clips /\ First(clip).cam = c
  BY <1>1 DEF Pending, Everywhere, ClipsWhole, Whole
<1>. HIDE DEF clip, others
<1>3. /\ Ahead(Queued, {clip}) /\ Ahead({clip}, others) /\ Ahead({clip}, Arrived)
      /\ Ahead(Logged, {clip}) /\ Ahead(InWork, {clip}) /\ Ahead(Gone, {clip})
  BY <1>1, <1>2 DEF Placed, Ahead, Before, others
<1>4. Logged' = Logged /\ InWork' = InWork
  BY DEF Logged, InWork
<1>5. /\ Pending = others \union {clip} /\ Pending' = others \union new
      /\ Arrived = Arrived' \union new
  BY DEF others, clip
<1>6. WaitingOrdered'
      /\ \/ Queued' = Queued \union {clip} /\ dropped' = dropped
         \/ Queued' = Queued /\ dropped' = dropped \union {clip}
  BY <1>1, <1>2, <1>3, EnqueuePlaces DEF Ordered, clip
<1>7. Ordered'
  BY <1>1, <1>6 DEF Ordered, LogOrdered
<1>8. Everywhere' = Everywhere
  BY <1>4, <1>5, <1>6 DEF Everywhere, Gone
<1>9. Placed'
  <2>1. clip \notin Logged /\ clip \notin InWork /\ clip \notin Queued /\ clip \notin Gone
    BY <1>2, <1>3, NotBeforeItself DEF Ahead
  <2>2. /\ Ahead(Pending', Arrived')
        /\ Ahead(Queued, Pending' \union Arrived') /\ Ahead({clip}, Pending' \union Arrived')
        /\ Ahead(Gone, Pending' \union Arrived')
    BY <1>1, <1>3, <1>5 DEF Placed, Ahead
  <2>3. /\ Ahead(Logged, InWork \union Queued \union {clip} \union Pending' \union Arrived')
        /\ Ahead(InWork, Queued \union {clip} \union Pending' \union Arrived')
    BY <1>1, <1>3, <1>5 DEF Placed, Ahead
  <2>4. CASE Queued' = Queued \union {clip} /\ dropped' = dropped
    <3>1. Gone' = Gone
      BY <2>4 DEF Gone
    <3>. QED
      BY <1>1, <1>4, <2>1, <2>2, <2>3, <2>4, <3>1 DEF Placed, Ahead
  <2>5. CASE Queued' = Queued /\ dropped' = dropped \union {clip}
    <3>1. Gone' = Gone \union {clip}
      BY <2>5 DEF Gone
    <3>2. /\ Ahead(Logged', InWork' \union Queued' \union Pending' \union Arrived')
          /\ Ahead(InWork', Queued' \union Pending' \union Arrived')
          /\ Ahead(Queued', Pending' \union Arrived')
          /\ Ahead(Gone', Pending' \union Arrived')
      BY <1>4, <2>2, <2>3, <2>5, <3>1 DEF Ahead
    <3>3. Gone' \intersect (Logged' \union InWork' \union Queued') = {}
      BY <1>1, <1>4, <2>1, <2>5, <3>1 DEF Placed
    <3>4. /\ dropped' \intersect failed' = {} /\ dropped' \intersect lost' = {}
          /\ failed' \intersect lost' = {}
      BY <1>1, <2>1, <2>5 DEF Placed, Gone
    <3>. QED
      BY <2>2, <3>2, <3>3, <3>4 DEF Placed
  <2>. QED
    BY <1>6, <2>4, <2>5
<1>10. ClipsWhole' /\ Separate' /\ Covered'
  BY <1>1, <1>8, Moved
<1>. QED
  BY <1>7, <1>9, <1>10 DEF FlowInv

\* The session the dispatcher takes from its queue.
LEMMA Received ==
    ASSUME ShapeInv, FlowInv, NEW session, Receiving(session)
    PROVE  /\ session \in SessionSet /\ session.cam \in Cameras
           /\ session = Head(arrived) /\ <<session>> \in Arrived
           /\ First(<<session>>) = session /\ Last(<<session>>) = session
           /\ Parts(<<session>>) = {session} /\ session \in ended
           /\ session.start < session.end
           /\ Arrived = Arrived' \union {<<session>>}
           /\ Ahead({<<session>>}, Arrived') /\ ArrivedOrdered'
           /\ UNCHANGED <<clock, camera, ended, worker, numbers, log, files, failed, threads, main, lost>>
<1>1. /\ arrived # <<>> /\ session = Head(arrived) /\ arrived' = Tail(arrived)
      /\ UNCHANGED <<clock, camera, ended, worker, numbers, log, files, failed, threads, main, lost>>
  BY DEF Receiving, capture, process
<1>2. /\ session \in SessionSet
      /\ Arrived = Arrived' \union {<<session>>}
      /\ Ahead({<<session>>}, Arrived') /\ ArrivedOrdered'
  BY <1>1, ArrivedLess DEF FlowInv, Ordered
<1>3. <<session>> \in Everywhere
  BY <1>2 DEF Everywhere
<1>4. Whole(<<session>>) /\ Parts(<<session>>) \subseteq ended
  BY <1>3 DEF FlowInv, ClipsWhole
<1>5. First(<<session>>) = session /\ Last(<<session>>) = session
  BY DEF First, Last
<1>6. Parts(<<session>>) = {session}
  BY DEF Parts
<1>7. session.start < session.end
  BY <1>4, <1>6, WholeEnds
<1>. QED
  BY <1>1, <1>2, <1>4, <1>5, <1>6, <1>7, SessionFields

\* The dispatcher keeps the first session of a camera.
LEMMA ReceiveFirstFlow ==
    ASSUME ShapeInv, FlowInv, NEW session \in ended, ReceiveFirst(session)
    PROVE  FlowInv'
<1>1. ClipsWhole /\ Placed /\ Ordered /\ Separate /\ Covered
  BY DEF FlowInv
<1>2. /\ Receiving(session) /\ pending[session.cam] = <<>>
      /\ pending' = [pending EXCEPT ![session.cam] = <<session>>]
      /\ UNCHANGED <<waiting, dropped>>
  BY DEF ReceiveFirst
<1>3. /\ session.cam \in Cameras /\ First(<<session>>) = session /\ <<session>> # <<>>
      /\ Arrived = Arrived' \union {<<session>>}
      /\ Ahead({<<session>>}, Arrived') /\ ArrivedOrdered'
      /\ UNCHANGED <<ended, worker, log, failed, lost>>
  BY <1>2, Received
<1>4. /\ Pending' = Pending \union {<<session>>}
      /\ \A d \in Cameras : pending'[d] # <<>> => First(pending'[d]).cam = d
  BY <1>1, <1>2, <1>3, PendingChanged
<1>5. Logged' = Logged /\ InWork' = InWork /\ Queued' = Queued /\ Gone' = Gone
  BY <1>2, <1>3 DEF Logged, InWork, Queued, Gone
<1>6. Everywhere' = Everywhere
  BY <1>3, <1>4, <1>5 DEF Everywhere
<1>7. ClipsWhole' /\ Separate' /\ Covered'
  BY <1>1, <1>3, <1>4, <1>6, Moved
<1>8. Placed'
  <2>1. Pending' \union Arrived' = Pending \union Arrived
    BY <1>3, <1>4
  <2>2. Ahead(Pending', Arrived')
    BY <1>1, <1>3, <1>4 DEF Placed, Ahead
  <2>3. /\ Ahead(Logged', InWork' \union Queued' \union Pending' \union Arrived')
        /\ Ahead(InWork', Queued' \union Pending' \union Arrived')
        /\ Ahead(Queued', Pending' \union Arrived')
        /\ Ahead(Gone', Pending' \union Arrived')
    BY <1>1, <1>5, <2>1 DEF Placed, Ahead
  <2>4. Gone' \intersect (Logged' \union InWork' \union Queued') = {}
        /\ dropped' \intersect failed' = {} /\ dropped' \intersect lost' = {}
        /\ failed' \intersect lost' = {}
    BY <1>1, <1>2, <1>3, <1>5 DEF Placed
  <2>. QED
    BY <2>2, <2>3, <2>4 DEF Placed
<1>9. Ordered'
  BY <1>1, <1>2, <1>3 DEF Ordered, LogOrdered, WaitingOrdered
<1>. QED
  BY <1>7, <1>8, <1>9 DEF FlowInv

\* The dispatcher replaces the pending clip with the session that came.
LEMMA ReplaceFlow ==
    ASSUME ShapeInv, FlowInv, NEW session \in ended, Replace(session)
    PROVE  FlowInv'
<1> DEFINE c == session.cam
<1>1. /\ Receiving(session) /\ pending[c] # <<>>
      /\ pending' = [pending EXCEPT ![c] = <<session>>]
      /\ Enqueue(pending[c])
  BY DEF Replace
<1>2. /\ c \in Cameras /\ First(<<session>>) = session /\ <<session>> # <<>>
      /\ Arrived = Arrived' \union {<<session>>}
      /\ Ahead({<<session>>}, Arrived') /\ ArrivedOrdered'
      /\ UNCHANGED <<ended, worker, log, failed, lost>>
  BY <1>1, Received
<1>3. ClipsWhole
  BY DEF FlowInv
<1>4. /\ Pending = {p \in Pending : First(p).cam # c} \union {pending[c]}
      /\ Pending' = {p \in Pending : First(p).cam # c} \union {<<session>>}
      /\ \A d \in Cameras : pending'[d] # <<>> => First(pending'[d]).cam = d
  BY <1>1, <1>2, <1>3, PendingChanged
<1>. HIDE DEF c
<1>. QED
  BY <1>1, <1>2, <1>4, ClipHandedOn

\* The dispatcher hands a stale clip on.
LEMMA FinalizeFlow ==
    ASSUME ShapeInv, FlowInv, NEW c \in Cameras, FinalizeStale(c)
    PROVE  FlowInv'
<1>1. /\ pending[c] # <<>> /\ Enqueue(pending[c])
      /\ pending' = [pending EXCEPT ![c] = <<>>]
      /\ UNCHANGED <<ended, arrived, worker, log, failed, lost>>
  BY DEF FinalizeStale, capture, process
<1>2. ClipsWhole /\ ArrivedOrdered
  BY DEF FlowInv, Ordered
<1>3. /\ Pending = {p \in Pending : First(p).cam # c} \union {pending[c]}
      /\ Pending' = {p \in Pending : First(p).cam # c} \union {}
      /\ \A d \in Cameras : pending'[d] # <<>> => First(pending'[d]).cam = d
  BY <1>1, <1>2, PendingChanged
<1>4. Arrived = Arrived' \union {} /\ Ahead({}, Arrived') /\ ArrivedOrdered'
  BY <1>1, <1>2 DEF Arrived, Ahead, ArrivedOrdered
<1>. QED
  BY <1>1, <1>3, <1>4, ClipHandedOn

\* The dispatcher merges the session into the pending clip: what was apart from both
\* is apart from the merged clip, because nothing of the camera lies between them.
LEMMA MergeFlow ==
    ASSUME ShapeInv, FlowInv, NEW session \in ended, Merge(session)
    PROVE  FlowInv'
<1> DEFINE c == session.cam
           clip == pending[c]
           merged == Append(clip, session)
           others == {p \in Pending : First(p).cam # c}
<1>1. ClipsWhole /\ Placed /\ Ordered /\ Separate /\ Covered
  BY DEF FlowInv
<1>2. /\ Receiving(session) /\ clip # <<>> /\ Returns(session, clip)
      /\ pending' = [pending EXCEPT ![c] = merged]
      /\ UNCHANGED <<waiting, dropped>>
  BY DEF Merge
<1>3. /\ c \in Cameras /\ session \in SessionSet /\ session.start < session.end
      /\ First(<<session>>) = session /\ Last(<<session>>) = session
      /\ Parts(<<session>>) = {session}
      /\ Arrived = Arrived' \union {<<session>>}
      /\ Ahead({<<session>>}, Arrived') /\ ArrivedOrdered'
      /\ UNCHANGED <<ended, worker, log, failed, lost>>
  BY <1>2, Received
<1>4. clip \in Pending /\ clip \in Everywhere /\ Whole(clip) /\ First(clip).cam = c
      /\ Parts(clip) \subseteq ended
  BY <1>1, <1>2, <1>3 DEF Pending, Everywhere, ClipsWhole
<1>5. Last(clip).end <= session.start
  BY <1>2 DEF Returns
<1>6. /\ Whole(merged) /\ First(merged) = First(clip) /\ Last(merged) = session
      /\ Parts(merged) = Parts(clip) \union {session}
  BY <1>3, <1>4, <1>5, MergedWhole
<1>7. merged # <<>> /\ First(merged).cam = c
  BY <1>4, <1>6 DEF Whole, Clips
<1>8. /\ Pending = others \union {clip} /\ Pending' = others \union {merged}
      /\ \A d \in Cameras : pending'[d] # <<>> => First(pending'[d]).cam = d
  <2>. HIDE DEF merged, c
  <2>. QED
    BY <1>1, <1>2, <1>3, <1>7, PendingChanged
<1>9. /\ Logged' = Logged /\ InWork' = InWork /\ Queued' = Queued /\ Gone' = Gone
  BY <1>2, <1>3 DEF Logged, InWork, Queued, Gone
<1>10. \A p \in others : First(p).cam # c
  OBVIOUS
<1>. HIDE DEF merged, others, clip, c
<1> DEFINE rest == Logged \union InWork \union Queued \union Gone \union others \union Arrived'
<1>11. /\ Everywhere = rest \union {clip, <<session>>}
       /\ Everywhere' = rest \union {merged}
  BY <1>3, <1>8, <1>9 DEF Everywhere
<1>12. /\ Ahead(Logged \union InWork \union Queued \union Gone, {merged})
       /\ Ahead({merged}, Arrived')
       /\ \A p \in others : Before(p, merged)
  <2>1. Ahead(Logged \union InWork \union Queued \union Gone, {clip})
    BY <1>1, <1>4 DEF Placed, Ahead
  <2>2. Ahead(Logged \union InWork \union Queued \union Gone, {merged})
    BY <1>6, <2>1 DEF Ahead, Before
  <2>3. Ahead({merged}, Arrived')
    BY <1>3, <1>4, <1>6, <1>7 DEF Ahead, Before, c
  <2>4. \A p \in others : Before(p, merged)
    BY <1>7, <1>10 DEF Before
  <2>. QED
    BY <2>2, <2>3, <2>4
<1>13. Separate'
  <2>1. \A a \in rest : Apart(a, merged) /\ Apart(merged, a)
    BY <1>12 DEF Ahead, Apart
  <2>2. \A a, b \in rest : a = b \/ Apart(a, b)
    BY <1>1, <1>11 DEF Separate
  <2>. QED
    BY <1>11, <2>1, <2>2 DEF Separate
<1>14. ClipsWhole' /\ Covered'
  <2>1. \A x \in rest : Whole(x) /\ Parts(x) \subseteq ended
    BY <1>1, <1>11 DEF ClipsWhole
  <2>2. ClipsWhole'
    BY <1>3, <1>4, <1>6, <1>8, <1>11, <2>1 DEF ClipsWhole
  <2>3. Covered'
    BY <1>1, <1>3, <1>6, <1>11 DEF Covered
  <2>. QED
    BY <2>2, <2>3
<1>15. Placed'
  <2>1. Pending' \union Arrived' = others \union {merged} \union Arrived'
    BY <1>8
  <2>2. /\ Ahead(Logged, InWork \union Queued \union others \union Arrived')
        /\ Ahead(InWork, Queued \union others \union Arrived')
        /\ Ahead(Queued, others \union Arrived')
        /\ Ahead(others, Arrived')
        /\ Ahead(Gone, others \union Arrived')
    BY <1>1, <1>3, <1>8 DEF Placed, Ahead
  <2>3. /\ Ahead(Logged', InWork' \union Queued' \union Pending' \union Arrived')
        /\ Ahead(InWork', Queued' \union Pending' \union Arrived')
        /\ Ahead(Queued', Pending' \union Arrived')
        /\ Ahead(Pending', Arrived')
        /\ Ahead(Gone', Pending' \union Arrived')
    BY <1>8, <1>9, <1>12, <2>1, <2>2 DEF Ahead
  <2>4. Gone' \intersect (Logged' \union InWork' \union Queued') = {}
        /\ dropped' \intersect failed' = {} /\ dropped' \intersect lost' = {}
        /\ failed' \intersect lost' = {}
    BY <1>1, <1>2, <1>3, <1>9 DEF Placed
  <2>. QED
    BY <2>3, <2>4 DEF Placed
<1>16. Ordered'
  BY <1>1, <1>2, <1>3 DEF Ordered, LogOrdered, WaitingOrdered
<1>. QED
  BY <1>13, <1>14, <1>15, <1>16 DEF FlowInv

\* The session a camera ends is not empty: the time-outs are at least a second.
LEMMA SessionEnds ==
    ASSUME ShapeInv, NEW c \in Cameras, NEW motion \in BOOLEAN, EndSession(c, motion)
    PROVE  LET session == [cam |-> c, start |-> camera[c].start, end |-> clock]
           IN  /\ camera[c].mode = "recording" /\ camera' = [camera EXCEPT ![c] = Ready(clock + Cooldown[c])]
               /\ session \in SessionSet /\ session.start < session.end
               /\ \/ arrived' = Append(arrived, session) /\ ended' = ended \union {session}
                  \/ UNCHANGED <<arrived, ended>>
               /\ UNCHANGED <<clock, pending, parted, waiting, dropped, worker, numbers, log, files,
                              failed, main, lost, spent>>
<1> DEFINE session == [cam |-> c, start |-> camera[c].start, end |-> clock]
<1>1. /\ Frame(c) /\ camera[c].mode = "recording" /\ ShouldEnd(c, LastMotion(c, motion))
      /\ camera' = [camera EXCEPT ![c] = Ready(clock + Cooldown[c])]
      /\ \/ arrived' = Append(arrived, session) /\ ended' = ended \union {session}
         \/ UNCHANGED <<arrived, ended>>
  BY DEF EndSession
<1>2. UNCHANGED <<clock, pending, parted, waiting, dropped, worker, numbers, log, files,
                  failed, main, lost, spent>>
  BY <1>1 DEF Frame, inference
<1>3. /\ camera[c].start \in Nat /\ camera[c].seen \in Nat /\ clock \in Nat
      /\ camera[c].start <= camera[c].seen /\ camera[c].seen <= clock
      /\ EndEmpty \in Nat \ {0} /\ MaxSession \in Nat \ {0}
  BY <1>1, CameraShape, SettingsAssumption DEF ShapeInv, TypeOK, CamerasTimed
<1>4. camera[c].start < clock
  BY <1>1, <1>3 DEF ShouldEnd, LastMotion
<1>5. session \in SessionSet /\ session.start < session.end
  BY <1>3, <1>4 DEF SessionSet
<1>. QED
  BY <1>1, <1>2, <1>5

\* A session that has just ended is after every clip of its camera.
LEMMA EndSessionFlow ==
    ASSUME ShapeInv, FlowInv, Timely, NEW c \in Cameras, NEW motion \in BOOLEAN,
           EndSession(c, motion)
    PROVE  FlowInv'
<1> DEFINE s == [cam |-> c, start |-> camera[c].start, end |-> clock]
<1>1. ClipsWhole /\ Placed /\ Ordered /\ Separate /\ Covered
  BY DEF FlowInv
<1>2. /\ s \in SessionSet /\ s.start < s.end /\ s.cam = c /\ s.start = camera[c].start
      /\ camera[c].mode = "recording"
      /\ \/ arrived' = Append(arrived, s) /\ ended' = ended \union {s}
         \/ UNCHANGED <<arrived, ended>>
      /\ UNCHANGED <<pending, waiting, dropped, worker, log, failed, lost>>
  BY SessionEnds
<1>. HIDE DEF s
<1>3. CASE UNCHANGED <<arrived, ended>>
  BY <1>2, <1>3, FlowSame DEF InWork
<1>4. CASE arrived' = Append(arrived, s) /\ ended' = ended \union {s}
  <2>1. Whole(<<s>>) /\ First(<<s>>) = s /\ Last(<<s>>) = s /\ Parts(<<s>>) = {s}
    BY <1>2, SingleWhole
  <2>2. Ahead(Everywhere, {<<s>>})
    <3>1. ASSUME NEW a \in Everywhere, First(a).cam = s.cam PROVE Last(a).end <= s.start
      <4>1. /\ Whole(a) /\ Parts(a) \subseteq ended
        BY <1>1 DEF ClipsWhole
      <4>2. Last(a) \in Parts(a)
        BY <4>1, ClipEnds DEF Whole, Parts, Last
      <4>3. Last(a) \in ended /\ Last(a).cam = c
        BY <1>2, <3>1, <4>1, <4>2, WholeEnds
      <4>. QED
        BY <1>2, <4>3 DEF Timely
    <3>. QED
      BY <2>1, <3>1 DEF Ahead, Before
  <2>3. Arrived' = Arrived \union {<<s>>} /\ ArrivedOrdered'
    <3>1. Ahead(Arrived, {<<s>>}) /\ ArrivedOrdered
      BY <1>1, <2>2 DEF Ahead, Everywhere, Ordered
    <3>. QED
      BY <1>2, <1>4, <3>1, ArrivedMore
  <2>4. Logged' = Logged /\ InWork' = InWork /\ Queued' = Queued /\ Gone' = Gone /\ Pending' = Pending
    BY <1>2 DEF Logged, InWork, Queued, Gone, Pending
  <2>5. Everywhere' = Everywhere \union {<<s>>}
    BY <2>3, <2>4 DEF Everywhere
  <2>6. ClipsWhole' /\ Covered'
    BY <1>1, <1>2, <1>4, <2>1, <2>5 DEF ClipsWhole, Covered
  <2>7. Separate'
    BY <1>1, <2>2, <2>5 DEF Separate, Ahead, Apart
  <2>8. Placed'
    <3>1. Ahead(Logged \union InWork \union Queued \union Pending \union Gone, {<<s>>})
      BY <2>2 DEF Ahead, Everywhere
    <3>2. /\ Ahead(Logged', InWork' \union Queued' \union Pending' \union Arrived')
          /\ Ahead(InWork', Queued' \union Pending' \union Arrived')
          /\ Ahead(Queued', Pending' \union Arrived')
          /\ Ahead(Pending', Arrived')
          /\ Ahead(Gone', Pending' \union Arrived')
      BY <1>1, <2>3, <2>4, <3>1 DEF Placed, Ahead
    <3>3. Gone' \intersect (Logged' \union InWork' \union Queued') = {}
          /\ dropped' \intersect failed' = {} /\ dropped' \intersect lost' = {}
          /\ failed' \intersect lost' = {}
      BY <1>1, <1>2, <2>4 DEF Placed
    <3>. QED
      BY <3>2, <3>3 DEF Placed
  <2>9. Ordered'
    BY <1>1, <1>2, <2>3 DEF Ordered, LogOrdered, WaitingOrdered
  <2>. QED
    BY <2>6, <2>7, <2>8, <2>9 DEF FlowInv
<1>. QED
  BY <1>2, <1>3, <1>4

\* The worker takes the next clip.
LEMMA TakeFlow ==
    ASSUME ShapeInv, FlowInv, TakeClip
    PROVE  FlowInv'
<1> DEFINE clip == Head(waiting)
<1>1. ClipsWhole /\ Placed /\ Ordered /\ Separate /\ Covered
  BY DEF FlowInv
<1>2. /\ worker.pc = "idle" /\ worker'.pc = "analysing" /\ worker'.clip = clip
      /\ waiting' = Tail(waiting) /\ waiting # <<>>
      /\ UNCHANGED <<ended, arrived, pending, dropped, log, failed, lost>>
  BY TakenShape DEF capture, dispatch, process
<1>. HIDE DEF clip
<1>3. /\ Queued = Queued' \union {clip} /\ Ahead({clip}, Queued') /\ WaitingOrdered'
  BY <1>1, <1>2, WaitingLess DEF Ordered, clip
<1>4. InWork = {} /\ InWork' = {clip}
  BY <1>2 DEF InWork
<1>5. Logged' = Logged /\ Pending' = Pending /\ Arrived' = Arrived /\ Gone' = Gone
  BY <1>2 DEF Logged, Pending, Arrived, Gone
<1>6. Everywhere' = Everywhere
  BY <1>3, <1>4, <1>5 DEF Everywhere
<1>7. ClipsWhole' /\ Separate' /\ Covered'
  <2>1. \A c \in Cameras : pending'[c] # <<>> => First(pending'[c]).cam = c
    BY <1>1, <1>2 DEF ClipsWhole
  <2>. QED
    BY <1>1, <1>2, <1>6, <2>1, Moved
<1>8. Placed'
  <2>1. InWork' \union Queued' = InWork \union Queued
    BY <1>3, <1>4
  <2>2. /\ Ahead(Logged', InWork' \union Queued' \union Pending' \union Arrived')
        /\ Ahead(InWork', Queued' \union Pending' \union Arrived')
        /\ Ahead(Queued', Pending' \union Arrived')
        /\ Ahead(Pending', Arrived')
        /\ Ahead(Gone', Pending' \union Arrived')
    BY <1>1, <1>3, <1>4, <1>5 DEF Placed, Ahead
  <2>3. Gone' \intersect (Logged' \union InWork' \union Queued') = {}
        /\ dropped' \intersect failed' = {} /\ dropped' \intersect lost' = {}
        /\ failed' \intersect lost' = {}
    BY <1>1, <1>2, <1>3, <1>4, <1>5 DEF Placed
  <2>. QED
    BY <2>2, <2>3 DEF Placed
<1>9. Ordered'
  BY <1>1, <1>2, <1>3 DEF Ordered, LogOrdered, ArrivedOrdered
<1>. QED
  BY <1>7, <1>8, <1>9 DEF FlowInv

\* The worker logs the row of its clip.
LEMMA LogFlow ==
    ASSUME ShapeInv, FlowInv, LogRow
    PROVE  FlowInv'
<1> DEFINE row == [sid |-> worker.sid, clip |-> worker.clip, saved |-> worker.saved]
           clip == worker.clip
<1>1. ClipsWhole /\ Placed /\ Ordered /\ Separate /\ Covered
  BY DEF FlowInv
<1>2. /\ row \in Rows /\ log' = Append(log, row) /\ row.clip = clip
      /\ worker.pc # "idle" /\ worker' = Idle
      /\ UNCHANGED <<ended, arrived, pending, waiting, dropped, failed, lost>>
  BY LoggedShape DEF LogRow, capture, dispatch, process
<1>. HIDE DEF row, clip
<1>3. InWork = {clip} /\ InWork' = {}
  BY <1>2 DEF InWork, Idle, clip
<1>4. Ahead(Logged, {clip})
  BY <1>1, <1>3 DEF Placed, Ahead
<1>5. Logged' = Logged \union {clip} /\ LogOrdered'
  BY <1>1, <1>2, <1>4, LoggedMore DEF Ordered
<1>6. Queued' = Queued /\ Pending' = Pending /\ Arrived' = Arrived /\ Gone' = Gone
  BY <1>2 DEF Queued, Pending, Arrived, Gone
<1>7. Everywhere' = Everywhere
  BY <1>3, <1>5, <1>6 DEF Everywhere
<1>8. ClipsWhole' /\ Separate' /\ Covered'
  <2>1. \A c \in Cameras : pending'[c] # <<>> => First(pending'[c]).cam = c
    BY <1>1, <1>2 DEF ClipsWhole
  <2>. QED
    BY <1>1, <1>2, <1>7, <2>1, Moved
<1>9. Placed'
  <2>1. /\ Ahead(Logged', InWork' \union Queued' \union Pending' \union Arrived')
        /\ Ahead(InWork', Queued' \union Pending' \union Arrived')
        /\ Ahead(Queued', Pending' \union Arrived')
        /\ Ahead(Pending', Arrived')
        /\ Ahead(Gone', Pending' \union Arrived')
    BY <1>1, <1>3, <1>5, <1>6 DEF Placed, Ahead
  <2>2. Gone' \intersect (Logged' \union InWork' \union Queued') = {}
        /\ dropped' \intersect failed' = {} /\ dropped' \intersect lost' = {}
        /\ failed' \intersect lost' = {}
    BY <1>1, <1>2, <1>3, <1>5, <1>6 DEF Placed
  <2>. QED
    BY <2>1, <2>2 DEF Placed
<1>10. Ordered'
  BY <1>1, <1>2, <1>5 DEF Ordered, WaitingOrdered, ArrivedOrdered
<1>. QED
  BY <1>8, <1>9, <1>10 DEF FlowInv

\* The clip of the worker fails.
LEMMA FailFlow ==
    ASSUME ShapeInv, FlowInv, LogClosed \/ AnalysisRaises
    PROVE  FlowInv'
<1> DEFINE clip == worker.clip
<1>1. ClipsWhole /\ Placed /\ Ordered /\ Separate /\ Covered
  BY DEF FlowInv
<1>2. /\ worker.pc # "idle" /\ worker' = Idle /\ failed' = failed \union {clip}
      /\ UNCHANGED <<ended, arrived, pending, waiting, dropped, log, lost>>
  BY DEF LogClosed, AnalysisRaises, capture, dispatch, process
<1>. HIDE DEF clip
<1>3. InWork = {clip} /\ InWork' = {}
  BY <1>2 DEF InWork, Idle, clip
<1>4. /\ Logged' = Logged /\ Queued' = Queued /\ Pending' = Pending /\ Arrived' = Arrived
      /\ Gone' = Gone \union {clip}
  BY <1>2 DEF Logged, Queued, Pending, Arrived, Gone
<1>5. Everywhere' = Everywhere
  BY <1>3, <1>4 DEF Everywhere
<1>6. ClipsWhole' /\ Separate' /\ Covered'
  <2>1. \A c \in Cameras : pending'[c] # <<>> => First(pending'[c]).cam = c
    BY <1>1, <1>2 DEF ClipsWhole
  <2>. QED
    BY <1>1, <1>2, <1>5, <2>1, Moved
<1>7. clip \notin Logged /\ clip \notin Queued /\ clip \notin Gone
  <2>1. clip \in Everywhere
    BY <1>3 DEF Everywhere
  <2>2. Whole(clip)
    BY <1>1, <2>1 DEF ClipsWhole
  <2>. QED
    BY <1>1, <1>3, <2>2, NotBeforeItself DEF Placed, Ahead
<1>8. Placed'
  <2>1. /\ Ahead(Logged', InWork' \union Queued' \union Pending' \union Arrived')
        /\ Ahead(InWork', Queued' \union Pending' \union Arrived')
        /\ Ahead(Queued', Pending' \union Arrived')
        /\ Ahead(Pending', Arrived')
        /\ Ahead(Gone', Pending' \union Arrived')
    BY <1>1, <1>3, <1>4 DEF Placed, Ahead
  <2>2. Gone' \intersect (Logged' \union InWork' \union Queued') = {}
    BY <1>1, <1>3, <1>4, <1>7 DEF Placed
  <2>3. /\ dropped' \intersect failed' = {} /\ dropped' \intersect lost' = {}
        /\ failed' \intersect lost' = {}
    BY <1>1, <1>2, <1>7 DEF Placed, Gone
  <2>. QED
    BY <2>1, <2>2, <2>3 DEF Placed
<1>9. Ordered'
  BY <1>1, <1>2 DEF Ordered, LogOrdered, WaitingOrdered, ArrivedOrdered
<1>. QED
  BY <1>6, <1>8, <1>9 DEF FlowInv

\* The process ends, and what it had in memory is lost.
LEMMA EndFlow ==
    ASSUME ShapeInv, FlowInv, EndProcess
    PROVE  FlowInv' /\ InMemory' = {}
<1>1. ClipsWhole /\ Placed /\ Ordered /\ Separate /\ Covered
  BY DEF FlowInv
<1>2. /\ arrived' = <<>> /\ waiting' = <<>> /\ worker' = Idle
      /\ \A c \in Cameras : pending'[c] = <<>>
      /\ lost' = lost \union InMemory
      /\ UNCHANGED <<ended, dropped, log, failed>>
  BY EndLeaves
<1>3. InWork' = {} /\ Queued' = {} /\ Pending' = {} /\ Arrived' = {} /\ Logged' = Logged
  <2>1. Len(<< >>) = 0 /\ 1..0 = {}
    OBVIOUS
  <2>. QED
    BY <1>2, <2>1 DEF InWork, Queued, Pending, Arrived, Logged, Idle
<1>4. InMemory' = {}
  BY <1>3 DEF InMemory, InWork, Queued, Pending, Arrived
<1>5. Gone' = Gone \union InMemory
  BY <1>2 DEF Gone
<1>6. Everywhere' = Everywhere
  BY <1>3, <1>5, Places DEF Everywhere
<1>7. ClipsWhole' /\ Separate' /\ Covered'
  BY <1>1, <1>2, <1>6, Moved
<1>8. InMemory \intersect Logged = {} /\ InMemory \intersect Gone = {}
  <2>1. InMemory \subseteq Everywhere
    BY Places
  <2>2. \A a \in InMemory : ~Before(a, a)
    BY <1>1, <2>1, NotBeforeItself DEF ClipsWhole
  <2>3. Ahead(Logged, InMemory) /\ Ahead(Gone, Pending \union Arrived)
        /\ Gone \intersect (InWork \union Queued) = {}
    BY <1>1, Places DEF Placed, Ahead
  <2>. QED
    BY <2>2, <2>3, Places DEF Ahead
<1>9. Placed'
  <2>1. /\ Ahead(Logged', InWork' \union Queued' \union Pending' \union Arrived')
        /\ Ahead(InWork', Queued' \union Pending' \union Arrived')
        /\ Ahead(Queued', Pending' \union Arrived')
        /\ Ahead(Pending', Arrived')
        /\ Ahead(Gone', Pending' \union Arrived')
    BY <1>3 DEF Ahead
  <2>2. Gone' \intersect (Logged' \union InWork' \union Queued') = {}
    BY <1>1, <1>3, <1>5, <1>8 DEF Placed
  <2>3. /\ dropped' \intersect failed' = {} /\ dropped' \intersect lost' = {}
        /\ failed' \intersect lost' = {}
    BY <1>1, <1>2, <1>8 DEF Placed, Gone
  <2>. QED
    BY <2>1, <2>2, <2>3 DEF Placed
<1>10. Ordered'
  <2>1. LogOrdered'
    BY <1>1, <1>2 DEF Ordered, LogOrdered
  <2>2. Len(<< >>) = 0 /\ 1..0 = {}
    OBVIOUS
  <2>. QED
    BY <1>2, <2>1, <2>2 DEF Ordered, WaitingOrdered, ArrivedOrdered
<1>. QED
  BY <1>4, <1>7, <1>9, <1>10 DEF FlowInv

\* Nothing has happened yet.
LEMMA FlowInit == Init => FlowInv /\ Timely
<1> SUFFICES ASSUME Init PROVE FlowInv /\ Timely
  OBVIOUS
<1>1. Len(<< >>) = 0 /\ 1..0 = {}
  OBVIOUS
<1>2. /\ Logged = {} /\ InWork = {} /\ Queued = {} /\ Pending = {} /\ Arrived = {} /\ Gone = {}
      /\ ended = {} /\ Len(log) = 0 /\ Len(waiting) = 0 /\ Len(arrived) = 0
      /\ \A c \in Cameras : pending[c] = <<>>
  BY <1>1 DEF Init, Logged, InWork, Queued, Pending, Arrived, Gone, Idle
<1>3. Everywhere = {}
  BY <1>2 DEF Everywhere
<1>4. dropped = {} /\ failed = {} /\ lost = {}
  BY DEF Init
<1>5. Placed
  BY <1>2, <1>4 DEF Placed, Ahead
<1>6. Ordered
  BY <1>1, <1>2 DEF Ordered, LogOrdered, WaitingOrdered, ArrivedOrdered
<1>. QED
  BY <1>2, <1>3, <1>5, <1>6 DEF FlowInv, ClipsWhole, Separate, Covered, Timely

\* Sessions end in the past, and before the next one of their camera begins.
LEMMA TimelyStep ==
    ASSUME ShapeInv, Timely, [Next]_vars
    PROVE  Timely'
<1>1. /\ ended \in SUBSET SessionSet /\ clock \in Nat
      /\ \A s \in SessionSet : s.cam \in Cameras /\ s.end \in Nat /\ s.start \in Nat
      /\ camera \in [Cameras -> CameraStates]
  BY SessionFields DEF ShapeInv, TypeOK
<1>2. CASE Tick
  BY <1>1, <1>2 DEF Tick, capture, Timely
<1>3. ASSUME NEW c \in Cameras, StartSession(c) PROVE Timely'
  <2>1. /\ camera' = [camera EXCEPT ![c] = [mode |-> "recording", start |-> clock, seen |-> clock]]
        /\ ended' = ended /\ clock' = clock
    BY <1>3 DEF StartSession, Frame
  <2>. QED
    BY <1>1, <2>1 DEF Timely
<1>4. ASSUME NEW c \in Cameras, NEW motion \in BOOLEAN, KeepRecording(c, motion) PROVE Timely'
  <2>1. /\ camera[c].mode = "recording"
        /\ camera' = [camera EXCEPT ![c] = [mode |-> "recording", start |-> camera[c].start,
                                            seen |-> LastMotion(c, motion)]]
        /\ ended' = ended /\ clock' = clock
    BY <1>1, <1>4 DEF KeepRecording, Frame
  <2>. QED
    BY <1>1, <2>1 DEF Timely
<1>5. ASSUME NEW c \in Cameras, NEW motion \in BOOLEAN, EndSession(c, motion) PROVE Timely'
  <2> DEFINE s == [cam |-> c, start |-> camera[c].start, end |-> clock]
  <2>1. /\ camera' = [camera EXCEPT ![c] = Ready(clock + Cooldown[c])] /\ clock' = clock
        /\ s \in SessionSet /\ s.start < s.end /\ s.cam = c /\ s.end = clock
        /\ ended' = ended \union {s} \/ ended' = ended
    BY <1>5, SessionEnds
  <2>2. Ready(clock + Cooldown[c]).mode = "idle"
    BY DEF Ready
  <2>. HIDE DEF s
  <2>3. \A d \in Cameras : camera'[d] = IF d = c THEN Ready(clock + Cooldown[c]) ELSE camera[d]
    BY <1>1, <2>1
  <2>. QED
    BY <1>1, <2>1, <2>2, <2>3 DEF Timely
<1>6. CASE DispatcherStep \/ InferenceStep
  <2>1. UNCHANGED <<clock, camera, ended>>
    BY <1>6 DEF DispatcherStep, ReceiveFirst, Merge, Replace, Receiving, FinalizeStale, DispatcherEnds,
       InferenceStep, TakeClip, SaveEvidence, LogRow, LogClosed, AnalysisRaises, InferenceEnds,
       ThreadEnds, capture
  <2>. QED
    BY <2>1 DEF Timely
<1>7. CASE ProcessStep
  <2>1. CASE RequestStop \/ CloseLog \/ Boot
    BY <2>1 DEF RequestStop, CloseLog, Boot, capture, Timely
  <2>2. CASE EndProcess
    <3>1. UNCHANGED <<clock, ended>> /\ \A c \in Cameras : camera'[c] = Ready(0)
      BY <2>2, EndLeaves
    <3>2. Ready(0).mode = "idle"
      BY DEF Ready
    <3>. QED
      BY <1>1, <3>1, <3>2 DEF Timely
  <2>. QED
    BY <1>7, <2>1, <2>2 DEF ProcessStep, ProcessExits, ProcessDies
<1>8. CASE UNCHANGED vars
  BY <1>8 DEF vars, capture, Timely
<1>. QED
  BY <1>2, <1>3, <1>4, <1>5, <1>6, <1>7, <1>8 DEF Next, CameraStep

\* Every step keeps the flow.
LEMMA FlowStep ==
    ASSUME ShapeInv, FlowInv, Timely, [Next]_vars
    PROVE  FlowInv'
<1>1. CASE Tick
  BY <1>1, FlowSame DEF Tick, capture, dispatch, inference, process, InWork
<1>2. ASSUME NEW c \in Cameras, CameraStep(c) PROVE FlowInv'
  <2>1. ASSUME NEW motion \in BOOLEAN, EndSession(c, motion) PROVE FlowInv'
    BY <2>1, EndSessionFlow
  <2>2. CASE StartSession(c) \/ \E motion \in BOOLEAN : KeepRecording(c, motion)
    BY <2>2, FlowSame DEF StartSession, KeepRecording, Frame, inference, InWork
  <2>. QED
    BY <1>2, <2>1, <2>2 DEF CameraStep
<1>3. CASE DispatcherStep
  <2>1. CASE DispatcherEnds
    BY <2>1, FlowSame DEF DispatcherEnds, ThreadEnds, capture, dispatch, inference, InWork
  <2>. QED
    BY <1>3, <2>1, ReceiveFirstFlow, MergeFlow, ReplaceFlow, FinalizeFlow DEF DispatcherStep
<1>4. CASE InferenceStep
  <2>1. ASSUME NEW saved \in BOOLEAN, SaveEvidence(saved) PROVE FlowInv'
    <3>1. /\ InWork' = InWork
          /\ UNCHANGED <<ended, arrived, pending, waiting, dropped, log, failed, lost>>
      BY <2>1 DEF SaveEvidence, capture, dispatch, process, InWork
    <3>. QED
      BY <3>1, FlowSame
  <2>2. CASE InferenceEnds
    BY <2>2, FlowSame DEF InferenceEnds, ThreadEnds, capture, dispatch, inference, InWork
  <2>. QED
    BY <1>4, <2>1, <2>2, TakeFlow, LogFlow, FailFlow DEF InferenceStep
<1>5. CASE ProcessStep
  <2>1. CASE RequestStop \/ CloseLog \/ Boot
    BY <2>1, FlowSame DEF RequestStop, CloseLog, Boot, capture, dispatch, inference, InWork
  <2>. QED
    BY <1>5, <2>1, EndFlow DEF ProcessStep, ProcessExits, ProcessDies
<1>6. CASE UNCHANGED vars
  BY <1>6, FlowSame DEF vars, capture, dispatch, inference, process, InWork
<1>. QED
  BY <1>1, <1>2, <1>3, <1>4, <1>5, <1>6 DEF Next

-----------------------------------------------------------------------------
(* The order of the rows, and the place of each session.                   *)

OrderInv == ShapeInv /\ FlowInv /\ Timely

\* The invariant of the flow is inductive.
LEMMA OrderInvariant == Spec => []OrderInv
<1>1. Init => OrderInv
  BY ShapeInit, FlowInit DEF OrderInv
<1>2. OrderInv /\ [Next]_vars => OrderInv'
  BY ShapeStep, FlowStep, TimelyStep DEF OrderInv
<1>. QED
  BY <1>1, <1>2, PTL DEF Spec

\* The rows of a camera are logged in the order in which its sessions happened, and
\* do not overlap: the dispatcher (monitor.py) and the inference queue never let a
\* clip overtake another of its camera, through merges, full queues and restarts.
THEOREM RowsKeepOrder == Spec => []RowsInOrder
<1>1. OrderInv => RowsInOrder
  BY DEF OrderInv, FlowInv, Ordered, LogOrdered, Before, RowsInOrder
<1>. QED
  BY <1>1, OrderInvariant, PTL

\* The set of the clips at a spot's place.
At(kind) ==
    CASE kind = "arrived" -> Arrived
      [] kind = "pending" -> Pending
      [] kind = "waiting" -> Queued
      [] kind = "worker" -> InWork
      [] kind = "log" -> Logged
      [] kind = "dropped" -> dropped
      [] kind = "failed" -> failed
      [] kind = "lost" -> lost

Kinds == {"arrived", "pending", "waiting", "worker", "log", "dropped", "failed", "lost"}

\* A spot has one of eight kinds; with a session in it, its clip is at that place.
LEMMA SpotShape ==
    ASSUME NEW p \in Spots
    PROVE  /\ p[1] \in Kinds /\ p = <<p[1], p[2], p[3]>>
           /\ p[3] # <<>> \/ p[1] # "pending" => p[3] \in At(p[1])
           /\ p[1] = "arrived" => p[2] \in 1..Len(arrived) /\ p[3] = <<arrived[p[2]]>>
           /\ p[1] = "pending" => p[2] \in Cameras /\ p[3] = pending[p[2]]
           /\ p[1] = "waiting" => p[2] \in 1..Len(waiting) /\ p[3] = waiting[p[2]]
           /\ p[1] = "worker" => p[2] = 0 /\ p[3] = worker.clip
           /\ p[1] = "log" => p[2] \in 1..Len(log) /\ p[3] = log[p[2]].clip
           /\ p[1] \in {"dropped", "failed", "lost"} => p[2] = p[3]
<1>1. CASE \E i \in 1..Len(arrived) : p = <<"arrived", i, <<arrived[i]>>>>
  BY <1>1 DEF At, Kinds, Arrived
<1>2. CASE \E c \in Cameras : p = <<"pending", c, pending[c]>>
  BY <1>2 DEF At, Kinds, Pending
<1>3. CASE \E i \in 1..Len(waiting) : p = <<"waiting", i, waiting[i]>>
  BY <1>3 DEF At, Kinds, Queued
<1>4. CASE worker.pc # "idle" /\ p = <<"worker", 0, worker.clip>>
  BY <1>4 DEF At, Kinds, InWork
<1>5. CASE \E i \in 1..Len(log) : p = <<"log", i, log[i].clip>>
  BY <1>5 DEF At, Kinds, Logged
<1>6. CASE \E clip \in dropped : p = <<"dropped", clip, clip>>
  BY <1>6 DEF At, Kinds
<1>7. CASE \E clip \in failed : p = <<"failed", clip, clip>>
  BY <1>7 DEF At, Kinds
<1>8. CASE \E clip \in lost : p = <<"lost", clip, clip>>
  BY <1>8 DEF At, Kinds
<1>. QED
  BY <1>1, <1>2, <1>3, <1>4, <1>5, <1>6, <1>7, <1>8 DEF Spots

\* The places are disjoint.
LEMMA PlacesDisjoint ==
    ASSUME FlowInv, NEW k \in Kinds, NEW l \in Kinds, NEW clip, clip \in At(k), clip \in At(l)
    PROVE  k = l
<1>1. /\ ClipsWhole /\ Placed
      /\ Gone = dropped \union failed \union lost
  BY DEF FlowInv, Gone
<1>2. clip \in Everywhere
  BY <1>1 DEF At, Kinds, Everywhere
<1>3. ~Before(clip, clip)
  BY <1>1, <1>2, NotBeforeItself DEF ClipsWhole
<1>4. /\ ~(clip \in Logged /\ clip \in InWork \union Queued \union Pending \union Arrived)
      /\ ~(clip \in InWork /\ clip \in Queued \union Pending \union Arrived)
      /\ ~(clip \in Queued /\ clip \in Pending \union Arrived)
      /\ ~(clip \in Pending /\ clip \in Arrived)
      /\ ~(clip \in Gone /\ clip \in Pending \union Arrived)
      /\ ~(clip \in Gone /\ clip \in Logged \union InWork \union Queued)
      /\ ~(clip \in dropped /\ clip \in failed) /\ ~(clip \in dropped /\ clip \in lost)
      /\ ~(clip \in failed /\ clip \in lost)
  BY <1>1, <1>3 DEF Placed, Ahead
<1>. QED
  BY <1>1, <1>4 DEF At, Kinds

\* A place holds a clip once.
LEMMA SpotOfClip ==
    ASSUME OrderInv, NEW p \in Spots, NEW q \in Spots, p[3] = q[3], p[3] # <<>>
    PROVE  p = q
<1>1. FlowInv /\ ShapeInv /\ ClipsWhole /\ Ordered
  BY DEF OrderInv, FlowInv
<1>2. p[3] \in At(p[1]) /\ q[3] \in At(q[1]) /\ p[1] \in Kinds /\ q[1] \in Kinds
  BY SpotShape
<1>3. p[1] = q[1]
  BY <1>1, <1>2, PlacesDisjoint
<1>4. p[3] \in Everywhere
  BY <1>2 DEF At, Kinds, Everywhere, Gone
<1>5. ~Before(p[3], p[3])
  BY <1>1, <1>4, NotBeforeItself DEF ClipsWhole
<1>6. Len(log) \in Nat /\ Len(waiting) \in Nat /\ Len(arrived) \in Nat
  BY <1>1 DEF ShapeInv, TypeOK
<1>7. p[2] = q[2]
  <2>1. CASE p[1] = "arrived"
    <3>1. /\ p[2] \in 1..Len(arrived) /\ q[2] \in 1..Len(arrived)
          /\ p[3] = <<arrived[p[2]]>> /\ p[3] = <<arrived[q[2]]>>
      BY <1>3, <2>1, SpotShape
    <3>2. ~(p[2] < q[2]) /\ ~(q[2] < p[2])
      BY <1>1, <1>5, <3>1 DEF Ordered, ArrivedOrdered
    <3>. QED
      BY <1>6, <3>1, <3>2
  <2>2. CASE p[1] = "waiting"
    <3>1. /\ p[2] \in 1..Len(waiting) /\ q[2] \in 1..Len(waiting)
          /\ p[3] = waiting[p[2]] /\ p[3] = waiting[q[2]]
      BY <1>3, <2>2, SpotShape
    <3>2. ~(p[2] < q[2]) /\ ~(q[2] < p[2])
      BY <1>1, <1>5, <3>1 DEF Ordered, WaitingOrdered
    <3>. QED
      BY <1>6, <3>1, <3>2
  <2>3. CASE p[1] = "log"
    <3>1. /\ p[2] \in 1..Len(log) /\ q[2] \in 1..Len(log)
          /\ p[3] = log[p[2]].clip /\ p[3] = log[q[2]].clip
      BY <1>3, <2>3, SpotShape
    <3>2. ~(p[2] < q[2]) /\ ~(q[2] < p[2])
      BY <1>1, <1>5, <3>1 DEF Ordered, LogOrdered
    <3>. QED
      BY <1>6, <3>1, <3>2
  <2>4. CASE p[1] = "pending"
    <3>1. /\ p[2] \in Cameras /\ q[2] \in Cameras /\ p[3] = pending[p[2]] /\ p[3] = pending[q[2]]
      BY <1>3, <2>4, SpotShape
    <3>. QED
      BY <1>1, <3>1 DEF ClipsWhole
  <2>5. CASE p[1] \in {"worker", "dropped", "failed", "lost"}
    BY <1>3, <2>5, SpotShape
  <2>. QED
    BY <1>2, <2>1, <2>2, <2>3, <2>4, <2>5 DEF Kinds
<1>. QED
  BY <1>3, <1>7, SpotShape

\* Where a clip is, there is a spot for it.
LEMMA ClipHasSpot ==
    ASSUME NEW clip \in Everywhere
    PROVE  \E p \in Spots : p[3] = clip
<1>1. CASE clip \in Logged
  <2>1. PICK i \in 1..Len(log) : clip = log[i].clip
    BY <1>1 DEF Logged
  <2>2. <<"log", i, log[i].clip>> \in Spots
    BY DEF Spots
  <2>. QED
    BY <2>1, <2>2
<1>2. CASE clip \in InWork
  <2>1. worker.pc # "idle" /\ clip = worker.clip
    BY <1>2 DEF InWork
  <2>2. <<"worker", 0, worker.clip>> \in Spots
    BY <2>1 DEF Spots
  <2>. QED
    BY <2>1, <2>2
<1>3. CASE clip \in Queued
  <2>1. PICK i \in 1..Len(waiting) : clip = waiting[i]
    BY <1>3 DEF Queued
  <2>2. <<"waiting", i, waiting[i]>> \in Spots
    BY DEF Spots
  <2>. QED
    BY <2>1, <2>2
<1>4. CASE clip \in Pending
  <2>1. PICK c \in Cameras : clip = pending[c]
    BY <1>4 DEF Pending
  <2>2. <<"pending", c, pending[c]>> \in Spots
    BY DEF Spots
  <2>. QED
    BY <2>1, <2>2
<1>5. CASE clip \in Arrived
  <2>1. PICK i \in 1..Len(arrived) : clip = <<arrived[i]>>
    BY <1>5 DEF Arrived
  <2>2. <<"arrived", i, <<arrived[i]>>>> \in Spots
    BY DEF Spots
  <2>. QED
    BY <2>1, <2>2
<1>6. CASE clip \in Gone
  <2>1. clip \in dropped \/ clip \in failed \/ clip \in lost
    BY <1>6 DEF Gone
  <2>2. <<"dropped", clip, clip>> \in Spots \/ <<"failed", clip, clip>> \in Spots
        \/ <<"lost", clip, clip>> \in Spots
    BY <2>1 DEF Spots
  <2>. QED
    BY <2>2
<1>. QED
  BY <1>1, <1>2, <1>3, <1>4, <1>5, <1>6 DEF Everywhere

\* Each session the cameras handed over (monitor.py) is in one clip, once, and that
\* clip in one place: none is analysed twice and none disappears, through merges, a
\* full inference queue, failures, late finishes of a stop, crashes and restarts.
THEOREM EachSessionInOnePlace == Spec => []EachSessionOnce
<1>1. OrderInv => EachSessionOnce
  <2> SUFFICES ASSUME OrderInv PROVE EachSessionOnce
    OBVIOUS
  <2>1. ClipsWhole /\ Separate /\ Covered
    BY DEF OrderInv, FlowInv
  <2>2. ASSUME NEW p \in Spots, p[3] # <<>> PROVE p[3] \in Everywhere
    BY <2>2, SpotShape DEF At, Kinds, Everywhere, Gone
  <2>3. ASSUME NEW p \in Spots, NEW i \in 1..Len(p[3]), NEW j \in 1..Len(p[3]), p[3][i] = p[3][j]
        PROVE  i = j
    <3>1. p[3] # <<>>
      BY <2>3
    <3>2. Whole(p[3])
      BY <2>1, <2>2, <3>1 DEF ClipsWhole
    <3>3. /\ Len(p[3]) \in Nat
          /\ \A k \in 1..Len(p[3]) : p[3][k].start \in Nat /\ p[3][k].end \in Nat
      BY <3>2, SessionFields DEF Whole, Clips
    <3>4. ~(i < j) /\ ~(j < i)
      BY <2>3, <3>2, <3>3 DEF Whole
    <3>. QED
      BY <3>3, <3>4
  <2>4. ASSUME NEW s \in ended
        PROVE  \E p \in Spots : s \in Parts(p[3]) /\ \A q \in Spots : s \in Parts(q[3]) => q = p
    <3>1. PICK clip \in Everywhere : s \in Parts(clip)
      BY <2>1 DEF Covered
    <3>2. PICK p \in Spots : p[3] = clip
      BY ClipHasSpot
    <3>3. ASSUME NEW q \in Spots, s \in Parts(q[3]) PROVE q = p
      <4>1. q[3] # <<>> /\ p[3] # <<>>
        BY <3>1, <3>2, <3>3 DEF Parts
      <4>2. q[3] \in Everywhere /\ p[3] \in Everywhere
        BY <2>2, <4>1
      <4>3. Whole(q[3]) /\ Whole(p[3])
        BY <2>1, <4>2 DEF ClipsWhole
      <4>4. q[3] = p[3]
        BY <2>1, <3>1, <3>2, <3>3, <4>2, <4>3, ApartDisjoint DEF Separate
      <4>. QED
        BY <4>1, <4>4, SpotOfClip
    <3>. QED
      BY <3>1, <3>2, <3>3
  <2>. QED
    BY <2>3, <2>4 DEF EachSessionOnce
<1>. QED
  BY <1>1, OrderInvariant, PTL

-----------------------------------------------------------------------------
(* Ids and files.                                                          *)

IdInv == OrderInv /\ DownEmpty /\ IdsGiven /\ FilesOld

\* What the log says of an id.
LEMMA LogIds ==
    ASSUME ShapeInv, NEW i \in 1..Len(log)
    PROVE  /\ log[i] \in Rows
           /\ log[i].sid \in IdSet /\ log[i].sid[1] \in DOMAIN numbers /\ log[i].sid[2] \in Nat
BY RowFields, IdShape DEF ShapeInv, ClipsFull, TypeOK

\* What a file says of an id.
LEMMA FileIds ==
    ASSUME ShapeInv, NEW f \in files
    PROVE  /\ f.sid \in IdSet /\ f.sid[1] \in DOMAIN numbers /\ f.sid[2] \in Nat /\ f.start \in Nat
           /\ numbers[f.sid[1]] \in Nat
BY IdShape DEF ShapeInv, TypeOK

\* A process that is down does nothing but start.
LEMMA DownStep ==
    ASSUME ShapeInv, FlowInv, DownEmpty, [Next]_vars
    PROVE  DownEmpty'
<1>1. CASE main # "down" /\ main' # "down"
  BY <1>1 DEF DownEmpty
<1>2. CASE EndProcess
  <2>1. /\ InMemory' = {} /\ threads' = {} /\ worker' = Idle
        /\ \A c \in Cameras : camera'[c] = Ready(0)
    BY <1>2, EndFlow, EndLeaves
  <2>. QED
    BY <2>1 DEF DownEmpty, Idle, Ready
<1>3. CASE UNCHANGED <<camera, arrived, pending, waiting, worker, threads, main>>
  <2>1. InMemory' = InMemory
    BY <1>3 DEF InMemory
  <2>. QED
    BY <1>3, <2>1 DEF DownEmpty
<1>4. CASE Tick
  BY <1>3, <1>4 DEF Tick, capture, dispatch, inference, process
<1>5. ASSUME NEW c \in Cameras, CameraStep(c) PROVE DownEmpty'
  <2>1. Frame(c)
    BY <1>5 DEF CameraStep, StartSession, KeepRecording, EndSession
  <2>. QED
    BY <1>1, <2>1 DEF Frame, DownEmpty
<1>6. CASE DispatcherStep
  <2>1. "dispatcher" \in threads /\ main' = main
    BY <1>6 DEF DispatcherStep, ReceiveFirst, Merge, Replace, Receiving, FinalizeStale, DispatcherEnds,
       ThreadEnds, process
  <2>. QED
    BY <1>1, <2>1 DEF DownEmpty
<1>7. CASE InferenceStep
  <2>1. ("inference" \in threads \/ worker.pc # "idle") /\ main' = main
    BY <1>7 DEF InferenceStep, TakeClip, SaveEvidence, LogRow, LogClosed, AnalysisRaises,
       InferenceEnds, ThreadEnds, process
  <2>. QED
    BY <1>1, <2>1 DEF DownEmpty
<1>8. CASE ProcessStep
  <2>1. CASE RequestStop \/ CloseLog \/ Boot
    BY <2>1 DEF RequestStop, CloseLog, Boot, DownEmpty
  <2>. QED
    BY <1>2, <1>8, <2>1 DEF ProcessStep, ProcessExits, ProcessDies
<1>9. CASE UNCHANGED vars
  BY <1>3, <1>9 DEF vars, capture, dispatch, inference, process
<1>. QED
  BY <1>4, <1>5, <1>6, <1>7, <1>8, <1>9 DEF Next

\* The ids of a step that neither gives nor logs one.
LEMMA IdsSame ==
    ASSUME IdsGiven, UNCHANGED <<log, numbers>>,
           worker'.pc = "idle" \/ (worker.pc # "idle" /\ worker'.sid = worker.sid)
    PROVE  IdsGiven'
BY DEF IdsGiven

\* Ids in the log have been given.
LEMMA IdsStep ==
    ASSUME ShapeInv, DownEmpty, IdsGiven, [Next]_vars
    PROVE  IdsGiven'
<1>1. CASE UNCHANGED <<log, numbers, worker>>
  BY <1>1 DEF IdsGiven
<1>2. CASE Tick \/ UNCHANGED vars \/ DispatcherStep \/ \E c \in Cameras : CameraStep(c)
  <2>1. UNCHANGED <<log, numbers, worker>>
    BY <1>2 DEF Tick, vars, capture, dispatch, inference, process, CameraStep, StartSession,
       KeepRecording, EndSession, Frame, DispatcherStep, ReceiveFirst, Merge, Replace, Receiving,
       FinalizeStale, DispatcherEnds, ThreadEnds
  <2>. QED
    BY <1>1, <2>1
<1>3. CASE TakeClip
  <2> DEFINE sid == <<Prefix[First(Head(waiting)).cam],
                      numbers[Prefix[First(Head(waiting)).cam]] + 1>>
  <2>1. /\ sid[1] \in DOMAIN numbers /\ numbers[sid[1]] \in Nat /\ sid[2] = numbers[sid[1]] + 1
        /\ numbers' = [numbers EXCEPT ![sid[1]] = sid[2]]
        /\ worker'.sid = sid /\ log' = log
    BY <1>3, TakenShape
  <2>. HIDE DEF sid
  <2>2. numbers'[sid[1]] = sid[2] /\ \A p \in DOMAIN numbers : numbers'[p] >= numbers[p]
    <3>1. \A p \in DOMAIN numbers : numbers[p] \in Nat
      BY DEF ShapeInv, TypeOK
    <3>2. \A p \in DOMAIN numbers : numbers'[p] = IF p = sid[1] THEN sid[2] ELSE numbers[p]
      BY <2>1 DEF ShapeInv, TypeOK
    <3>. QED
      BY <2>1, <3>1, <3>2
  <2>3. \A i \in 1..Len(log) :
           /\ log[i].sid[1] \in DOMAIN numbers /\ log[i].sid[2] \in Nat
           /\ log[i].sid[2] <= numbers[log[i].sid[1]]
    BY LogIds DEF IdsGiven
  <2>4. \A p \in DOMAIN numbers : numbers[p] \in Nat /\ numbers'[p] \in Nat
    BY <2>1 DEF ShapeInv, TypeOK
  <2>. QED
    BY <2>1, <2>2, <2>3, <2>4 DEF IdsGiven
<1>4. ASSUME NEW saved \in BOOLEAN, SaveEvidence(saved) PROVE IdsGiven'
  BY <1>4, IdsSame DEF SaveEvidence
<1>5. CASE LogRow
  <2> DEFINE row == [sid |-> worker.sid, clip |-> worker.clip, saved |-> worker.saved]
  <2>1. /\ row.sid = worker.sid /\ row \in Rows /\ log' = Append(log, row)
        /\ worker' = Idle /\ numbers' = numbers /\ worker.pc # "idle"
    BY <1>5, LoggedShape DEF LogRow
  <2>. HIDE DEF row
  <2>2. /\ Len(log) \in Nat /\ Len(log') = Len(log) + 1
        /\ \A i \in 1..Len(log) : log'[i] = log[i]
        /\ log'[Len(log) + 1] = row
    BY <2>1, Grown DEF ShapeInv, ClipsFull
  <2>3. \A i \in 1..Len(log') : i \in 1..Len(log) \/ i = Len(log) + 1
    BY <2>2
  <2>4. worker'.pc = "idle"
    BY <2>1 DEF Idle
  <2>. QED
    BY <2>1, <2>2, <2>3, <2>4 DEF IdsGiven
<1>6. CASE LogClosed \/ AnalysisRaises
  BY <1>6, IdsSame DEF LogClosed, AnalysisRaises, Idle
<1>7. CASE InferenceEnds \/ RequestStop \/ CloseLog
  BY <1>1, <1>7 DEF InferenceEnds, ThreadEnds, RequestStop, CloseLog, inference
<1>8. CASE EndProcess
  BY <1>8, EndLeaves, IdsSame DEF Idle
<1>9. CASE Boot
  <2>1. /\ numbers' = [p \in DOMAIN numbers |-> LastNumber(p)] /\ log' = log /\ worker' = worker
        /\ worker.pc = "idle"
    BY <1>9 DEF Boot, DownEmpty
  <2>2. \A i \in 1..Len(log) : log[i].sid[2] <= LastNumber(log[i].sid[1])
    BY LogIds, LastNumberIs DEF Tops
  <2>3. \A i \in 1..Len(log) : log[i].sid[1] \in DOMAIN numbers
    BY LogIds
  <2>. QED
    BY <2>1, <2>2, <2>3 DEF IdsGiven
<1>. QED
  BY <1>2, <1>3, <1>4, <1>5, <1>6, <1>7, <1>8, <1>9 DEF Next, InferenceStep, ProcessStep,
     ProcessExits, ProcessDies

\* A clip of the places is as old as its first session, which has ended.
LEMMA FirstOver ==
    ASSUME FlowInv, Timely, ShapeInv, NEW clip \in Everywhere
    PROVE  /\ First(clip).start \in Nat /\ First(clip).start <= clock
<1>1. Whole(clip) /\ Parts(clip) \subseteq ended /\ clock \in Nat
  BY DEF FlowInv, ClipsWhole, ShapeInv, TypeOK
<1>2. Last(clip) \in Parts(clip)
  BY <1>1, ClipEnds DEF Whole, Parts, Last
<1>3. Last(clip).end <= clock
  BY <1>1, <1>2 DEF Timely
<1>. QED
  BY <1>1, <1>3, WholeEnds

\* A step that neither saves nor logs keeps old files old, when each clip that waits
\* begins where one did before, and each camera records since then.
LEMMA OldSame ==
    ASSUME ShapeInv, FilesOld, UNCHANGED <<log, files, numbers>>, clock' \in Nat, clock <= clock',
           worker'.pc = "idle"
              \/ (worker.pc # "idle" /\ worker'.sid = worker.sid /\ worker'.clip = worker.clip),
           \A clip \in Queued' \union Pending' \union Arrived' :
               \/ \E old \in Queued \union Pending \union Arrived : First(old) = First(clip)
               \/ \E c \in Cameras : camera[c].mode = "recording" /\ camera[c].start = First(clip).start,
           \A c \in Cameras : camera'[c].mode = "recording" =>
               \/ camera[c].mode = "recording" /\ camera'[c].start = camera[c].start
               \/ camera'[c].start = clock
    PROVE  FilesOld'
<1>1. \A f \in files : f.start \in Nat /\ f.start <= clock /\ clock \in Nat
  BY FileIds DEF FilesOld, ShapeInv, TypeOK
<1>2. \A f \in files' : f.start <= clock'
  BY <1>1
<1>3. ASSUME NEW f \in files', f.sid[2] > numbers'[f.sid[1]]
      PROVE  /\ \A clip \in Queued' \union Pending' \union Arrived' : f.start <= First(clip).start
             /\ \A c \in Cameras : camera'[c].mode = "recording" => f.start <= camera'[c].start
  <2>1. /\ \A clip \in Queued \union Pending \union Arrived : f.start <= First(clip).start
        /\ \A c \in Cameras : camera[c].mode = "recording" => f.start <= camera[c].start
    BY <1>3 DEF FilesOld
  <2>2. \A clip \in Queued' \union Pending' \union Arrived' : f.start <= First(clip).start
    BY <2>1
  <2>3. \A c \in Cameras : camera'[c].mode = "recording" => f.start <= camera'[c].start
    BY <1>1, <2>1
  <2>. QED
    BY <2>2, <2>3
<1>4. worker'.pc # "idle" =>
          \A f \in files' : f.sid = worker'.sid => f.start <= First(worker'.clip).start
  BY DEF FilesOld
<1>5. \A i \in 1..Len(log') : \A f \in files' : f.sid = log'[i].sid => f.start <= First(log'[i].clip).start
  BY DEF FilesOld
<1>. QED
  BY <1>2, <1>3, <1>4, <1>5 DEF FilesOld

\* The clips the dispatcher has and hands on begin where clips began before.
LEMMA DispatcherKeepsFirst ==
    ASSUME ShapeInv, FlowInv, DispatcherStep
    PROVE  /\ \A clip \in Queued' \union Pending' \union Arrived' :
                 \E old \in Queued \union Pending \union Arrived : First(old) = First(clip)
           /\ UNCHANGED <<clock, camera, worker, log, files, numbers>>
<1> DEFINE Kept == /\ \A clip \in Queued' \union Pending' \union Arrived' :
                         \E old \in Queued \union Pending \union Arrived : First(old) = First(clip)
                   /\ UNCHANGED <<clock, camera, worker, log, files, numbers>>
<1>1. ClipsWhole /\ Placed /\ WaitingOrdered
  BY DEF FlowInv, Ordered
<1>2. ASSUME NEW c \in Cameras, pending[c] # <<>>, Enqueue(pending[c])
      PROVE  Queued' \subseteq Queued \union Pending
  <2>1. pending[c] \in Pending /\ pending[c] \in Everywhere
    BY <1>2 DEF Pending, Everywhere
  <2>2. pending[c] \in Clips /\ Ahead(Queued, {pending[c]})
    BY <1>1, <2>1 DEF ClipsWhole, Whole, Placed, Ahead
  <2>3. Queued' = Queued \union {pending[c]} \/ Queued' = Queued
    BY <1>1, <1>2, <2>2, EnqueuePlaces
  <2>. QED
    BY <2>1, <2>3
<1>3. ASSUME NEW session \in ended, Receiving(session), waiting' = waiting,
             NEW clip, pending' = [pending EXCEPT ![session.cam] = clip], clip # <<>>,
             \E old \in Pending \union Arrived : First(old) = First(clip)
      PROVE  \A x \in Queued' \union Pending' \union Arrived' :
                 \E old \in Queued \union Pending \union Arrived : First(old) = First(x)
  <2>1. session.cam \in Cameras /\ Arrived' \subseteq Arrived
    BY <1>3, Received
  <2>2. Pending' \subseteq Pending \union {clip}
    BY <1>3, <2>1, PendingFrom
  <2>3. Queued' = Queued
    BY <1>3 DEF Queued
  <2>. QED
    BY <1>3, <2>1, <2>2, <2>3
<1>4. ASSUME NEW session \in ended, ReceiveFirst(session)
      PROVE  Kept
  <2>1. /\ Receiving(session) /\ waiting' = waiting
        /\ pending' = [pending EXCEPT ![session.cam] = <<session>>]
    BY <1>4 DEF ReceiveFirst
  <2>2. <<session>> \in Arrived /\ <<session>> # <<>>
        /\ UNCHANGED <<clock, camera, worker, log, files, numbers>>
    BY <2>1, Received
  <2>. QED
    BY <1>3, <2>1, <2>2
<1>5. ASSUME NEW session \in ended, Merge(session)
      PROVE  Kept
  <2> DEFINE clip == pending[session.cam]
             merged == Append(clip, session)
  <2>1. /\ Receiving(session) /\ waiting' = waiting /\ clip # <<>>
        /\ pending' = [pending EXCEPT ![session.cam] = merged]
        /\ Last(clip).end <= session.start
    BY <1>5 DEF Merge, Returns
  <2>2. /\ session \in SessionSet /\ session.cam \in Cameras /\ session.start < session.end
        /\ UNCHANGED <<clock, camera, worker, log, files, numbers>>
    BY <2>1, Received
  <2>3. clip \in Pending /\ clip \in Everywhere
    BY <2>1, <2>2 DEF Pending, Everywhere
  <2>4. Whole(clip) /\ First(clip).cam = session.cam
    BY <1>1, <2>1, <2>2, <2>3 DEF ClipsWhole
  <2>5. Whole(merged) /\ First(merged) = First(clip)
    BY <2>1, <2>2, <2>4, MergedWhole
  <2>6. merged # <<>>
    BY <2>5 DEF Whole, Clips
  <2>. HIDE DEF clip, merged
  <2>. QED
    BY <1>3, <2>1, <2>2, <2>3, <2>5, <2>6
<1>6. ASSUME NEW session \in ended, Replace(session)
      PROVE  Kept
  <2>1. /\ Receiving(session) /\ pending[session.cam] # <<>> /\ Enqueue(pending[session.cam])
        /\ pending' = [pending EXCEPT ![session.cam] = <<session>>]
    BY <1>6 DEF Replace
  <2>2. /\ session.cam \in Cameras /\ <<session>> \in Arrived /\ Arrived' \subseteq Arrived
        /\ UNCHANGED <<clock, camera, worker, log, files, numbers>>
    BY <2>1, Received
  <2>3. Queued' \subseteq Queued \union Pending
    BY <1>2, <2>1, <2>2
  <2>4. Pending' \subseteq Pending \union {<<session>>}
    BY <2>1, <2>2, PendingFrom
  <2>. QED
    BY <2>2, <2>3, <2>4
<1>7. ASSUME NEW c \in Cameras, FinalizeStale(c)
      PROVE  Kept
  <2>1. /\ pending[c] # <<>> /\ Enqueue(pending[c])
        /\ pending' = [pending EXCEPT ![c] = <<>>]
        /\ UNCHANGED <<clock, camera, arrived, worker, log, files, numbers>>
    BY <1>7 DEF FinalizeStale, capture
  <2>2. Queued' \subseteq Queued \union Pending
    BY <1>2, <2>1
  <2>3. Pending' \subseteq Pending /\ Arrived' = Arrived
    BY <2>1, PendingFrom DEF Arrived
  <2>. QED
    BY <2>1, <2>2, <2>3
<1>8. CASE DispatcherEnds
  BY <1>8 DEF DispatcherEnds, ThreadEnds, capture, dispatch, inference, Queued, Pending, Arrived
<1>. QED
  BY <1>4, <1>5, <1>6, <1>7, <1>8 DEF DispatcherStep

\* Every step keeps old files old.
LEMMA FilesStep ==
    ASSUME IdInv, [Next]_vars
    PROVE  FilesOld'
<1>1. /\ ShapeInv /\ FlowInv /\ Timely /\ DownEmpty /\ IdsGiven /\ FilesOld /\ clock \in Nat
      /\ ClipsWhole /\ WaitingOrdered
  BY DEF IdInv, OrderInv, ShapeInv, TypeOK, FlowInv, Ordered
<1>2. CASE Tick
  <2>1. /\ clock' \in Nat /\ clock <= clock'
        /\ UNCHANGED <<camera, arrived, pending, waiting, worker, log, files, numbers>>
    BY <1>1, <1>2 DEF Tick, capture, dispatch, inference
  <2>2. Queued' = Queued /\ Pending' = Pending /\ Arrived' = Arrived
    BY <2>1 DEF Queued, Pending, Arrived
  <2>. QED
    BY <1>1, <2>1, <2>2, OldSame
<1>3. ASSUME NEW c \in Cameras, StartSession(c) PROVE FilesOld'
  <2>1. /\ camera' = [camera EXCEPT ![c] = [mode |-> "recording", start |-> clock, seen |-> clock]]
        /\ UNCHANGED <<clock, arrived, pending, waiting, worker, log, files, numbers>>
    BY <1>3 DEF StartSession, Frame, inference
  <2>2. Queued' = Queued /\ Pending' = Pending /\ Arrived' = Arrived
    BY <2>1 DEF Queued, Pending, Arrived
  <2>3. \A d \in Cameras : camera'[d] = IF d = c THEN [mode |-> "recording", start |-> clock, seen |-> clock]
                                                 ELSE camera[d]
    BY <1>1, <2>1 DEF ShapeInv, TypeOK
  <2>. QED
    BY <1>1, <2>1, <2>2, <2>3, OldSame
<1>4. ASSUME NEW c \in Cameras, NEW motion \in BOOLEAN, KeepRecording(c, motion) PROVE FilesOld'
  <2>1. /\ camera[c].mode = "recording"
        /\ camera' = [camera EXCEPT ![c] = [mode |-> "recording", start |-> camera[c].start,
                                            seen |-> LastMotion(c, motion)]]
        /\ UNCHANGED <<clock, arrived, pending, waiting, worker, log, files, numbers>>
    BY <1>4 DEF KeepRecording, Frame, inference
  <2>2. Queued' = Queued /\ Pending' = Pending /\ Arrived' = Arrived
    BY <2>1 DEF Queued, Pending, Arrived
  <2>3. \A d \in Cameras : camera'[d].mode = "recording" =>
           camera[d].mode = "recording" /\ camera'[d].start = camera[d].start
    BY <1>1, <2>1 DEF ShapeInv, TypeOK
  <2>. QED
    BY <1>1, <2>1, <2>2, <2>3, OldSame
<1>5. ASSUME NEW c \in Cameras, NEW motion \in BOOLEAN, EndSession(c, motion) PROVE FilesOld'
  <2> DEFINE s == [cam |-> c, start |-> camera[c].start, end |-> clock]
  <2>1. /\ camera[c].mode = "recording" /\ camera' = [camera EXCEPT ![c] = Ready(clock + Cooldown[c])]
        /\ s \in SessionSet /\ s.start = camera[c].start
        /\ arrived' = Append(arrived, s) \/ arrived' = arrived
        /\ UNCHANGED <<clock, pending, waiting, worker, log, files, numbers>>
    BY <1>1, <1>5, SessionEnds
  <2>. HIDE DEF s
  <2>2. Queued' = Queued /\ Pending' = Pending
    BY <2>1 DEF Queued, Pending
  <2>3. \A a \in Arrived' : a \in Arrived \/ a = <<s>>
    <3>1. CASE arrived' = arrived
      BY <3>1 DEF Arrived
    <3>2. CASE arrived' = Append(arrived, s)
      <4>1. /\ Len(arrived) \in Nat /\ Len(arrived') = Len(arrived) + 1
            /\ \A i \in 1..Len(arrived) : arrived'[i] = arrived[i]
            /\ arrived'[Len(arrived) + 1] = s
        BY <1>1, <2>1, <3>2, Grown DEF ShapeInv, TypeOK
      <4>2. \A i \in 1..Len(arrived') : i \in 1..Len(arrived) \/ i = Len(arrived) + 1
        BY <4>1
      <4>. QED
        BY <4>1, <4>2 DEF Arrived
    <3>. QED
      BY <2>1, <3>1, <3>2
  <2>4. First(<<s>>) = s
    BY DEF First
  <2>5. \A d \in Cameras : camera'[d].mode = "recording" =>
           camera[d].mode = "recording" /\ camera'[d].start = camera[d].start
    <3>1. \A d \in Cameras : camera'[d] = IF d = c THEN Ready(clock + Cooldown[c]) ELSE camera[d]
      BY <1>1, <2>1 DEF ShapeInv, TypeOK
    <3>. QED
      BY <3>1 DEF Ready
  <2>6. \A clip \in Queued' \union Pending' \union Arrived' :
           \/ \E old \in Queued \union Pending \union Arrived : First(old) = First(clip)
           \/ camera[c].mode = "recording" /\ camera[c].start = First(clip).start
    BY <2>1, <2>2, <2>3, <2>4
  <2>. QED
    BY <1>1, <2>1, <2>5, <2>6, OldSame
<1>6. CASE DispatcherStep
  BY <1>1, <1>6, DispatcherKeepsFirst, OldSame
<1>7. CASE TakeClip
  <2> DEFINE clip == Head(waiting)
             sid == <<Prefix[First(clip).cam], numbers[Prefix[First(clip).cam]] + 1>>
  <2>1. /\ clip \in Clips /\ sid \in IdSet
        /\ sid[1] \in DOMAIN numbers /\ numbers[sid[1]] \in Nat /\ sid[2] = numbers[sid[1]] + 1
        /\ numbers' = [numbers EXCEPT ![sid[1]] = sid[2]]
        /\ worker'.sid = sid /\ worker'.clip = clip
        /\ waiting # <<>> /\ waiting' = Tail(waiting)
        /\ UNCHANGED <<clock, camera, arrived, pending, log, files>>
    BY <1>1, <1>7, TakenShape DEF capture, dispatch
  <2>2. Queued = Queued' \union {clip}
    BY <1>1, <2>1, WaitingLess
  <2>. HIDE DEF clip, sid
  <2>3. Pending' = Pending /\ Arrived' = Arrived
    BY <2>1 DEF Pending, Arrived
  <2>4. \A p \in DOMAIN numbers : numbers[p] \in Nat /\ numbers'[p] \in Nat /\ numbers[p] <= numbers'[p]
    <3>1. \A p \in DOMAIN numbers : numbers[p] \in Nat
      BY <1>1 DEF ShapeInv, TypeOK
    <3>2. \A p \in DOMAIN numbers : numbers'[p] = IF p = sid[1] THEN sid[2] ELSE numbers[p]
      BY <1>1, <2>1 DEF ShapeInv, TypeOK
    <3>. QED
      BY <2>1, <3>1, <3>2
  <2>5. \A f \in files : f.sid[1] \in DOMAIN numbers /\ f.sid[2] \in Nat
    BY <1>1, FileIds
  <2>6. \A f \in files : f.sid[2] > numbers'[f.sid[1]] => f.sid[2] > numbers[f.sid[1]]
    BY <2>4, <2>5
  <2>7. \A f \in files : f.sid = sid => f.start <= First(clip).start
    <3>1. ASSUME NEW f \in files, f.sid = sid PROVE f.sid[2] > numbers[f.sid[1]]
      BY <2>1, <3>1
    <3>. QED
      BY <1>1, <2>2, <3>1 DEF FilesOld
  <2>. QED
    BY <1>1, <2>1, <2>2, <2>3, <2>6, <2>7 DEF FilesOld
<1>8. ASSUME NEW saved \in BOOLEAN, SaveEvidence(saved) PROVE FilesOld'
  <2> DEFINE file == [sid |-> worker.sid, start |-> First(worker.clip).start]
  <2>1. /\ worker.pc = "analysing" /\ worker'.sid = worker.sid /\ worker'.clip = worker.clip
        /\ files' \subseteq files \union {file}
        /\ UNCHANGED <<clock, camera, arrived, pending, waiting, log, numbers>>
    BY <1>8 DEF SaveEvidence, capture, dispatch
  <2>2. file.sid = worker.sid /\ file.start = First(worker.clip).start
    OBVIOUS
  <2>. HIDE DEF file
  <2>3. Queued' = Queued /\ Pending' = Pending /\ Arrived' = Arrived
    BY <2>1 DEF Queued, Pending, Arrived
  <2>4. file.start \in Nat /\ file.start <= clock
    <3>1. worker.clip \in Everywhere
      BY <2>1 DEF Everywhere, InWork
    <3>. QED
      BY <1>1, <2>2, <3>1, FirstOver
  <2>5. ~(file.sid[2] > numbers[file.sid[1]])
    <3>1. worker.sid \in IdSet /\ worker.sid[2] <= numbers[worker.sid[1]]
      BY <1>1, <2>1, WorkerShape DEF IdsGiven, ShapeInv
    <3>2. worker.sid[2] \in Nat /\ numbers[worker.sid[1]] \in Nat
      BY <1>1, <3>1, IdShape DEF ShapeInv, TypeOK
    <3>. QED
      BY <2>2, <3>1, <3>2
  <2>6. \A i \in 1..Len(log) : log[i].sid # file.sid
    <3>1. ASSUME NEW i \in 1..Len(log), log[i].sid = worker.sid PROVE FALSE
      <4>1. log[i].sid[2] < log[i].sid[2] /\ log[i].sid[2] \in Nat
        BY <1>1, <2>1, <3>1, LogIds DEF IdsGiven
      <4>. QED
        BY <4>1
    <3>. QED
      BY <2>2, <3>1
  <2>7. \A f \in files : f.start <= clock
    BY <1>1 DEF FilesOld
  <2>8. \A f \in files' : f \in files \/ f = file
    BY <2>1
  <2>9. \A f \in files' : f.start <= clock'
    BY <2>1, <2>4, <2>7, <2>8
  <2>10. \A f \in files' : f.sid[2] > numbers'[f.sid[1]] =>
            /\ \A clip \in Queued' \union Pending' \union Arrived' : f.start <= First(clip).start
            /\ \A c \in Cameras : camera'[c].mode = "recording" => f.start <= camera'[c].start
    BY <1>1, <2>1, <2>3, <2>5, <2>8 DEF FilesOld
  <2>11. \A f \in files' : f.sid = worker'.sid => f.start <= First(worker'.clip).start
    BY <1>1, <2>1, <2>2, <2>4, <2>8 DEF FilesOld
  <2>12. \A i \in 1..Len(log') : \A f \in files' : f.sid = log'[i].sid => f.start <= First(log'[i].clip).start
    BY <1>1, <2>1, <2>6, <2>8 DEF FilesOld
  <2>. QED
    BY <2>9, <2>10, <2>11, <2>12 DEF FilesOld
<1>9. CASE LogRow
  <2> DEFINE row == [sid |-> worker.sid, clip |-> worker.clip, saved |-> worker.saved]
  <2>1. /\ row.sid = worker.sid /\ row.clip = worker.clip /\ row \in Rows /\ log' = Append(log, row)
        /\ worker'.pc = "idle" /\ worker.pc # "idle"
        /\ UNCHANGED <<clock, camera, arrived, pending, waiting, numbers, files>>
    BY <1>1, <1>9, LoggedShape DEF LogRow, Idle, capture, dispatch
  <2>. HIDE DEF row
  <2>2. Queued' = Queued /\ Pending' = Pending /\ Arrived' = Arrived
    BY <2>1 DEF Queued, Pending, Arrived
  <2>3. /\ Len(log) \in Nat /\ Len(log') = Len(log) + 1
        /\ \A i \in 1..Len(log) : log'[i] = log[i]
        /\ log'[Len(log) + 1] = row
    BY <1>1, <2>1, Grown DEF ShapeInv, ClipsFull
  <2>4. \A i \in 1..Len(log') : i \in 1..Len(log) \/ i = Len(log) + 1
    BY <2>3
  <2>5. \A i \in 1..Len(log') : \A f \in files : f.sid = log'[i].sid => f.start <= First(log'[i].clip).start
    BY <1>1, <2>1, <2>3, <2>4 DEF FilesOld
  <2>. QED
    BY <1>1, <2>1, <2>2, <2>5 DEF FilesOld
<1>10. CASE LogClosed \/ AnalysisRaises
  <2>1. /\ worker'.pc = "idle"
        /\ UNCHANGED <<clock, camera, arrived, pending, waiting, log, files, numbers>>
    BY <1>10 DEF LogClosed, AnalysisRaises, Idle, capture, dispatch
  <2>2. Queued' = Queued /\ Pending' = Pending /\ Arrived' = Arrived
    BY <2>1 DEF Queued, Pending, Arrived
  <2>. QED
    BY <1>1, <2>1, <2>2, OldSame
<1>11. CASE InferenceEnds \/ RequestStop \/ CloseLog \/ UNCHANGED vars
  <2>1. UNCHANGED <<clock, camera, arrived, pending, waiting, worker, log, files, numbers>>
    BY <1>11 DEF InferenceEnds, ThreadEnds, RequestStop, CloseLog, vars, capture, dispatch, inference
  <2>2. Queued' = Queued /\ Pending' = Pending /\ Arrived' = Arrived
    BY <2>1 DEF Queued, Pending, Arrived
  <2>. QED
    BY <1>1, <2>1, <2>2 DEF FilesOld
<1>12. CASE EndProcess
  <2>1. /\ InMemory' = {} /\ worker' = Idle /\ \A c \in Cameras : camera'[c] = Ready(0)
        /\ UNCHANGED <<clock, log, files, numbers>>
    BY <1>1, <1>12, EndFlow, EndLeaves
  <2>2. InMemory' = Arrived' \union Queued' \union Pending' \union InWork'
    BY DEF InMemory, Arrived, Queued, Pending, InWork
  <2>. QED
    BY <1>1, <2>1, <2>2, OldSame DEF Idle, Ready
<1>13. CASE Boot
  <2>1. /\ main = "down" /\ DOMAIN numbers' = DOMAIN numbers
        /\ UNCHANGED <<clock, camera, arrived, pending, waiting, worker, log, files>>
    BY <1>13 DEF Boot, capture, dispatch
  <2>2. /\ InMemory = {} /\ \A c \in Cameras : camera[c].mode = "idle"
    BY <1>1, <2>1 DEF DownEmpty
  <2>3. Queued' = {} /\ Pending' = {} /\ Arrived' = {}
    BY <2>1, <2>2, Places DEF Queued, Pending, Arrived
  <2>. QED
    BY <1>1, <2>1, <2>2, <2>3 DEF FilesOld
<1>. QED
  BY <1>2, <1>3, <1>4, <1>5, <1>6, <1>7, <1>8, <1>9, <1>10, <1>11, <1>12, <1>13
     DEF Next, CameraStep, InferenceStep, ProcessStep, ProcessExits, ProcessDies

\* For a row whose evidence was saved, no later file has its id: GET /snapshot and
\* /videos (app.py), which take the newest file, serve the row's own, although a
\* process that died had given the id to another clip.
THEOREM EvidenceInvariant == Spec => []EvidenceIsOwn
<1>1. Init => DownEmpty /\ IdsGiven /\ FilesOld
  BY DEF Init, DownEmpty, IdsGiven, FilesOld, Idle
<1>2. IdInv /\ [Next]_vars => IdInv'
  <2> SUFFICES ASSUME IdInv, [Next]_vars PROVE IdInv'
    OBVIOUS
  <2>1. ShapeInv /\ FlowInv /\ Timely /\ DownEmpty /\ IdsGiven
    BY DEF IdInv, OrderInv
  <2>2. OrderInv'
    BY <2>1, ShapeStep, FlowStep, TimelyStep DEF OrderInv
  <2>3. DownEmpty' /\ IdsGiven' /\ FilesOld'
    BY <2>1, DownStep, IdsStep, FilesStep
  <2>. QED
    BY <2>2, <2>3 DEF IdInv
<1>3. Init => IdInv
  BY <1>1, ShapeInit, FlowInit DEF IdInv, OrderInv
<1>4. IdInv => EvidenceIsOwn
  BY DEF IdInv, FilesOld, EvidenceIsOwn
<1>. QED
  BY <1>2, <1>3, <1>4, PTL DEF Spec

-----------------------------------------------------------------------------
(* Customers who come back.                                                *)

\* Session b comes back to clip a in time, and no session of the camera is between.
ComesBack(b, a) ==
    /\ b.cam = First(a).cam
    /\ Returns(b, a)
    /\ b.end < Last(a).end + MergeWindow + Margin
    /\ \A s \in ended : s.cam = First(a).cam => s.end <= Last(a).end \/ s.start >= b.start

\* A clip is handed on because a later session came, or when the wait for one is over.
Overtaken(a) == \E s \in ended : s.cam = First(a).cam /\ Last(a).end <= s.start
WaitedFor(a) == clock >= Last(a).end + MergeWindow + Margin \/ clock = LastTick

\* Either way no session can come back to it any more, and the one that did was
\* found dissimilar.
ReturnInv ==
    \A a \in HandedOn :
        /\ Overtaken(a) \/ WaitedFor(a)
        /\ \A b \in ended : ComesBack(b, a) => <<Last(a), b>> \in parted

\* What was handed on is in the worker's part of the places, dropped or failed.
LEMMA HandedOnPlaces ==
    /\ HandedOn = Logged \union InWork \union Queued \union dropped \union failed
    /\ HandedOn' = Logged' \union InWork' \union Queued' \union dropped' \union failed'
BY DEF HandedOn, Logged, InWork, Queued

\* Clips handed on are whole, and their times are numbers.
LEMMA HandedOnWhole ==
    ASSUME FlowInv, NEW a \in HandedOn
    PROVE  Whole(a) /\ Last(a).end \in Nat /\ First(a).start < Last(a).end
<1>1. a \in Everywhere
  BY HandedOnPlaces DEF Everywhere, Gone
<1>. QED
  BY <1>1, WholeEnds DEF FlowInv, ClipsWhole

\* A step that hands nothing on, while no session ends.
LEMMA ReturnSame ==
    ASSUME ReturnInv, HandedOn' \subseteq HandedOn, UNCHANGED <<clock, ended, parted>>
    PROVE  ReturnInv'
BY DEF ReturnInv, ComesBack, Overtaken, WaitedFor

\* A session after the clip that is pending is still in the dispatcher's queue.
LEMMA LaterIsArrived ==
    ASSUME ShapeInv, FlowInv, NEW c \in Cameras, pending[c] # <<>>,
           NEW b \in ended, b.cam = c, Last(pending[c]).end <= b.start
    PROVE  <<b>> \in Arrived
<1>. PICK a : a = pending[c]
  OBVIOUS
<1>1. ClipsWhole /\ Placed /\ Covered
  BY DEF FlowInv
<1>2. a \in Pending /\ a \in Everywhere
  BY DEF Pending, Everywhere
<1>3. Whole(a) /\ First(a).cam = c
  BY <1>1, <1>2 DEF ClipsWhole
<1>4. PICK clip \in Everywhere : b \in Parts(clip)
  BY <1>1 DEF Covered
<1>5. Whole(clip)
  BY <1>1 DEF ClipsWhole
<1>6. /\ First(clip).cam = c
      /\ b.start \in Nat /\ b.end \in Nat /\ b.start < b.end /\ b.end <= Last(clip).end
      /\ Last(clip).end \in Nat
  BY <1>4, <1>5, WholeEnds, SessionFields
<1>7. First(a).start \in Nat /\ Last(a).end \in Nat /\ First(a).start < Last(a).end
  BY <1>3, WholeEnds
<1>8. ~Before(clip, a)
  BY <1>3, <1>6, <1>7 DEF Before
<1>9. clip # a
  BY <1>6, <1>7
<1>10. clip \in Pending \union Arrived
  BY <1>1, <1>2, <1>8 DEF Everywhere, Placed, Ahead
<1>11. clip \notin Pending
  <2>1. ASSUME NEW d \in Cameras, pending[d] # <<>>, clip = pending[d] PROVE FALSE
    <3>1. d = c
      BY <1>1, <1>6, <2>1 DEF ClipsWhole
    <3>. QED
      BY <1>9, <2>1, <3>1
  <2>. QED
    BY <2>1 DEF Pending
<1>12. PICK i \in 1..Len(arrived) : clip = <<arrived[i]>>
  BY <1>10, <1>11 DEF Arrived
<1>13. b = arrived[i]
  <2>1. Len(<<arrived[i]>>) = 1 /\ <<arrived[i]>>[1] = arrived[i]
    OBVIOUS
  <2>. QED
    BY <1>4, <1>12, <2>1 DEF Parts
<1>. QED
  BY <1>12, <1>13 DEF Arrived

\* If one comes back to the pending clip, it is the session the dispatcher receives.
LEMMA ReceivedComesBack ==
    ASSUME ShapeInv, FlowInv, NEW session, Receiving(session), pending[session.cam] # <<>>,
           NEW b \in ended, ComesBack(b, pending[session.cam])
    PROVE  b = session
<1>. PICK a : a = pending[session.cam]
  OBVIOUS
<1>1. /\ session \in ended /\ session \in SessionSet /\ session.cam \in Cameras
      /\ session.start < session.end
      /\ First(<<session>>) = session /\ Last(<<session>>) = session /\ <<session>> \in Arrived
      /\ Arrived = Arrived' \union {<<session>>} /\ Ahead({<<session>>}, Arrived')
  BY Received
<1>2. ClipsWhole /\ Placed
  BY DEF FlowInv
<1>3. a \in Pending /\ a \in Everywhere /\ First(a).cam = session.cam
  BY <1>1, <1>2 DEF Pending, Everywhere, ClipsWhole
<1>4. Whole(a) /\ Last(a).end \in Nat
  BY <1>2, <1>3, WholeEnds DEF ClipsWhole
<1>5. Last(a).end <= session.start
  BY <1>1, <1>2, <1>3 DEF Placed, Ahead, Before
<1>6. /\ b.cam = session.cam /\ Last(a).end <= b.start
      /\ session.end <= Last(a).end \/ session.start >= b.start
  BY <1>1, <1>3 DEF ComesBack, Returns
<1>7. session.start \in Nat /\ session.end \in Nat /\ b.start \in Nat
  BY <1>1, SessionFields DEF ShapeInv, TypeOK
<1>8. <<b>> \in Arrived
  BY <1>1, <1>6, LaterIsArrived
<1>9. First(<<b>>) = b
  BY DEF First
<1>10. <<b>> \notin Arrived'
  <2>1. ~(session.end <= b.start)
    BY <1>1, <1>4, <1>5, <1>6, <1>7
  <2>2. ~Before(<<session>>, <<b>>)
    BY <1>1, <1>6, <1>9, <2>1 DEF Before
  <2>. QED
    BY <1>1, <2>2 DEF Ahead
<1>11. <<b>> = <<session>>
  BY <1>1, <1>8, <1>10
<1>. QED
  BY <1>11

\* The dispatcher hands a clip on.
LEMMA HandedOnMore ==
    ASSUME ShapeInv, FlowInv, NEW c \in Cameras, pending[c] # <<>>, Enqueue(pending[c]),
           UNCHANGED <<worker, log, failed>>
    PROVE  HandedOn' = HandedOn \union {pending[c]} /\ Whole(pending[c]) /\ First(pending[c]).cam = c
<1>1. ClipsWhole /\ Placed /\ WaitingOrdered
  BY DEF FlowInv, Ordered
<1>2. pending[c] \in Pending /\ pending[c] \in Everywhere
  BY DEF Pending, Everywhere
<1>3. Whole(pending[c]) /\ First(pending[c]).cam = c /\ pending[c] \in Clips
  BY <1>1, <1>2 DEF ClipsWhole, Whole
<1>4. Ahead(Queued, {pending[c]})
  BY <1>1, <1>2 DEF Placed, Ahead
<1>5. \/ Queued' = Queued \union {pending[c]} /\ dropped' = dropped
      \/ Queued' = Queued /\ dropped' = dropped \union {pending[c]}
  BY <1>1, <1>3, <1>4, EnqueuePlaces
<1>6. Logged' = Logged /\ InWork' = InWork
  BY DEF Logged, InWork
<1>. QED
  BY <1>3, <1>5, <1>6, HandedOnPlaces

\* Replaced by a later session: the only one that can come back is that session, and
\* then the two are noted as dissimilar.
LEMMA ReplaceReturns ==
    ASSUME ShapeInv, FlowInv, ReturnInv, NEW session \in ended, Replace(session)
    PROVE  ReturnInv'
<1>. PICK clip : clip = pending[session.cam]
  OBVIOUS
<1>1. /\ Receiving(session) /\ pending[session.cam] # <<>> /\ Enqueue(clip)
      /\ parted' = IF Returns(session, clip) THEN parted \union {<<Last(clip), session>>} ELSE parted
  BY DEF Replace
<1>2. /\ session.cam \in Cameras /\ session \in ended /\ <<session>> \in Arrived
      /\ First(<<session>>) = session
      /\ UNCHANGED <<clock, ended, worker, log, failed>>
  BY <1>1, Received
<1>3. HandedOn' = HandedOn \union {clip} /\ Whole(clip) /\ First(clip).cam = session.cam
  BY <1>1, <1>2, HandedOnMore
<1>4. parted \subseteq parted'
  BY <1>1
<1>5. \A a \in HandedOn :
        /\ (Overtaken(a) \/ WaitedFor(a))'
        /\ \A b \in ended' : ComesBack(b, a)' => <<Last(a), b>> \in parted'
  BY <1>2, <1>4 DEF ReturnInv, ComesBack, Overtaken, WaitedFor
<1>6. Overtaken(clip)'
  <2>1. clip \in Pending
    BY <1>1, <1>2 DEF Pending
  <2>2. Before(clip, <<session>>)
    BY <1>2, <2>1 DEF FlowInv, Placed, Ahead
  <2>. QED
    BY <1>2, <1>3, <2>2 DEF Before, Overtaken
<1>7. ASSUME NEW b \in ended', ComesBack(b, clip)'
      PROVE  <<Last(clip), b>> \in parted'
  <2>1. b \in ended /\ ComesBack(b, clip)
    BY <1>2, <1>7 DEF ComesBack
  <2>2. b = session
    BY <1>1, <2>1, ReceivedComesBack
  <2>3. Returns(session, clip)
    BY <2>1, <2>2 DEF ComesBack
  <2>. QED
    BY <1>1, <2>2, <2>3
<1>. QED
  BY <1>3, <1>5, <1>6, <1>7 DEF ReturnInv

\* Handed on as stale: the dispatcher's queue is empty, so that no session is after it.
LEMMA FinalizeReturns ==
    ASSUME ShapeInv, FlowInv, ReturnInv, NEW c \in Cameras, FinalizeStale(c)
    PROVE  ReturnInv'
<1>. PICK clip : clip = pending[c]
  OBVIOUS
<1>1. /\ pending[c] # <<>> /\ Enqueue(clip) /\ arrived = <<>> /\ Stale(clip)
      /\ UNCHANGED <<clock, ended, parted, worker, log, failed>>
  BY DEF FinalizeStale, capture
<1>2. HandedOn' = HandedOn \union {clip} /\ Whole(clip) /\ First(clip).cam = c
  BY <1>1, HandedOnMore
<1>3. \A a \in HandedOn :
        /\ (Overtaken(a) \/ WaitedFor(a))'
        /\ \A b \in ended' : ComesBack(b, a)' => <<Last(a), b>> \in parted'
  BY <1>1 DEF ReturnInv, ComesBack, Overtaken, WaitedFor
<1>4. WaitedFor(clip)'
  <2>1. Last(clip).end \in Nat /\ clock \in Nat /\ MergeWindow \in Nat /\ Margin \in Nat
    BY <1>2, WholeEnds, SettingsAssumption DEF ShapeInv, TypeOK
  <2>. QED
    BY <1>1, <2>1 DEF Stale, WaitedFor
<1>5. ASSUME NEW b \in ended', ComesBack(b, clip)'
      PROVE  FALSE
  <2>1. b \in ended /\ b.cam = c /\ Last(clip).end <= b.start
    BY <1>1, <1>2, <1>5 DEF ComesBack, Returns
  <2>2. <<b>> \in Arrived
    BY <1>1, <2>1, LaterIsArrived
  <2>3. Len(arrived) = 0 /\ 1..0 = {}
    BY <1>1
  <2>. QED
    BY <2>2, <2>3 DEF Arrived
<1>. QED
  BY <1>2, <1>3, <1>4, <1>5 DEF ReturnInv

\* A session that ends does not come back to a clip that was handed on: the wait for
\* it is over, or another session is between.
LEMMA EndSessionReturns ==
    ASSUME ShapeInv, FlowInv, Timely, ReturnInv, NEW c \in Cameras, NEW motion \in BOOLEAN,
           EndSession(c, motion)
    PROVE  ReturnInv'
<1>. PICK s : s = [cam |-> c, start |-> camera[c].start, end |-> clock]
  OBVIOUS
<1>1. /\ camera[c].mode = "recording" /\ s \in SessionSet /\ s.start < s.end
      /\ ended' = ended \/ ended' = ended \union {s}
      /\ UNCHANGED <<clock, parted, waiting, dropped, worker, log, failed>>
  BY SessionEnds
<1>2. s.cam = c /\ s.start = camera[c].start /\ s.end = clock /\ clock < LastTick
  BY DEF EndSession, Frame
<1>3. HandedOn' = HandedOn
  BY <1>1 DEF HandedOn
<1>4. CASE ended' = ended
  BY <1>1, <1>3, <1>4, ReturnSame
<1>5. CASE ended' = ended \union {s}
  <2> SUFFICES ASSUME NEW a \in HandedOn
               PROVE  /\ (Overtaken(a) \/ WaitedFor(a))'
                      /\ \A b \in ended' : ComesBack(b, a)' => <<Last(a), b>> \in parted'
    BY <1>3 DEF ReturnInv
  <2>1. (Overtaken(a) \/ WaitedFor(a))'
    BY <1>1, <1>5 DEF ReturnInv, Overtaken, WaitedFor
  <2>2. ASSUME NEW b \in ended, ComesBack(b, a)' PROVE <<Last(a), b>> \in parted'
    <3>1. ComesBack(b, a)
      BY <1>5, <2>2 DEF ComesBack
    <3>. QED
      BY <1>1, <3>1 DEF ReturnInv
  <2>3. ASSUME ComesBack(s, a)' PROVE FALSE
    <3>1. /\ First(a).cam = c /\ Last(a).end <= s.start
          /\ clock < Last(a).end + MergeWindow + Margin
          /\ \A t \in ended : t.cam = c => t.end <= Last(a).end \/ t.start >= s.start
      BY <1>2, <1>5, <2>3 DEF ComesBack, Returns
    <3>2. Last(a).end \in Nat /\ clock \in Nat /\ LastTick \in Nat /\ s.start \in Nat
          /\ MergeWindow \in Nat /\ Margin \in Nat
      BY <1>1, HandedOnWhole, SessionFields, SettingsAssumption, MonitorBoundsAssumption
         DEF ShapeInv, TypeOK
    <3>3. ~WaitedFor(a)
      BY <1>2, <3>1, <3>2 DEF WaitedFor
    <3>4. PICK t \in ended : t.cam = c /\ Last(a).end <= t.start
      BY <3>1, <3>3 DEF ReturnInv, Overtaken
    <3>5. t.start < t.end /\ t.end <= s.start
      BY <1>1, <1>2, <3>4 DEF Timely
    <3>6. t.start \in Nat /\ t.end \in Nat
      BY SessionFields DEF ShapeInv, TypeOK
    <3>. QED
      BY <3>1, <3>2, <3>4, <3>5, <3>6
  <2>. QED
    BY <1>5, <2>1, <2>2, <2>3
<1>. QED
  BY <1>1, <1>4, <1>5

\* A clip that goes through the worker's hands has been handed on before.
LEMMA InferenceHandedOn ==
    ASSUME ShapeInv, FlowInv, InferenceStep
    PROVE  HandedOn' \subseteq HandedOn /\ UNCHANGED <<clock, ended, parted>>
<1>1. WaitingOrdered /\ LogOrdered /\ Placed
  BY DEF FlowInv, Ordered
<1>2. UNCHANGED <<clock, ended, parted>>
  BY DEF InferenceStep, TakeClip, SaveEvidence, LogRow, LogClosed, AnalysisRaises, InferenceEnds,
     ThreadEnds, capture, dispatch
<1>3. CASE TakeClip
  <2>1. /\ worker.pc = "idle" /\ worker'.pc = "analysing" /\ worker'.clip = Head(waiting)
        /\ waiting' = Tail(waiting) /\ waiting # <<>>
        /\ UNCHANGED <<dropped, log, failed>>
    BY <1>3, TakenShape
  <2>2. Queued = Queued' \union {Head(waiting)}
    BY <1>1, <2>1, WaitingLess
  <2>3. InWork' = {Head(waiting)} /\ Logged' = Logged
    BY <2>1 DEF InWork, Logged
  <2>. QED
    BY <1>2, <2>1, <2>2, <2>3, HandedOnPlaces
<1>4. ASSUME NEW saved \in BOOLEAN, SaveEvidence(saved) PROVE HandedOn' \subseteq HandedOn
  BY <1>4 DEF SaveEvidence, HandedOn
<1>5. CASE LogRow
  <2> DEFINE row == [sid |-> worker.sid, clip |-> worker.clip, saved |-> worker.saved]
  <2>1. /\ row \in Rows /\ log' = Append(log, row) /\ row.clip = worker.clip
        /\ worker.pc # "idle" /\ worker' = Idle
        /\ UNCHANGED <<waiting, dropped, failed>>
    BY <1>5, LoggedShape DEF LogRow
  <2>2. InWork = {worker.clip} /\ InWork' = {}
    BY <2>1 DEF InWork, Idle
  <2>. HIDE DEF row
  <2>3. Ahead(Logged, {worker.clip})
    BY <1>1, <2>2 DEF Placed, Ahead
  <2>4. Logged' = Logged \union {row.clip}
    BY <1>1, <2>1, <2>3, LoggedMore
  <2>5. Queued' = Queued
    BY <2>1 DEF Queued
  <2>. QED
    BY <1>2, <2>1, <2>2, <2>4, <2>5, HandedOnPlaces
<1>6. CASE LogClosed \/ AnalysisRaises
  <2>1. /\ worker.pc # "idle" /\ worker' = Idle /\ failed' = failed \union {worker.clip}
        /\ UNCHANGED <<waiting, dropped, log>>
    BY <1>6 DEF LogClosed, AnalysisRaises
  <2>2. InWork = {worker.clip} /\ InWork' = {}
    BY <2>1 DEF InWork, Idle
  <2>3. Queued' = Queued /\ Logged' = Logged
    BY <2>1 DEF Queued, Logged
  <2>. QED
    BY <1>2, <2>1, <2>2, <2>3, HandedOnPlaces
<1>7. CASE InferenceEnds
  BY <1>2, <1>7 DEF InferenceEnds, ThreadEnds, inference, HandedOn
<1>. QED
  BY <1>2, <1>3, <1>4, <1>5, <1>6, <1>7 DEF InferenceStep

\* Every step keeps it.
LEMMA ReturnStep ==
    ASSUME ShapeInv, FlowInv, Timely, ReturnInv, [Next]_vars
    PROVE  ReturnInv'
<1>1. CASE Tick
  <2>1. /\ clock < LastTick /\ clock' = clock + 1 /\ HandedOn' = HandedOn
        /\ UNCHANGED <<ended, parted>>
    BY <1>1 DEF Tick, capture, dispatch, inference, HandedOn
  <2>2. ASSUME NEW a \in HandedOn, WaitedFor(a) PROVE WaitedFor(a)'
    <3>1. Last(a).end \in Nat /\ clock \in Nat /\ LastTick \in Nat
          /\ MergeWindow \in Nat /\ Margin \in Nat
      BY HandedOnWhole, SettingsAssumption, MonitorBoundsAssumption DEF ShapeInv, TypeOK
    <3>. QED
      BY <2>1, <2>2, <3>1 DEF WaitedFor
  <2>. QED
    BY <2>1, <2>2 DEF ReturnInv, ComesBack, Overtaken
<1>2. ASSUME NEW c \in Cameras, CameraStep(c) PROVE ReturnInv'
  <2>1. CASE StartSession(c) \/ \E motion \in BOOLEAN : KeepRecording(c, motion)
    <3>1. HandedOn' = HandedOn /\ UNCHANGED <<clock, ended, parted>>
      BY <2>1 DEF StartSession, KeepRecording, Frame, inference, HandedOn
    <3>. QED
      BY <3>1, ReturnSame
  <2>. QED
    BY <1>2, <2>1, EndSessionReturns DEF CameraStep
<1>3. CASE DispatcherStep
  <2>1. ASSUME NEW session \in ended, ReceiveFirst(session) \/ Merge(session) PROVE ReturnInv'
    <3>1. HandedOn' = HandedOn /\ UNCHANGED <<clock, ended, parted>>
      BY <2>1 DEF ReceiveFirst, Merge, Receiving, capture, HandedOn
    <3>. QED
      BY <3>1, ReturnSame
  <2>2. CASE DispatcherEnds
    <3>1. HandedOn' = HandedOn /\ UNCHANGED <<clock, ended, parted>>
      BY <2>2 DEF DispatcherEnds, ThreadEnds, capture, dispatch, inference, HandedOn
    <3>. QED
      BY <3>1, ReturnSame
  <2>. QED
    BY <1>3, <2>1, <2>2, ReplaceReturns, FinalizeReturns DEF DispatcherStep
<1>4. CASE InferenceStep
  BY <1>4, InferenceHandedOn, ReturnSame
<1>5. CASE ProcessStep
  <2>1. CASE RequestStop \/ CloseLog \/ Boot
    <3>1. HandedOn' = HandedOn /\ UNCHANGED <<clock, ended, parted>>
      BY <2>1 DEF RequestStop, CloseLog, Boot, capture, dispatch, inference, HandedOn
    <3>. QED
      BY <3>1, ReturnSame
  <2>2. CASE EndProcess
    <3>1. /\ waiting' = <<>> /\ worker' = Idle
          /\ UNCHANGED <<clock, ended, parted, dropped, log, failed>>
      BY <2>2, EndLeaves
    <3>2. Len(<< >>) = 0 /\ 1..0 = {}
      OBVIOUS
    <3>3. Queued' = {} /\ InWork' = {} /\ Logged' = Logged
      BY <3>1, <3>2 DEF Queued, InWork, Logged, Idle
    <3>4. HandedOn' \subseteq HandedOn
      BY <3>1, <3>3, HandedOnPlaces
    <3>. QED
      BY <3>1, <3>4, ReturnSame
  <2>. QED
    BY <1>5, <2>1, <2>2 DEF ProcessStep, ProcessExits, ProcessDies
<1>6. CASE UNCHANGED vars
  <2>1. HandedOn' = HandedOn /\ UNCHANGED <<clock, ended, parted>>
    BY <1>6 DEF vars, capture, dispatch, inference, HandedOn
  <2>. QED
    BY <2>1, ReturnSame
<1>. QED
  BY <1>1, <1>2, <1>3, <1>4, <1>5, <1>6 DEF Next

\* A customer who comes back within the merge window is in the clip of the first visit
\* (monitor.py, the dispatcher), unless the two were found dissimilar: the margin the
\* pending clip waits beyond the window and the order of the queues make sure of it.
THEOREM ReturnsAreMerged == Spec => []ReturnsMerged
<1>1. Init => OrderInv /\ ReturnInv
  <2>1. Init => HandedOn = {}
    <3>1. Len(<< >>) = 0 /\ 1..0 = {}
      OBVIOUS
    <3>. QED
      BY <3>1 DEF Init, HandedOn, Idle
  <2>. QED
    BY <2>1, ShapeInit, FlowInit DEF OrderInv, ReturnInv
<1>2. OrderInv /\ ReturnInv /\ [Next]_vars => (OrderInv /\ ReturnInv)'
  BY ShapeStep, FlowStep, TimelyStep, ReturnStep DEF OrderInv
<1>3. OrderInv /\ ReturnInv => ReturnsMerged
  <2> SUFFICES ASSUME OrderInv, ReturnInv, NEW a \in HandedOn, NEW b \in HandedOn,
                      First(a).cam = First(b).cam, Returns(First(b), a),
                      First(b).end < Last(a).end + MergeWindow + Margin,
                      \A s \in ended : s.cam = First(a).cam =>
                          s.end <= Last(a).end \/ s.start >= First(b).start
               PROVE  <<Last(a), First(b)>> \in parted
    BY DEF ReturnsMerged
  <2>1. b \in Everywhere
    BY HandedOnPlaces DEF Everywhere, Gone
  <2>2. Whole(b) /\ Parts(b) \subseteq ended
    BY <2>1 DEF OrderInv, FlowInv, ClipsWhole
  <2>3. First(b) \in Parts(b)
    BY <2>2, ClipEnds DEF Whole, Parts, First
  <2>4. ComesBack(First(b), a)
    BY DEF ComesBack
  <2>. QED
    BY <2>2, <2>3, <2>4 DEF ReturnInv
<1>. QED
  BY <1>1, <1>2, <1>3, PTL DEF Spec

=============================================================================
