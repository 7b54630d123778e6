------------------------- MODULE SegmentStoreProofs -------------------------
(* Theorems about SegmentStore, for any number of segments, cases and      *)
(* cleanup requests, any windows and every bound.  StoreInv, the inductive *)
(* invariant, is defined beside the properties and also checked by TLC.    *)
EXTENDS SegmentStore, TLAPS

-----------------------------------------------------------------------------
(* The states of the actors.                                               *)

\* Which fields a cleanup request has.
LEMMA CleanerShape ==
    ASSUME TypeOK, NEW k \in Cleaners
    PROVE  cleaner[k].pc = "removing" =>
              cleaner[k].todo \in SUBSET Segs /\ cleaner[k].gone \in SUBSET Segs
<1>1. cleaner[k] \in CleanerStates
  BY DEF TypeOK
<1>. QED
  BY <1>1 DEF CleanerStates

\* Which fields the analysis job has.
LEMMA JobShape ==
    ASSUME TypeOK
    PROVE  /\ job.pc # "idle" => job.case \in Cases
           /\ job.pc \in {"retiming", "replacing"} =>
                 job.todo \in SUBSET Segs /\ job.done \in SUBSET Segs
           /\ job.pc = "replacing" => job.seg \in Segs
           /\ job.pc \in {"planned", "building"} =>
                 job.matched \in SUBSET Segs /\ job.valid \in BOOLEAN
BY DEF TypeOK, JobStates

\* Using up a bound keeps the counters counters.
LEMMA UseType ==
    ASSUME NEW what \in {"runs", "cleanups", "crashes", "failures"},
           NEW limit, TypeOK, Use(what, limit)
    PROVE  used' \in [{"runs", "cleanups", "crashes", "failures"} -> Nat]
BY DEF TypeOK, Use

\* The segments of a plan are segments.
LEMMA MatchedType ==
    ASSUME NEW c \in Cases
    PROVE  Matched(c) \in SUBSET Segs
BY OverlapAssumption DEF Matched

\* The segments of a plan have rows.
LEMMA MatchedIndexed ==
    ASSUME NEW c \in Cases, NEW s \in Matched(c)
    PROVE  Indexed(s)
BY DEF Matched

\* The segment being recorded, and those waiting for the finalizer, are segments.
LEMMA RecordingType ==
    ASSUME TypeOK, RecorderInv
    PROVE  /\ recording => next - 1 \in Segs
           /\ \A i \in 1..Len(finalizer) : finalizer[i] \in Segs
           /\ finalizer # <<>> => Head(finalizer) \in Segs /\ Tail(finalizer) \in Seq(Segs)
BY SegsAssumption DEF TypeOK, RecorderInv, Segs

-----------------------------------------------------------------------------

\* Every step of every actor keeps the shape of the state.
LEMMA TypeStep == StoreInv /\ [Next]_vars => TypeOK'
<1> SUFFICES ASSUME StoreInv, [Next]_vars
             PROVE  TypeOK'
  OBVIOUS
<1>0. TypeOK /\ RecorderInv
  BY DEF StoreInv
<1> USE <1>0
<1>1. CASE StartSegment
  BY <1>1, SegsAssumption DEF StartSegment, TypeOK, Contents, Segs, history
<1>2. CASE CloseSegment
  <2>1. finalizer' \in Seq(Segs)
    BY <1>2, RecordingType DEF CloseSegment, TypeOK
  <2>. QED
    BY <1>2, <2>1 DEF CloseSegment, TypeOK, Contents, history
<1>3. CASE IndexSegment
  <2> DEFINE head == Head(finalizer)
  <2>1. head \in Segs /\ finalizer' \in Seq(Segs)
    BY <1>3, RecordingType DEF IndexSegment
  <2>2. disk[head] \in Contents
    BY <1>3 DEF IndexSegment, TypeOK, RecorderInv, OnDisk
  <2>. QED
    BY <1>3, <2>1, <2>2 DEF IndexSegment, TypeOK, history
<1>4. CASE IndexFails
  <2>1. Head(finalizer) \in Segs /\ finalizer' \in Seq(Segs)
    BY <1>4, RecordingType DEF IndexFails
  <2>2. used' \in [{"runs", "cleanups", "crashes", "failures"} -> Nat]
    BY <1>4, UseType DEF IndexFails
  <2>. QED
    BY <1>4, <2>1, <2>2 DEF IndexFails, TypeOK, store
<1>5. CASE RecorderCrash
  <2>1. leaked' \in SUBSET Segs
    BY <1>5, RecordingType DEF RecorderCrash, TypeOK
  <2>2. used' \in [{"runs", "cleanups", "crashes", "failures"} -> Nat]
    BY <1>5, UseType DEF RecorderCrash
  <2>3. finalizer' \in Seq(Segs)
    BY <1>5 DEF RecorderCrash
  <2>4. recording' \in BOOLEAN
    BY <1>5 DEF RecorderCrash
  <2>. QED
    BY <1>5, <2>1, <2>2, <2>3, <2>4 DEF RecorderCrash, TypeOK, store
<1>6. CASE Expire
  BY <1>6 DEF Expire, TypeOK, store, recorder, history
<1>7. ASSUME NEW k \in Cleaners, ReadCandidates(k)
      PROVE  TypeOK'
  <2>1. Candidates \in SUBSET Segs
    BY SegsAssumption DEF TypeOK, RecorderInv, Candidates, Segs
  <2>2. cleaner' \in [Cleaners -> CleanerStates]
    BY <1>7, <2>1 DEF ReadCandidates, TypeOK, CleanerStates
  <2>3. used' \in [{"runs", "cleanups", "crashes", "failures"} -> Nat]
    BY <1>7, UseType DEF ReadCandidates
  <2>. QED
    BY <1>7, <2>2, <2>3 DEF ReadCandidates, TypeOK, store, recorder, history
<1>8. ASSUME NEW k \in Cleaners, NEW s \in Segs, RemoveFile(k, s)
      PROVE  TypeOK'
  <2>1. cleaner' \in [Cleaners -> CleanerStates]
    BY <1>8, CleanerShape DEF RemoveFile, TypeOK, CleanerStates
  <2>2. disk' \in [Segs -> Contents \union {Absent}]
    BY <1>8 DEF RemoveFile, TypeOK
  <2>. QED
    BY <1>8, <2>1, <2>2 DEF RemoveFile, TypeOK, recorder, history
<1>9. ASSUME NEW k \in Cleaners, NEW s \in Segs, RemoveFails(k, s)
      PROVE  TypeOK'
  <2>1. cleaner' \in [Cleaners -> CleanerStates]
    BY <1>9, CleanerShape DEF RemoveFails, TypeOK, CleanerStates
  <2>2. used' \in [{"runs", "cleanups", "crashes", "failures"} -> Nat]
    BY <1>9, UseType DEF RemoveFails
  <2>. QED
    BY <1>9, <2>1, <2>2 DEF RemoveFails, TypeOK, store, recorder, history
<1>10. ASSUME NEW k \in Cleaners, CommitCleanup(k)
      PROVE  TypeOK'
  <2>1. cleaner[k].gone \in SUBSET Segs
    BY <1>10, CleanerShape DEF CommitCleanup
  <2>2. cleaner' \in [Cleaners -> CleanerStates]
    BY <1>10 DEF CommitCleanup, TypeOK, CleanerStates, Idle
  <2>. QED
    BY <1>10, <2>1, <2>2 DEF CommitCleanup, TypeOK, WithoutRows, recorder
<1>11. ASSUME NEW k \in Cleaners, CleanupAborts(k)
      PROVE  TypeOK'
  <2>1. cleaner' \in [Cleaners -> CleanerStates]
    BY <1>11 DEF CleanupAborts, TypeOK, CleanerStates, Idle
  <2>2. used' \in [{"runs", "cleanups", "crashes", "failures"} -> Nat]
    BY <1>11, UseType DEF CleanupAborts
  <2>. QED
    BY <1>11, <2>1, <2>2 DEF CleanupAborts, TypeOK, store, recorder, history
<1>12. ASSUME NEW c \in Cases, NEW retime \in BOOLEAN, StartJob(c, retime)
      PROVE  TypeOK'
  <2>1. job' \in JobStates
    BY <1>12, MatchedType DEF StartJob, JobStates
  <2>2. used' \in [{"runs", "cleanups", "crashes", "failures"} -> Nat]
    BY <1>12, UseType DEF StartJob
  <2>. QED
    BY <1>12, <2>1, <2>2 DEF StartJob, TypeOK, store, recorder, history
<1>13. ASSUME NEW s \in Segs, SkipRetime(s)
      PROVE  TypeOK'
  <2>1. job' \in JobStates
    BY <1>13 DEF SkipRetime, TypeOK, JobStates
  <2>2. used' \in [{"runs", "cleanups", "crashes", "failures"} -> Nat]
    BY <1>13, UseType DEF SkipRetime, TypeOK
  <2>. QED
    BY <1>13, <2>1, <2>2 DEF SkipRetime, TypeOK, store, recorder, history
<1>14. ASSUME NEW s \in Segs, EncodeRetimed(s)
      PROVE  TypeOK'
  <2>1. job' \in JobStates
    BY <1>14, JobShape DEF EncodeRetimed, JobStates
  <2>. QED
    BY <1>14, <2>1 DEF EncodeRetimed, TypeOK, store, recorder, history
<1>15. CASE ReplaceFile
  <2>1. job' \in JobStates
    BY <1>15, JobShape DEF ReplaceFile, JobStates
  <2>2. disk' \in [Segs -> Contents \union {Absent}] /\ leaked' \in SUBSET Segs
    BY <1>15, JobShape DEF ReplaceFile, TypeOK, Contents
  <2>. QED
    BY <1>15, <2>1, <2>2 DEF ReplaceFile, TypeOK, recorder
<1>16. CASE CommitRetime
  <2>1. job' \in JobStates
    BY <1>16, JobShape DEF CommitRetime, Plan, JobStates
  <2>2. index' \in [Segs -> Contents \union {None}] /\ stale' \in SUBSET Segs
    BY <1>16, JobShape DEF CommitRetime, TypeOK, NewHash, Contents
  <2>. QED
    BY <1>16, <2>1, <2>2 DEF CommitRetime, TypeOK, recorder
<1>17. CASE RetimeRaises
  <2>1. job' \in JobStates
    BY <1>17, JobShape DEF RetimeRaises, Plan, JobStates
  <2>2. stale' \in SUBSET Segs
    BY <1>17, JobShape DEF RetimeRaises, TypeOK
  <2>3. used' \in [{"runs", "cleanups", "crashes", "failures"} -> Nat]
    BY <1>17, UseType DEF RetimeRaises
  <2>. QED
    BY <1>17, <2>1, <2>2, <2>3 DEF RetimeRaises, TypeOK, store, recorder
<1>18. CASE PlanWindow
  <2>1. Matched(job.case) \in SUBSET Segs /\ Sound(Matched(job.case)) \in BOOLEAN
    BY <1>18, JobShape, MatchedType DEF PlanWindow, Sound
  <2>2. job' \in JobStates
    BY <1>18, <2>1, JobShape DEF PlanWindow, JobStates
  <2>. QED
    BY <1>18, <2>2 DEF PlanWindow, TypeOK, store, recorder, history
<1>19. CASE LinkWindow
  <2>1. job' \in JobStates
    BY <1>19 DEF LinkWindow, TypeOK, JobStates
  <2>2. linked' \in SUBSET Segs /\ late' \in SUBSET Segs
    BY <1>19, JobShape DEF LinkWindow, TypeOK
  <2>. QED
    BY <1>19, <2>1, <2>2 DEF LinkWindow, TypeOK, recorder
<1>20. CASE BuildWindow
  <2>1. clip' \in [Cases -> [counted: SUBSET Segs, used: SUBSET Segs]]
    BY <1>20, JobShape DEF BuildWindow, TypeOK
  <2>. QED
    BY <1>20, <2>1 DEF BuildWindow, TypeOK, JobStates, Idle, store, recorder, history
<1>21. CASE NoLocalClip
  BY <1>21 DEF NoLocalClip, NoClip, TypeOK, JobStates, Idle, store, recorder, history
<1>22. CASE AppCrash
  <2>1. stale' \in SUBSET Segs
    BY <1>22, JobShape DEF AppCrash, TypeOK
  <2>2. used' \in [{"runs", "cleanups", "crashes", "failures"} -> Nat]
    BY <1>22, UseType DEF AppCrash
  <2>. QED
    BY <1>22, <2>1, <2>2
       DEF AppCrash, TypeOK, CleanerStates, JobStates, Idle, store, recorder
<1>23. CASE UNCHANGED vars
  BY <1>23 DEF vars, TypeOK, store, recorder, history
<1>. QED
  BY <1>1, <1>2, <1>3, <1>4, <1>5, <1>6, <1>7, <1>8, <1>9, <1>10, <1>11, <1>12,
     <1>13, <1>14, <1>15, <1>16, <1>17, <1>18, <1>19, <1>20, <1>21, <1>22, <1>23
     DEF Next, RecorderStep, CleanerStep, JobStep

\* A segment without a row stays in the recorder's hands, and its file stays.
LEMMA UnindexedStep == StoreInv /\ [Next]_vars => RecorderInv'
<1> SUFFICES ASSUME StoreInv, [Next]_vars
             PROVE  RecorderInv'
  OBVIOUS
<1>0. TypeOK /\ RecorderInv
  BY DEF StoreInv
<1> USE <1>0
<1>1. CASE StartSegment
  <2>1. \A s \in Unindexed' : s \in Unindexed
    BY <1>1 DEF StartSegment, TypeOK, Unindexed, Segs
  <2>2. \A i \in 1..Len(finalizer) : finalizer[i] < next /\ OnDisk(finalizer[i])'
    BY <1>1, RecordingType DEF StartSegment, TypeOK, RecorderInv, OnDisk, Absent
  <2>3. \A i \in 1..Len(finalizer) : finalizer[i] < next' /\ finalizer[i] # next' - 1
    BY <1>1, <2>2, RecordingType DEF StartSegment, TypeOK, Segs
  <2>. QED
    BY <1>1, <2>1, <2>2, <2>3
       DEF StartSegment, TypeOK, RecorderInv, Chosen, Retimed, Indexed
<1>2. CASE CloseSegment
  <2>1. finalizer' = Append(finalizer, next - 1) /\ next - 1 \in Segs
    BY <1>2, RecordingType DEF CloseSegment
  <2>2. /\ Len(finalizer') = Len(finalizer) + 1
        /\ \A i \in 1..Len(finalizer) : finalizer'[i] = finalizer[i]
        /\ finalizer'[Len(finalizer')] = next - 1
    BY <1>2, <2>1 DEF TypeOK
  <2>3. ASSUME NEW s \in Unindexed'
        PROVE  s \in Unindexed
    <3>1. CASE \E i \in 1..Len(finalizer') : s = finalizer'[i]
      <4>1. PICK i \in 1..Len(finalizer') : s = finalizer'[i]
        BY <3>1
      <4>2. CASE i = Len(finalizer')
        BY <1>2, <2>1, <2>2, <4>1, <4>2 DEF CloseSegment, Unindexed
      <4>3. CASE i \in 1..Len(finalizer)
        BY <2>2, <4>1, <4>3 DEF Unindexed
      <4>. QED
        BY <2>2, <4>2, <4>3 DEF TypeOK
    <3>2. CASE s \in Segs /\ s >= next
      BY <3>2 DEF Unindexed
    <3>. QED
      BY <1>2, <3>1, <3>2 DEF CloseSegment, Unindexed
  <2>4. \A s \in Unindexed : /\ s \notin Retimed'
                             /\ ~Indexed(s)'
                             /\ \A k \in Cleaners : s \notin Chosen(k)'
    BY <1>2 DEF CloseSegment, RecorderInv, Retimed, Chosen, Indexed
  <2>5. ASSUME NEW i \in 1..Len(finalizer')
        PROVE  finalizer'[i] < next' /\ disk'[finalizer'[i]] # Absent
    <3>1. disk'[next - 1] # Absent /\ next - 1 < next
      BY <1>2, <2>1 DEF CloseSegment, TypeOK, Absent
    <3>2. \A j \in 1..Len(finalizer) : finalizer[j] < next /\ disk'[finalizer[j]] # Absent
      BY <1>2, RecordingType DEF CloseSegment, TypeOK, RecorderInv, OnDisk, Absent
    <3>3. i = Len(finalizer') \/ i \in 1..Len(finalizer)
      BY <2>2 DEF TypeOK
    <3>. QED
      BY <1>2, <2>2, <3>1, <3>2, <3>3 DEF CloseSegment
  <2>6. \A i, j \in 1..Len(finalizer') : finalizer'[i] = finalizer'[j] => i = j
    BY <1>2, <2>1, <2>2 DEF CloseSegment, TypeOK, RecorderInv
  <2>7. ~recording' /\ horizon' < next'
    BY <1>2 DEF CloseSegment, RecorderInv
  <2>. QED
    BY <2>3, <2>4, <2>5, <2>6, <2>7 DEF RecorderInv, OnDisk
<1>3. CASE IndexSegment
  <2>1. /\ finalizer' = Tail(finalizer) /\ Len(finalizer') = Len(finalizer) - 1
        /\ \A i \in 1..Len(finalizer') : /\ i + 1 \in 1..Len(finalizer)
                                         /\ finalizer'[i] = finalizer[i + 1]
        /\ Head(finalizer) = finalizer[1] /\ 1 \in 1..Len(finalizer)
    BY <1>3 DEF IndexSegment, TypeOK
  <2>2. ASSUME NEW s \in Unindexed'
        PROVE  s \in Unindexed /\ s # Head(finalizer)
    <3>1. CASE \E i \in 1..Len(finalizer') : s = finalizer'[i]
      <4>1. PICK i \in 1..Len(finalizer') : s = finalizer'[i]
        BY <3>1
      <4>2. s = finalizer[i + 1] /\ i + 1 \in 1..Len(finalizer) /\ i + 1 # 1
        BY <2>1, <4>1
      <4>. QED
        BY <2>1, <4>2 DEF RecorderInv, Unindexed
    <3>2. CASE s \in Segs /\ (s >= next \/ (recording /\ s = next - 1))
      BY <2>1, <3>2 DEF RecorderInv, TypeOK, Unindexed, Segs
    <3>. QED
      BY <1>3, <3>1, <3>2 DEF IndexSegment, Unindexed
  <2>3. \A s \in Unindexed' : /\ s \notin Retimed'
                              /\ ~Indexed(s)'
                              /\ \A k \in Cleaners : s \notin Chosen(k)'
    BY <1>3, <2>2 DEF IndexSegment, TypeOK, RecorderInv, Retimed, Chosen, Indexed
  <2>. QED
    BY <1>3, <2>1, <2>3 DEF IndexSegment, TypeOK, RecorderInv, OnDisk
<1>4. CASE IndexFails
  <2>1. /\ finalizer' = Tail(finalizer) /\ Len(finalizer') = Len(finalizer) - 1
        /\ \A i \in 1..Len(finalizer') : /\ i + 1 \in 1..Len(finalizer)
                                         /\ finalizer'[i] = finalizer[i + 1]
    BY <1>4 DEF IndexFails, TypeOK
  <2>2. Unindexed' \subseteq Unindexed
    BY <1>4, <2>1 DEF IndexFails, Unindexed
  <2>. QED
    BY <1>4, <2>1, <2>2
       DEF IndexFails, store, TypeOK, RecorderInv, OnDisk, Retimed, Chosen, Indexed
<1>5. CASE RecorderCrash
  BY <1>5 DEF RecorderCrash, store, RecorderInv, Unindexed, Chosen, Retimed, OnDisk, Indexed
<1>6. CASE Expire
  BY <1>6
     DEF Expire, store, recorder, TypeOK, RecorderInv, Unindexed, Chosen, Retimed, OnDisk, Indexed
<1>7. ASSUME NEW k \in Cleaners, ReadCandidates(k)
      PROVE  RecorderInv'
  <2>1. \A s \in Unindexed, k_1 \in Cleaners : s \notin Chosen(k_1)'
    BY <1>7 DEF ReadCandidates, TypeOK, RecorderInv, Chosen, Candidates
  <2>. QED
    BY <1>7, <2>1
       DEF ReadCandidates, store, recorder, RecorderInv, Unindexed, Retimed, OnDisk, Indexed
<1>8. ASSUME NEW k \in Cleaners, NEW s \in Segs, RemoveFile(k, s)
      PROVE  RecorderInv'
  <2>1. \A k_1 \in Cleaners : Chosen(k_1)' = Chosen(k_1)
    BY <1>8 DEF RemoveFile, TypeOK, Chosen
  <2>2. s \notin Unindexed
    BY <1>8 DEF RemoveFile, RecorderInv, Chosen
  <2>3. \A i \in 1..Len(finalizer) : disk'[finalizer[i]] # Absent
    BY <1>8, <2>2, RecordingType DEF RemoveFile, TypeOK, RecorderInv, Unindexed, OnDisk
  <2>. QED
    BY <1>8, <2>1, <2>3
       DEF RemoveFile, recorder, RecorderInv, Unindexed, Retimed, OnDisk, Indexed
<1>9. ASSUME NEW k \in Cleaners, NEW s \in Segs, RemoveFails(k, s)
      PROVE  RecorderInv'
  <2>1. \A k_1 \in Cleaners : Chosen(k_1)' \subseteq Chosen(k_1)
    BY <1>9 DEF RemoveFails, TypeOK, Chosen
  <2>. QED
    BY <1>9, <2>1
       DEF RemoveFails, store, recorder, RecorderInv, Unindexed, Retimed, OnDisk, Indexed
<1>10. ASSUME NEW k \in Cleaners, CommitCleanup(k)
      PROVE  RecorderInv'
  <2>1. \A k_1 \in Cleaners : Chosen(k_1)' \subseteq Chosen(k_1)
    BY <1>10 DEF CommitCleanup, TypeOK, Chosen, Idle
  <2>2. \A s \in Unindexed : ~Indexed(s)'
    BY <1>10, RecordingType DEF CommitCleanup, RecorderInv, Indexed, WithoutRows, Unindexed
  <2>. QED
    BY <1>10, <2>1, <2>2
       DEF CommitCleanup, recorder, RecorderInv, Unindexed, Retimed, OnDisk
<1>11. ASSUME NEW k \in Cleaners, CleanupAborts(k)
      PROVE  RecorderInv'
  <2>1. \A k_1 \in Cleaners : Chosen(k_1)' \subseteq Chosen(k_1)
    BY <1>11 DEF CleanupAborts, TypeOK, Chosen, Idle
  <2>. QED
    BY <1>11, <2>1
       DEF CleanupAborts, store, recorder, RecorderInv, Unindexed, Retimed, OnDisk, Indexed
<1>12. ASSUME NEW c \in Cases, NEW retime \in BOOLEAN, StartJob(c, retime)
      PROVE  RecorderInv'
  <2>1. \A s \in Unindexed : s \notin Retimed'
    BY <1>12, MatchedIndexed DEF StartJob, RecorderInv, Retimed
  <2>. QED
    BY <1>12, <2>1
       DEF StartJob, store, recorder, RecorderInv, Unindexed, Chosen, OnDisk, Indexed
<1>13. ASSUME NEW s \in Segs, SkipRetime(s)
      PROVE  RecorderInv'
  <2>1. Retimed' \subseteq Retimed
    BY <1>13 DEF SkipRetime, TypeOK, JobStates, Retimed
  <2>. QED
    BY <1>13, <2>1
       DEF SkipRetime, store, recorder, RecorderInv, Unindexed, Chosen, OnDisk, Indexed
<1>14. ASSUME NEW s \in Segs, EncodeRetimed(s)
      PROVE  RecorderInv'
  <2>1. Retimed' \subseteq Retimed
    BY <1>14 DEF EncodeRetimed, Retimed
  <2>. QED
    BY <1>14, <2>1
       DEF EncodeRetimed, store, recorder, RecorderInv, Unindexed, Chosen, OnDisk, Indexed
<1>15. CASE ReplaceFile
  <2>1. Retimed' \subseteq Retimed
    BY <1>15 DEF ReplaceFile, Retimed
  <2>2. \A s \in Segs : disk[s] # Absent => disk'[s] # Absent
    BY <1>15 DEF ReplaceFile, TypeOK, Absent
  <2>3. \A i \in 1..Len(finalizer) : disk'[finalizer[i]] # Absent
    BY <2>2, RecordingType DEF RecorderInv, OnDisk
  <2>. QED
    BY <1>15, <2>1, <2>3
       DEF ReplaceFile, recorder, RecorderInv, Unindexed, Chosen, OnDisk, Indexed
<1>16. CASE CommitRetime
  <2>1. Retimed' = {}
    BY <1>16 DEF CommitRetime, Plan, Retimed
  <2>2. \A s \in Segs : Indexed(s)' => Indexed(s)
    BY <1>16 DEF CommitRetime, Indexed
  <2>3. Unindexed \subseteq Segs
    BY RecordingType DEF Unindexed
  <2>. QED
    BY <1>16, <2>1, <2>2, <2>3
       DEF CommitRetime, recorder, RecorderInv, Unindexed, Chosen, OnDisk
<1>17. CASE RetimeRaises
  <2>1. Retimed' = {}
    BY <1>17 DEF RetimeRaises, Plan, Retimed
  <2>. QED
    BY <1>17, <2>1
       DEF RetimeRaises, store, recorder, RecorderInv, Unindexed, Chosen, OnDisk, Indexed
<1>18. CASE PlanWindow
  <2>1. Retimed' = {}
    BY <1>18 DEF PlanWindow, Retimed
  <2>. QED
    BY <1>18, <2>1
       DEF PlanWindow, store, recorder, RecorderInv, Unindexed, Chosen, OnDisk, Indexed
<1>19. CASE LinkWindow
  <2>1. Retimed' = {}
    BY <1>19 DEF LinkWindow, TypeOK, JobStates, Retimed
  <2>. QED
    BY <1>19, <2>1
       DEF LinkWindow, store, recorder, RecorderInv, Unindexed, Chosen, OnDisk, Indexed
<1>20. CASE BuildWindow
  BY <1>20
     DEF BuildWindow, Idle, store, recorder, RecorderInv, Unindexed, Chosen, Retimed, OnDisk, Indexed
<1>21. CASE NoLocalClip
  BY <1>21
     DEF NoLocalClip, Idle, store, recorder, RecorderInv, Unindexed, Chosen, Retimed, OnDisk, Indexed
<1>22. CASE AppCrash
  BY <1>22
     DEF AppCrash, Idle, store, recorder, TypeOK, RecorderInv, Unindexed, Chosen, Retimed, OnDisk, Indexed
<1>23. CASE UNCHANGED vars
  BY <1>23
     DEF vars, store, recorder, RecorderInv, Unindexed, Chosen, Retimed, OnDisk, Indexed
<1>. QED
  BY <1>1, <1>2, <1>3, <1>4, <1>5, <1>6, <1>7, <1>8, <1>9, <1>10, <1>11, <1>12,
     <1>13, <1>14, <1>15, <1>16, <1>17, <1>18, <1>19, <1>20, <1>21, <1>22, <1>23
     DEF Next, RecorderStep, CleanerStep, JobStep

-----------------------------------------------------------------------------
(* The properties.                                                         *)

\* A linked segment keeps its file and its row: what a cleanup removes it has chosen,
\* and what it has chosen is linked late or not at all.
LEMMA LinkedStep == StoreInv /\ [Next]_vars => LinkedKept'
<1> SUFFICES ASSUME StoreInv, [Next]_vars
             PROVE  LinkedKept'
  OBVIOUS
<1>0. TypeOK /\ RecorderInv /\ LinkedKept
  BY DEF StoreInv
<1> USE <1>0
<1>1. CASE StartSegment
  BY <1>1 DEF StartSegment, TypeOK, history, LinkedKept, OnDisk, Indexed, Absent
<1>2. CASE CloseSegment
  BY <1>2 DEF CloseSegment, TypeOK, history, LinkedKept, OnDisk, Indexed, Absent
<1>3. CASE IndexSegment
  <2>1. disk[Head(finalizer)] \in Contents
    BY <1>3, RecordingType DEF IndexSegment, TypeOK, RecorderInv, OnDisk
  <2>. QED
    BY <1>3, <2>1
       DEF IndexSegment, TypeOK, history, LinkedKept, OnDisk, Indexed, Contents, None
<1>4. CASE IndexFails
  BY <1>4 DEF IndexFails, store, history, LinkedKept, OnDisk, Indexed
<1>5. CASE RecorderCrash
  BY <1>5 DEF RecorderCrash, store, history, LinkedKept, OnDisk, Indexed
<1>6. CASE Expire
  BY <1>6 DEF Expire, store, history, LinkedKept, OnDisk, Indexed
<1>7. ASSUME NEW k \in Cleaners, ReadCandidates(k)
      PROVE  LinkedKept'
  BY <1>7 DEF ReadCandidates, store, history, LinkedKept, OnDisk, Indexed
<1>8. ASSUME NEW k \in Cleaners, NEW s \in Segs, RemoveFile(k, s)
      PROVE  LinkedKept'
  <2>1. s \notin linked \ late
    BY <1>8 DEF RemoveFile, StoreInv, ChosenLate, Chosen
  <2>. QED
    BY <1>8, <2>1 DEF RemoveFile, TypeOK, history, LinkedKept, OnDisk, Indexed
<1>9. ASSUME NEW k \in Cleaners, NEW s \in Segs, RemoveFails(k, s)
      PROVE  LinkedKept'
  BY <1>9 DEF RemoveFails, store, history, LinkedKept, OnDisk, Indexed
<1>10. ASSUME NEW k \in Cleaners, CommitCleanup(k)
      PROVE  LinkedKept'
  <2>1. cleaner[k].gone \intersect linked \subseteq late
    BY <1>10 DEF CommitCleanup, StoreInv, ChosenLate, Chosen
  <2>. QED
    BY <1>10, <2>1 DEF CommitCleanup, TypeOK, WithoutRows, LinkedKept, OnDisk, Indexed
<1>11. ASSUME NEW k \in Cleaners, CleanupAborts(k)
      PROVE  LinkedKept'
  BY <1>11 DEF CleanupAborts, store, history, LinkedKept, OnDisk, Indexed
<1>12. ASSUME NEW c \in Cases, NEW retime \in BOOLEAN, StartJob(c, retime)
      PROVE  LinkedKept'
  BY <1>12 DEF StartJob, store, history, LinkedKept, OnDisk, Indexed
<1>13. ASSUME NEW s \in Segs, SkipRetime(s)
      PROVE  LinkedKept'
  BY <1>13 DEF SkipRetime, store, history, LinkedKept, OnDisk, Indexed
<1>14. ASSUME NEW s \in Segs, EncodeRetimed(s)
      PROVE  LinkedKept'
  BY <1>14 DEF EncodeRetimed, store, history, LinkedKept, OnDisk, Indexed
<1>15. CASE ReplaceFile
  BY <1>15 DEF ReplaceFile, TypeOK, LinkedKept, OnDisk, Indexed, Absent
<1>16. CASE CommitRetime
  BY <1>16 DEF CommitRetime, TypeOK, NewHash, LinkedKept, OnDisk, Indexed, None
<1>17. CASE RetimeRaises
  BY <1>17 DEF RetimeRaises, store, history, LinkedKept, OnDisk, Indexed
<1>18. CASE PlanWindow
  BY <1>18 DEF PlanWindow, store, history, LinkedKept, OnDisk, Indexed
<1>19. CASE LinkWindow
  BY <1>19 DEF LinkWindow, LinkedKept, OnDisk, Indexed
<1>20. CASE BuildWindow
  BY <1>20 DEF BuildWindow, store, history, LinkedKept, OnDisk, Indexed
<1>21. CASE NoLocalClip
  BY <1>21 DEF NoLocalClip, store, history, LinkedKept, OnDisk, Indexed
<1>22. CASE AppCrash
  BY <1>22 DEF AppCrash, store, history, LinkedKept, OnDisk, Indexed
<1>23. CASE UNCHANGED vars
  BY <1>23 DEF vars, store, history, LinkedKept, OnDisk, Indexed
<1>. QED
  BY <1>1, <1>2, <1>3, <1>4, <1>5, <1>6, <1>7, <1>8, <1>9, <1>10, <1>11, <1>12,
     <1>13, <1>14, <1>15, <1>16, <1>17, <1>18, <1>19, <1>20, <1>21, <1>22, <1>23
     DEF Next, RecorderStep, CleanerStep, JobStep

\* A file with no row is the recorder's, or leaked by one of the named steps.
LEMMA FilesStep == StoreInv /\ [Next]_vars => FilesAccounted'
<1> SUFFICES ASSUME StoreInv, [Next]_vars
             PROVE  FilesAccounted'
  OBVIOUS
<1>0. TypeOK /\ RecorderInv /\ FilesAccounted
  BY DEF StoreInv
<1> USE <1>0
<1>1. CASE StartSegment
  BY <1>1 DEF StartSegment, TypeOK, history, FilesAccounted, OnDisk, Indexed
<1>2. CASE CloseSegment
  <2>1. /\ finalizer'[Len(finalizer')] = next - 1 /\ Len(finalizer') \in 1..Len(finalizer')
        /\ \A i \in 1..Len(finalizer) : /\ i \in 1..Len(finalizer')
                                        /\ finalizer'[i] = finalizer[i]
    BY <1>2, RecordingType DEF CloseSegment, TypeOK
  <2>2. \A s \in Segs : s # next - 1 => disk'[s] = disk[s]
    BY <1>2 DEF CloseSegment, TypeOK
  <2>. QED
    BY <1>2, <2>1, <2>2 DEF CloseSegment, history, FilesAccounted, OnDisk, Indexed
<1>3. CASE IndexSegment
  <2>1. disk[Head(finalizer)] # None
    BY <1>3, RecordingType
       DEF IndexSegment, TypeOK, RecorderInv, OnDisk, Contents, Absent, None
  <2>2. ASSUME NEW i \in 1..Len(finalizer)
        PROVE  finalizer[i] = Head(finalizer) \/ \E j \in 1..Len(finalizer') : finalizer'[j] = finalizer[i]
    <3>1. i = 1 => finalizer[i] = Head(finalizer)
      BY DEF TypeOK
    <3>2. i # 1 => i - 1 \in 1..Len(finalizer') /\ finalizer'[i - 1] = finalizer[i]
      BY <1>3 DEF IndexSegment, TypeOK
    <3>. QED
      BY <3>1, <3>2
  <2>3. ASSUME NEW s \in Segs, OnDisk(s)', ~Indexed(s)'
        PROVE  OnDisk(s) /\ ~Indexed(s) /\ s # Head(finalizer)
    BY <1>3, <2>1, <2>3 DEF IndexSegment, TypeOK, OnDisk, Indexed
  <2>. QED
    BY <1>3, <2>2, <2>3 DEF IndexSegment, FilesAccounted, history
<1>4. CASE IndexFails
  <2>1. ASSUME NEW i \in 1..Len(finalizer)
        PROVE  finalizer[i] \in leaked' \/ \E j \in 1..Len(finalizer') : finalizer'[j] = finalizer[i]
    <3>1. i = 1 => finalizer[i] \in leaked'
      BY <1>4 DEF IndexFails, TypeOK
    <3>2. i # 1 => i - 1 \in 1..Len(finalizer') /\ finalizer'[i - 1] = finalizer[i]
      BY <1>4 DEF IndexFails, TypeOK
    <3>. QED
      BY <3>1, <3>2
  <2>. QED
    BY <1>4, <2>1 DEF IndexFails, store, FilesAccounted, OnDisk, Indexed
<1>5. CASE RecorderCrash
  BY <1>5 DEF RecorderCrash, store, FilesAccounted, OnDisk, Indexed
<1>6. CASE Expire
  BY <1>6 DEF Expire, store, recorder, history, FilesAccounted, OnDisk, Indexed
<1>7. ASSUME NEW k \in Cleaners, ReadCandidates(k)
      PROVE  FilesAccounted'
  BY <1>7 DEF ReadCandidates, store, recorder, history, FilesAccounted, OnDisk, Indexed
<1>8. ASSUME NEW k \in Cleaners, NEW s \in Segs, RemoveFile(k, s)
      PROVE  FilesAccounted'
  BY <1>8 DEF RemoveFile, TypeOK, recorder, history, FilesAccounted, OnDisk, Indexed
<1>9. ASSUME NEW k \in Cleaners, NEW s \in Segs, RemoveFails(k, s)
      PROVE  FilesAccounted'
  BY <1>9 DEF RemoveFails, store, recorder, history, FilesAccounted, OnDisk, Indexed
<1>10. ASSUME NEW k \in Cleaners, CommitCleanup(k)
      PROVE  FilesAccounted'
  BY <1>10 DEF CommitCleanup, WithoutRows, recorder, FilesAccounted, OnDisk, Indexed
<1>11. ASSUME NEW k \in Cleaners, CleanupAborts(k)
      PROVE  FilesAccounted'
  BY <1>11 DEF CleanupAborts, store, recorder, history, FilesAccounted, OnDisk, Indexed
<1>12. ASSUME NEW c \in Cases, NEW retime \in BOOLEAN, StartJob(c, retime)
      PROVE  FilesAccounted'
  BY <1>12 DEF StartJob, store, recorder, history, FilesAccounted, OnDisk, Indexed
<1>13. ASSUME NEW s \in Segs, SkipRetime(s)
      PROVE  FilesAccounted'
  BY <1>13 DEF SkipRetime, store, recorder, history, FilesAccounted, OnDisk, Indexed
<1>14. ASSUME NEW s \in Segs, EncodeRetimed(s)
      PROVE  FilesAccounted'
  BY <1>14 DEF EncodeRetimed, store, recorder, history, FilesAccounted, OnDisk, Indexed
<1>15. CASE ReplaceFile
  BY <1>15 DEF ReplaceFile, TypeOK, recorder, FilesAccounted, OnDisk, Indexed
<1>16. CASE CommitRetime
  BY <1>16 DEF CommitRetime, NewHash, recorder, FilesAccounted, OnDisk, Indexed, None
<1>17. CASE RetimeRaises
  BY <1>17 DEF RetimeRaises, store, recorder, history, FilesAccounted, OnDisk, Indexed
<1>18. CASE PlanWindow
  BY <1>18 DEF PlanWindow, store, recorder, history, FilesAccounted, OnDisk, Indexed
<1>19. CASE LinkWindow
  BY <1>19 DEF LinkWindow, recorder, FilesAccounted, OnDisk, Indexed
<1>20. CASE BuildWindow
  BY <1>20 DEF BuildWindow, store, recorder, history, FilesAccounted, OnDisk, Indexed
<1>21. CASE NoLocalClip
  BY <1>21 DEF NoLocalClip, store, recorder, history, FilesAccounted, OnDisk, Indexed
<1>22. CASE AppCrash
  BY <1>22 DEF AppCrash, store, recorder, history, FilesAccounted, OnDisk, Indexed
<1>23. CASE UNCHANGED vars
  BY <1>23 DEF vars, store, recorder, history, FilesAccounted, OnDisk, Indexed
<1>. QED
  BY <1>1, <1>2, <1>3, <1>4, <1>5, <1>6, <1>7, <1>8, <1>9, <1>10, <1>11, <1>12,
     <1>13, <1>14, <1>15, <1>16, <1>17, <1>18, <1>19, <1>20, <1>21, <1>22, <1>23
     DEF Next, RecorderStep, CleanerStep, JobStep

\* A hash that is not that of the file waits for its commit, or missed it.
LEMMA RowsStep == StoreInv /\ [Next]_vars => RowsDescribeFiles'
<1> SUFFICES ASSUME StoreInv, [Next]_vars
             PROVE  RowsDescribeFiles'
  OBVIOUS
<1>0. TypeOK /\ RecorderInv /\ RowsDescribeFiles
  BY DEF StoreInv
<1> USE <1>0
<1>1. CASE StartSegment
  <2>1. next \in Segs => next \in Unindexed
    BY DEF TypeOK, Unindexed, Segs
  <2>. QED
    BY <1>1, <2>1
       DEF StartSegment, TypeOK, RecorderInv, history, RowsDescribeFiles, OnDisk, Indexed
<1>2. CASE CloseSegment
  <2>1. ~Indexed(next - 1)
    BY <1>2, RecordingType DEF CloseSegment, RecorderInv, Unindexed
  <2>. QED
    BY <1>2, <2>1 DEF CloseSegment, TypeOK, history, RowsDescribeFiles, OnDisk, Indexed
<1>3. CASE IndexSegment
  BY <1>3 DEF IndexSegment, TypeOK, history, RowsDescribeFiles, OnDisk, Indexed
<1>4. CASE IndexFails
  BY <1>4 DEF IndexFails, store, history, RowsDescribeFiles, OnDisk, Indexed
<1>5. CASE RecorderCrash
  BY <1>5 DEF RecorderCrash, store, history, RowsDescribeFiles, OnDisk, Indexed
<1>6. CASE Expire
  BY <1>6 DEF Expire, store, history, RowsDescribeFiles, OnDisk, Indexed
<1>7. ASSUME NEW k \in Cleaners, ReadCandidates(k)
      PROVE  RowsDescribeFiles'
  BY <1>7 DEF ReadCandidates, store, history, RowsDescribeFiles, OnDisk, Indexed
<1>8. ASSUME NEW k \in Cleaners, NEW s \in Segs, RemoveFile(k, s)
      PROVE  RowsDescribeFiles'
  BY <1>8 DEF RemoveFile, TypeOK, history, RowsDescribeFiles, OnDisk, Indexed
<1>9. ASSUME NEW k \in Cleaners, NEW s \in Segs, RemoveFails(k, s)
      PROVE  RowsDescribeFiles'
  BY <1>9 DEF RemoveFails, store, history, RowsDescribeFiles, OnDisk, Indexed
<1>10. ASSUME NEW k \in Cleaners, CommitCleanup(k)
      PROVE  RowsDescribeFiles'
  BY <1>10 DEF CommitCleanup, WithoutRows, RowsDescribeFiles, OnDisk, Indexed
<1>11. ASSUME NEW k \in Cleaners, CleanupAborts(k)
      PROVE  RowsDescribeFiles'
  BY <1>11 DEF CleanupAborts, store, history, RowsDescribeFiles, OnDisk, Indexed
<1>12. ASSUME NEW c \in Cases, NEW retime \in BOOLEAN, StartJob(c, retime)
      PROVE  RowsDescribeFiles'
  BY <1>12 DEF StartJob, store, history, RowsDescribeFiles, OnDisk, Indexed
<1>13. ASSUME NEW s \in Segs, SkipRetime(s)
      PROVE  RowsDescribeFiles'
  BY <1>13
     DEF SkipRetime, TypeOK, JobStates, store, history, RowsDescribeFiles, OnDisk, Indexed
<1>14. ASSUME NEW s \in Segs, EncodeRetimed(s)
      PROVE  RowsDescribeFiles'
  BY <1>14 DEF EncodeRetimed, store, history, RowsDescribeFiles, OnDisk, Indexed
<1>15. CASE ReplaceFile
  BY <1>15 DEF ReplaceFile, TypeOK, RowsDescribeFiles, OnDisk, Indexed
<1>16. CASE CommitRetime
  BY <1>16
     DEF CommitRetime, StoreInv, ReplacedRealtime, Plan, NewHash, RowsDescribeFiles, OnDisk, Indexed
<1>17. CASE RetimeRaises
  BY <1>17 DEF RetimeRaises, Plan, store, history, RowsDescribeFiles, OnDisk, Indexed
<1>18. CASE PlanWindow
  BY <1>18 DEF PlanWindow, Plan, store, history, RowsDescribeFiles, OnDisk, Indexed
<1>19. CASE LinkWindow
  BY <1>19 DEF LinkWindow, TypeOK, RowsDescribeFiles, OnDisk, Indexed
<1>20. CASE BuildWindow
  BY <1>20 DEF BuildWindow, store, history, RowsDescribeFiles, OnDisk, Indexed
<1>21. CASE NoLocalClip
  BY <1>21 DEF NoLocalClip, store, history, RowsDescribeFiles, OnDisk, Indexed
<1>22. CASE AppCrash
  BY <1>22 DEF AppCrash, store, history, RowsDescribeFiles, OnDisk, Indexed
<1>23. CASE UNCHANGED vars
  BY <1>23 DEF vars, store, history, RowsDescribeFiles, OnDisk, Indexed
<1>. QED
  BY <1>1, <1>2, <1>3, <1>4, <1>5, <1>6, <1>7, <1>8, <1>9, <1>10, <1>11, <1>12,
     <1>13, <1>14, <1>15, <1>16, <1>17, <1>18, <1>19, <1>20, <1>21, <1>22, <1>23
     DEF Next, RecorderStep, CleanerStep, JobStep

-----------------------------------------------------------------------------
(* What the strengthening adds.                                            *)

\* What a cleanup has chosen is not linked, or linked late.
LEMMA ChosenStep == StoreInv /\ [Next]_vars => ChosenLate'
<1> SUFFICES ASSUME StoreInv, [Next]_vars
             PROVE  ChosenLate'
  OBVIOUS
<1>0. TypeOK /\ ChosenLate
  BY DEF StoreInv
<1> USE <1>0
<1>1. CASE StartSegment
  BY <1>1 DEF StartSegment, history, ChosenLate, Chosen
<1>2. CASE CloseSegment
  BY <1>2 DEF CloseSegment, history, ChosenLate, Chosen
<1>3. CASE IndexSegment
  BY <1>3 DEF IndexSegment, history, ChosenLate, Chosen
<1>4. CASE IndexFails
  BY <1>4 DEF IndexFails, store, ChosenLate, Chosen
<1>5. CASE RecorderCrash
  BY <1>5 DEF RecorderCrash, store, ChosenLate, Chosen
<1>6. CASE Expire
  BY <1>6 DEF Expire, store, history, ChosenLate, Chosen
<1>7. ASSUME NEW k \in Cleaners, ReadCandidates(k)
      PROVE  ChosenLate'
  BY <1>7 DEF ReadCandidates, TypeOK, store, history, ChosenLate, Chosen, Candidates
<1>8. ASSUME NEW k \in Cleaners, NEW s \in Segs, RemoveFile(k, s)
      PROVE  ChosenLate'
  BY <1>8 DEF RemoveFile, TypeOK, history, ChosenLate, Chosen
<1>9. ASSUME NEW k \in Cleaners, NEW s \in Segs, RemoveFails(k, s)
      PROVE  ChosenLate'
  BY <1>9 DEF RemoveFails, TypeOK, store, history, ChosenLate, Chosen
<1>10. ASSUME NEW k \in Cleaners, CommitCleanup(k)
      PROVE  ChosenLate'
  BY <1>10 DEF CommitCleanup, TypeOK, Idle, ChosenLate, Chosen
<1>11. ASSUME NEW k \in Cleaners, CleanupAborts(k)
      PROVE  ChosenLate'
  BY <1>11 DEF CleanupAborts, TypeOK, Idle, store, history, ChosenLate, Chosen
<1>12. ASSUME NEW c \in Cases, NEW retime \in BOOLEAN, StartJob(c, retime)
      PROVE  ChosenLate'
  BY <1>12 DEF StartJob, store, history, ChosenLate, Chosen
<1>13. ASSUME NEW s \in Segs, SkipRetime(s)
      PROVE  ChosenLate'
  BY <1>13 DEF SkipRetime, store, history, ChosenLate, Chosen
<1>14. ASSUME NEW s \in Segs, EncodeRetimed(s)
      PROVE  ChosenLate'
  BY <1>14 DEF EncodeRetimed, store, history, ChosenLate, Chosen
<1>15. CASE ReplaceFile
  BY <1>15 DEF ReplaceFile, ChosenLate, Chosen
<1>16. CASE CommitRetime
  BY <1>16 DEF CommitRetime, ChosenLate, Chosen
<1>17. CASE RetimeRaises
  BY <1>17 DEF RetimeRaises, store, ChosenLate, Chosen
<1>18. CASE PlanWindow
  BY <1>18 DEF PlanWindow, store, history, ChosenLate, Chosen
<1>19. CASE LinkWindow
  BY <1>19 DEF LinkWindow, ChosenLate, Chosen
<1>20. CASE BuildWindow
  BY <1>20 DEF BuildWindow, store, history, ChosenLate, Chosen
<1>21. CASE NoLocalClip
  BY <1>21 DEF NoLocalClip, store, history, ChosenLate, Chosen
<1>22. CASE AppCrash
  BY <1>22 DEF AppCrash, Idle, store, ChosenLate, Chosen
<1>23. CASE UNCHANGED vars
  BY <1>23 DEF vars, store, history, ChosenLate, Chosen
<1>. QED
  BY <1>1, <1>2, <1>3, <1>4, <1>5, <1>6, <1>7, <1>8, <1>9, <1>10, <1>11, <1>12,
     <1>13, <1>14, <1>15, <1>16, <1>17, <1>18, <1>19, <1>20, <1>21, <1>22, <1>23
     DEF Next, RecorderStep, CleanerStep, JobStep

\* A file that was replaced plays in real time or is gone.
LEMMA ReplacedStep == StoreInv /\ [Next]_vars => ReplacedRealtime'
<1> SUFFICES ASSUME StoreInv, [Next]_vars
             PROVE  ReplacedRealtime'
  OBVIOUS
<1>0. TypeOK /\ RecorderInv /\ ReplacedRealtime
  BY DEF StoreInv
<1> USE <1>0
<1>1. CASE StartSegment
  <2>1. next \in Segs => next \in Unindexed
    BY DEF TypeOK, Unindexed, Segs
  <2>. QED
    BY <1>1, <2>1, JobShape DEF StartSegment, TypeOK, RecorderInv, Retimed, ReplacedRealtime
<1>2. CASE CloseSegment
  BY <1>2, JobShape DEF CloseSegment, TypeOK, ReplacedRealtime
<1>3. CASE IndexSegment
  BY <1>3 DEF IndexSegment, ReplacedRealtime
<1>4. CASE IndexFails
  BY <1>4 DEF IndexFails, store, ReplacedRealtime
<1>5. CASE RecorderCrash
  BY <1>5 DEF RecorderCrash, store, ReplacedRealtime
<1>6. CASE Expire
  BY <1>6 DEF Expire, store, ReplacedRealtime
<1>7. ASSUME NEW k \in Cleaners, ReadCandidates(k)
      PROVE  ReplacedRealtime'
  BY <1>7 DEF ReadCandidates, store, ReplacedRealtime
<1>8. ASSUME NEW k \in Cleaners, NEW s \in Segs, RemoveFile(k, s)
      PROVE  ReplacedRealtime'
  BY <1>8, JobShape DEF RemoveFile, TypeOK, ReplacedRealtime
<1>9. ASSUME NEW k \in Cleaners, NEW s \in Segs, RemoveFails(k, s)
      PROVE  ReplacedRealtime'
  BY <1>9 DEF RemoveFails, store, ReplacedRealtime
<1>10. ASSUME NEW k \in Cleaners, CommitCleanup(k)
      PROVE  ReplacedRealtime'
  BY <1>10 DEF CommitCleanup, ReplacedRealtime
<1>11. ASSUME NEW k \in Cleaners, CleanupAborts(k)
      PROVE  ReplacedRealtime'
  BY <1>11 DEF CleanupAborts, store, ReplacedRealtime
<1>12. ASSUME NEW c \in Cases, NEW retime \in BOOLEAN, StartJob(c, retime)
      PROVE  ReplacedRealtime'
  BY <1>12 DEF StartJob, ReplacedRealtime
<1>13. ASSUME NEW s \in Segs, SkipRetime(s)
      PROVE  ReplacedRealtime'
  BY <1>13 DEF SkipRetime, TypeOK, JobStates, store, ReplacedRealtime
<1>14. ASSUME NEW s \in Segs, EncodeRetimed(s)
      PROVE  ReplacedRealtime'
  BY <1>14 DEF EncodeRetimed, store, ReplacedRealtime
<1>15. CASE ReplaceFile
  BY <1>15, JobShape DEF ReplaceFile, TypeOK, ReplacedRealtime
<1>16. CASE CommitRetime
  BY <1>16 DEF CommitRetime, Plan, ReplacedRealtime
<1>17. CASE RetimeRaises
  BY <1>17 DEF RetimeRaises, Plan, ReplacedRealtime
<1>18. CASE PlanWindow
  BY <1>18 DEF PlanWindow, ReplacedRealtime
<1>19. CASE LinkWindow
  BY <1>19 DEF LinkWindow, TypeOK, JobStates, ReplacedRealtime
<1>20. CASE BuildWindow
  BY <1>20 DEF BuildWindow, Idle, ReplacedRealtime
<1>21. CASE NoLocalClip
  BY <1>21 DEF NoLocalClip, Idle, ReplacedRealtime
<1>22. CASE AppCrash
  BY <1>22 DEF AppCrash, Idle, ReplacedRealtime
<1>23. CASE UNCHANGED vars
  BY <1>23 DEF vars, store, ReplacedRealtime
<1>. QED
  BY <1>1, <1>2, <1>3, <1>4, <1>5, <1>6, <1>7, <1>8, <1>9, <1>10, <1>11, <1>12,
     <1>13, <1>14, <1>15, <1>16, <1>17, <1>18, <1>19, <1>20, <1>21, <1>22, <1>23
     DEF Next, RecorderStep, CleanerStep, JobStep

-----------------------------------------------------------------------------
(* The theorems.                                                           *)

\* At first the segments there are have their files and rows, and nothing is
\* in progress.
LEMMA StoreInit == Init => StoreInv
<1> SUFFICES ASSUME Init PROVE StoreInv
  OBVIOUS
<1>1. TypeOK
  <2>1. disk \in [Segs -> Contents \union {Absent}] /\ index \in [Segs -> Contents \union {None}]
    BY DEF Init, Contents
  <2>2. next \in 1..(LastSeg + 1) /\ finalizer \in Seq(Segs)
    BY SegsAssumption DEF Init
  <2>3. cleaner \in [Cleaners -> CleanerStates] /\ job \in JobStates
    BY DEF Init, CleanerStates, JobStates, Idle
  <2>4. recording \in BOOLEAN
    BY DEF Init
  <2>5. clip \in [Cases -> [counted: SUBSET Segs, used: SUBSET Segs]]
    BY DEF Init, NoClip
  <2>6. used \in [{"runs", "cleanups", "crashes", "failures"} -> Nat]
    BY DEF Init
  <2>. QED
    BY <2>1, <2>2, <2>3, <2>4, <2>5, <2>6 DEF Init, TypeOK
<1>2. RecorderInv
  BY SegsAssumption DEF Init, RecorderInv, Unindexed, Retimed, Chosen, Idle, Indexed, Segs
<1>3. LinkedKept /\ RowsDescribeFiles /\ ChosenLate /\ ReplacedRealtime
  BY DEF Init, LinkedKept, RowsDescribeFiles, ChosenLate, ReplacedRealtime, Chosen, Idle,
         OnDisk, Indexed, Absent
<1>4. FilesAccounted
  BY DEF Init, FilesAccounted, OnDisk, Indexed, None
<1>. QED
  BY <1>1, <1>2, <1>3, <1>4 DEF StoreInv

\* The inductive invariant holds of every behaviour.
THEOREM StoreInvariant == Spec => []StoreInv
<1>1. StoreInv /\ [Next]_vars => StoreInv'
  BY TypeStep, UnindexedStep, LinkedStep, FilesStep, RowsStep, ChosenStep, ReplacedStep
     DEF StoreInv
<1>. QED
  BY <1>1, StoreInit, PTL DEF Spec

\* Every reachable state is well typed.
THEOREM TypeCorrect == Spec => []TypeOK
BY StoreInvariant, PTL DEF StoreInv

\* A segment linked to a case keeps its file and its row for good, unless it was
\* linked behind the back of a running cleanup or damaged before.
THEOREM LinkedSegmentsKept == Spec => []LinkedKept
BY StoreInvariant, PTL DEF StoreInv

\* No finished file is without row, except in the ways the code has of losing one.
THEOREM NoFileForgotten == Spec => []FilesAccounted
BY StoreInvariant, PTL DEF StoreInv

\* The hash of a row is that of its file, outside re-timing and what it lost.
THEOREM HashesCurrent == Spec => []RowsDescribeFiles
BY StoreInvariant, PTL DEF StoreInv

=============================================================================
