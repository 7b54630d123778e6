------------------------------ MODULE CaseProofs ------------------------------
(***************************************************************************)
(* Proofs about CaseLifecycle and CaseExport, in three parts.  The first   *)
(* is about every set of cases and clients, every decision policy and      *)
(* every bound; CustodyInv, its inductive invariant, is defined beside     *)
(* Custody and is also checked by TLC.  The second is about the automatic  *)
(* analysis without requests.  The third is about the exporter, which      *)
(* takes nothing from the lifecycle, so that whatever is proved of         *)
(* CaseLifecycle holds beside it.                                          *)
(***************************************************************************)
EXTENDS CaseExport, FiniteSetTheorems, TLAPS

-----------------------------------------------------------------------------
(* The session layer.                                                      *)

\* An UPDATE of some columns of a row leaves a row.
LEMMA FlushType ==
    ASSUME NEW a \in Row, NEW b \in Row, NEW n \in Row
    PROVE  Flush(a, b, n) \in Row
BY DEF Flush, NetColumn, Row

\* The status committed by a flush is the one assigned, unless the session
\* assigned the status it had loaded.
LEMMA FlushStatus ==
    ASSUME NEW a \in Row, NEW b \in Row, NEW n \in Row
    PROVE  Flush(a, b, n).status = IF n.status = b.status THEN a.status ELSE n.status
BY DEF Flush, NetColumn, Row

\* Stamping closed_at leaves a row, with its status.
LEMMA StampedType ==
    ASSUME NEW a \in Row
    PROVE  Stamped(a) \in Row /\ Stamped(a).status = a.status
BY DEF Stamped, Row

\* What the failure handler assigns is a row with the prior status.
LEMMA RestoredType ==
    ASSUME NEW a \in Row, NEW b \in Row
    PROVE  Restored(a, b) \in Row /\ Restored(a, b).status = b.status
BY DEF Restored, Row, Reasons

\* What a review assigns is a row.
LEMMA ReviewedType ==
    ASSUME NEW a \in Row, NEW f \in ReviewForm
    PROVE  Reviewed(a, f) \in Row
BY DEF Reviewed, Row, Statuses, ReviewForm

\* Recovery at start-up leaves a row.
LEMMA RecoveredType ==
    ASSUME NEW a \in Row
    PROVE  Recovered(a) \in Row
BY DEF Recovered, Row, Statuses

-----------------------------------------------------------------------------
(* The states of the actors.                                               *)

\* Which fields the worker's state has at each of its steps.
LEMMA WorkerShape ==
    ASSUME TypeOK
    PROVE  /\ worker.pc # "idle" => worker.job \in Job
           /\ worker.pc \in {"window", "analysing", "restoring"} => worker.seen \in Row
BY DEF TypeOK, WorkerStates

\* Which fields a request handler's state has at each of its steps.
LEMMA ClientShape ==
    ASSUME TypeOK, NEW p \in Clients
    PROVE  /\ client[p].pc = "claiming" => client[p].case \in Cases /\ client[p].seen \in Row
           /\ client[p].pc = "claimed" => client[p].job \in Job
           /\ client[p].pc = "reviewing" =>
                 /\ client[p].case \in Cases
                 /\ client[p].seen \in Row
                 /\ client[p].form \in ReviewForm
<1>1. client[p] \in ClientStates
  BY DEF TypeOK
<1>. QED
  BY <1>1 DEF ClientStates

\* Spending from a bound keeps the counters counters.
LEMMA SpendType ==
    ASSUME NEW what \in {"requests", "reviews", "restarts", "failures", "lost"},
           NEW limit, TypeOK, Spend(what, limit)
    PROVE  spent' \in [{"requests", "reviews", "restarts", "failures", "lost"} -> Nat]
BY DEF TypeOK, Spend

\* The history variable stays a set of cases.
LEMMA StrandingType ==
    ASSUME TypeOK, NEW added \in SUBSET Cases, Stranding(added)
    PROVE  stranded' \in SUBSET Cases
BY DEF TypeOK, Stranding

-----------------------------------------------------------------------------
(* Type correctness.                                                       *)

\* Every step of every actor keeps the shape of the state.
LEMMA TypeStep == TypeOK /\ [Next]_vars => TypeOK'
<1> SUFFICES ASSUME TypeOK, [Next]_vars
             PROVE  TypeOK'
  OBVIOUS
<1>1. CASE AutoSelect
  <2>1. auto' \in AutoStates
    <3>1. PICK picked \in SUBSET OpenCases :
            auto' = [pc |-> "selected", jobs |-> {[case |-> c, prior |-> rows[c]] : c \in picked}]
      BY <1>1 DEF AutoSelect
    <3>2. \A c \in picked : [case |-> c, prior |-> rows[c]] \in Job
      BY DEF TypeOK, OpenCases, Job
    <3>3. {[case |-> c, prior |-> rows[c]] : c \in picked} \subseteq Job
      BY <3>2
    <3>. QED
      BY <3>1, <3>3 DEF AutoStates
  <2>. QED
    BY <1>1, <2>1 DEF AutoSelect, TypeOK
<1>2. CASE AutoClaim
  <2>1. rows' \in [Cases -> Row]
    <3>1. \A c \in Cases : rows[c] \in Row
      BY DEF TypeOK
    <3>2. \A c \in Cases : [rows[c] EXCEPT !.status = "REPROCESSING"] \in Row
      BY <3>1 DEF Row, Statuses
    <3>. QED
      BY <1>2, <3>1, <3>2 DEF AutoClaim
  <2>2. auto' \in AutoStates
    BY <1>2 DEF AutoClaim, TypeOK, AutoStates
  <2>. QED
    BY <1>2, <2>1, <2>2 DEF AutoClaim, TypeOK
<1>3. CASE AutoSubmit
  <2>1. auto.pc = "claimed" /\ auto.jobs \in SUBSET Job
    BY <1>3 DEF AutoSubmit, TypeOK, AutoStates
  <2>2. queue' \in Seq(Job)
    BY <1>3, <2>1 DEF AutoSubmit, TypeOK
  <2>3. auto' \in AutoStates
    BY <1>3, <2>1 DEF AutoSubmit, TypeOK, AutoStates, Idle
  <2>. QED
    BY <1>3, <2>2, <2>3 DEF AutoSubmit, TypeOK
<1>4. ASSUME NEW p \in Clients, NEW c \in Cases, ReadForClaim(p, c)
      PROVE  TypeOK'
  <2>1. spent' \in [{"requests", "reviews", "restarts", "failures", "lost"} -> Nat]
    BY <1>4, SpendType DEF ReadForClaim
  <2>2. client' \in [Clients -> ClientStates]
    BY <1>4 DEF ReadForClaim, TypeOK, ClientStates
  <2>. QED
    BY <1>4, <2>1, <2>2 DEF ReadForClaim, TypeOK
<1>5. ASSUME NEW p \in Clients, CommitClaim(p)
      PROVE  TypeOK'
  <2> DEFINE c == client[p].case
             seen == client[p].seen
             new == [status |-> "REPROCESSING", outcome |-> None, risk |-> None,
                     reason |-> None, closed |-> FALSE]
  <2>1. c \in Cases /\ seen \in Row
    BY <1>5, ClientShape DEF CommitClaim
  <2>2. new \in Row
    BY DEF Row, Statuses
  <2>3. rows[c] \in Row
    BY <2>1 DEF TypeOK
  <2>4. Flush(rows[c], seen, new) \in Row
    BY <2>1, <2>2, <2>3, FlushType
  <2>5. rows' \in [Cases -> Row]
    BY <1>5, <2>4 DEF CommitClaim, TypeOK
  <2>6. client' \in [Clients -> ClientStates]
    BY <1>5, <2>1 DEF CommitClaim, TypeOK, ClientStates, Job
  <2>7. stranded' \in SUBSET Cases
    BY <1>5, StrandingType DEF CommitClaim
  <2>. QED
    BY <1>5, <2>5, <2>6, <2>7 DEF CommitClaim, TypeOK
<1>6. ASSUME NEW p \in Clients, SubmitClaim(p)
      PROVE  TypeOK'
  <2>1. client[p].job \in Job
    BY <1>6, ClientShape DEF SubmitClaim
  <2>2. client' \in [Clients -> ClientStates]
    BY <1>6 DEF SubmitClaim, TypeOK, ClientStates, Idle
  <2>. QED
    BY <1>6, <2>1, <2>2 DEF SubmitClaim, TypeOK
<1>7. ASSUME NEW p \in Clients, NEW c \in Cases, NEW form \in ReviewForms,
             ReadForReview(p, c, form)
      PROVE  TypeOK'
  <2>1. spent' \in [{"requests", "reviews", "restarts", "failures", "lost"} -> Nat]
    BY <1>7, SpendType DEF ReadForReview
  <2>2. client' \in [Clients -> ClientStates]
    BY <1>7, ReviewFormsAssumption DEF ReadForReview, TypeOK, ClientStates
  <2>. QED
    BY <1>7, <2>1, <2>2 DEF ReadForReview, TypeOK
<1>8. ASSUME NEW p \in Clients, CommitReview(p)
      PROVE  TypeOK'
  <2> DEFINE c == client[p].case
             seen == client[p].seen
             form == client[p].form
  <2>1. c \in Cases /\ seen \in Row /\ form \in ReviewForm
    BY <1>8, ClientShape DEF CommitReview
  <2>2. Flush(rows[c], seen, Reviewed(seen, form)) \in Row
    BY <2>1, FlushType, ReviewedType DEF TypeOK
  <2>3. rows' \in [Cases -> Row]
    BY <1>8, <2>2 DEF CommitReview, TypeOK
  <2>4. stranded' \in SUBSET Cases
    BY <1>8, <2>1, StrandingType DEF CommitReview
  <2>5. client' \in [Clients -> ClientStates]
    BY <1>8 DEF CommitReview, TypeOK, ClientStates, Idle
  <2>. QED
    BY <1>8, <2>3, <2>4, <2>5 DEF CommitReview, TypeOK
<1>9. CASE FetchJob
  <2>1. Head(queue) \in Job /\ Tail(queue) \in Seq(Job)
    BY <1>9 DEF FetchJob, TypeOK
  <2>2. worker' \in WorkerStates
    BY <1>9, <2>1 DEF FetchJob, WorkerStates
  <2>. QED
    BY <1>9, <2>1, <2>2 DEF FetchJob, TypeOK
<1>10. CASE LoadCase
  <2>1. worker.job \in Job /\ worker.job.case \in Cases
    BY <1>10, WorkerShape DEF LoadCase, Job
  <2>2. worker' \in WorkerStates
    BY <1>10, <2>1 DEF LoadCase, TypeOK, WorkerStates
  <2>. QED
    BY <1>10, <2>1, <2>2 DEF LoadCase, TypeOK
<1>11. CASE CloseInvalid
  <2> DEFINE c == worker.job.case
             new == [worker.seen EXCEPT !.outcome = "INVALID_VIDEO",
                                        !.status = "CLOSED", !.reason = "no_footage"]
  <2>1. c \in Cases /\ worker.seen \in Row
    BY <1>11, WorkerShape DEF CloseInvalid, Job
  <2>2. new \in Row
    BY <2>1 DEF Row, Statuses, Outcomes, Reasons
  <2>3. Stamped(Flush(rows[c], worker.seen, new)) \in Row
    BY <2>1, <2>2, FlushType, StampedType DEF TypeOK
  <2>4. rows' \in [Cases -> Row]
    BY <1>11, <2>3 DEF CloseInvalid, TypeOK
  <2>5. package' \in [Cases -> Outcomes \union {None}]
    BY <1>11 DEF CloseInvalid, WritePackage, TypeOK, Outcomes
  <2>6. stranded' \in SUBSET Cases
    BY <1>11, StrandingType DEF CloseInvalid
  <2>. QED
    BY <1>11, <2>4, <2>5, <2>6 DEF CloseInvalid, TypeOK, WorkerStates, Idle
<1>12. CASE AcquireWindow
  <2>1. worker' \in WorkerStates
    BY <1>12 DEF AcquireWindow, TypeOK, WorkerStates
  <2>. QED
    BY <1>12, <2>1 DEF AcquireWindow, TypeOK
<1>13. ASSUME NEW d \in Decisions, Decide(d)
       PROVE  TypeOK'
  <2> DEFINE c == worker.job.case
             new == [worker.seen EXCEPT !.outcome = d.outcome, !.risk = d.risk,
                                        !.status = "CLOSED"]
  <2>1. c \in Cases /\ worker.seen \in Row
    BY <1>13, WorkerShape DEF Decide, Job
  <2>2. d.outcome \in Outcomes /\ d.risk \in Risks
    BY DecisionsAssumption
  <2>3. new \in Row
    BY <2>1, <2>2 DEF Row, Statuses
  <2>4. Stamped(Flush(rows[c], worker.seen, new)) \in Row
    BY <2>1, <2>3, FlushType, StampedType DEF TypeOK
  <2>5. rows' \in [Cases -> Row]
    BY <1>13, <2>4 DEF Decide, TypeOK
  <2>6. package' \in [Cases -> Outcomes \union {None}]
    BY <1>13, <2>2 DEF Decide, WritePackage, TypeOK
  <2>7. stranded' \in SUBSET Cases
    BY <1>13, StrandingType DEF Decide
  <2>. QED
    BY <1>13, <2>5, <2>6, <2>7 DEF Decide, TypeOK, WorkerStates, Idle
<1>14. CASE AnalysisRaises
  <2>1. worker.job \in Job
    BY <1>14, WorkerShape DEF AnalysisRaises
  <2>2. spent' \in [{"requests", "reviews", "restarts", "failures", "lost"} -> Nat]
    BY <1>14, SpendType DEF AnalysisRaises, TypeOK
  <2>3. worker' \in WorkerStates
    BY <1>14, <2>1 DEF AnalysisRaises, WorkerStates
  <2>. QED
    BY <1>14, <2>2, <2>3 DEF AnalysisRaises, TypeOK
<1>15. CASE ReadForRestore
  <2>1. worker.job \in Job /\ worker.job.case \in Cases
    BY <1>15, WorkerShape DEF ReadForRestore, Job
  <2>2. worker' \in WorkerStates
    BY <1>15, <2>1 DEF ReadForRestore, TypeOK, WorkerStates, Idle
  <2>. QED
    BY <1>15, <2>2 DEF ReadForRestore, TypeOK
<1>16. CASE CommitRestore
  <2> DEFINE c == worker.job.case
             new == Restored(worker.seen, worker.job.prior)
  <2>1. c \in Cases /\ worker.seen \in Row /\ worker.job.prior \in Row
    BY <1>16, WorkerShape DEF CommitRestore, Job
  <2>2. Flush(rows[c], worker.seen, new) \in Row
    BY <2>1, FlushType, RestoredType DEF TypeOK
  <2>3. rows' \in [Cases -> Row]
    BY <1>16, <2>2 DEF CommitRestore, TypeOK
  <2>4. stranded' \in SUBSET Cases
    BY <1>16, StrandingType DEF CommitRestore
  <2>. QED
    BY <1>16, <2>3, <2>4 DEF CommitRestore, TypeOK, WorkerStates, Idle
<1>17. CASE HandlerLost
  <2>1. worker.job.case \in Cases
    BY <1>17, WorkerShape DEF HandlerLost, RestoreLost, Job
  <2>2. stranded' \in SUBSET Cases
    BY <1>17, <2>1, StrandingType DEF HandlerLost, RestoreLost
  <2>3. spent' \in [{"requests", "reviews", "restarts", "failures", "lost"} -> Nat]
    BY <1>17, SpendType DEF HandlerLost, RestoreLost
  <2>. QED
    BY <1>17, <2>2, <2>3 DEF HandlerLost, RestoreLost, TypeOK, WorkerStates, Idle
<1>18. CASE Restart
  <2>1. rows' \in [Cases -> Row]
    BY <1>18, RecoveredType DEF Restart, TypeOK
  <2>2. client' \in [Clients -> ClientStates]
    BY <1>18 DEF Restart, ClientStates, Idle
  <2>3. stranded' \in SUBSET Cases
    BY <1>18, StrandingType DEF Restart
  <2>4. spent' \in [{"requests", "reviews", "restarts", "failures", "lost"} -> Nat]
    BY <1>18, SpendType DEF Restart
  <2>. QED
    BY <1>18, <2>1, <2>2, <2>3, <2>4 DEF Restart, TypeOK, WorkerStates, AutoStates, Idle
<1>19. CASE UNCHANGED vars
  BY <1>19 DEF vars, TypeOK
<1>. QED
  BY <1>1, <1>2, <1>3, <1>4, <1>5, <1>6, <1>7, <1>8, <1>9, <1>10, <1>11, <1>12,
     <1>13, <1>14, <1>15, <1>16, <1>17, <1>18, <1>19
     DEF Next, AutoStep, WorkerStep, ClientBegin, ClientFinish

\* The program starts in a state of the right shape.
LEMMA TypeInit == Init => TypeOK
BY DEF Init, TypeOK, Row, Statuses, WorkerStates, AutoStates, ClientStates, Idle

\* In every behaviour of the case lifecycle every variable keeps its shape.
THEOREM TypeCorrect == Spec => []TypeOK
BY TypeInit, TypeStep, PTL DEF Spec

-----------------------------------------------------------------------------
(* Custody.                                                                *)

\* A step that leaves the queue, the auto-analyzer, the handlers and the worker's
\* part for case c alone leaves c tended.
LEMMA TendedElsewhere ==
    ASSUME NEW c \in Cases, Tended(c), UNCHANGED <<queue, auto, client>>,
           worker.pc = "idle" \/ ~Moves(worker.job, c)
    PROVE  Tended(c)'
BY DEF Tended, HeldByAuto, Moves

\* The worker closes the case it works on, if it loaded it in another status.
LEMMA ClosingFlush ==
    ASSUME NEW a \in Row, NEW b \in Row, NEW n \in Row, n.status = "CLOSED",
           Stamped(Flush(a, b, n)).status = "REPROCESSING"
    PROVE  a.status = "REPROCESSING" /\ b.status # "REPROCESSING"
<1>1. Flush(a, b, n) \in Row
  BY FlushType
<1>2. Flush(a, b, n).status = "REPROCESSING"
  BY <1>1, StampedType
<1>. QED
  BY <1>2, FlushStatus

\* CustodyInv is inductive.
LEMMA CustodyStep == CustodyInv /\ [Next]_vars => CustodyInv'
<1> SUFFICES ASSUME CustodyInv, [Next]_vars
             PROVE  CustodyInv'
  OBVIOUS
<1>0. TypeOK /\ TypeOK'
  BY TypeStep DEF CustodyInv
<1>1. CASE AutoSelect
  <2>1. ASSUME NEW c \in Cases, InReprocessing(c)'
        PROVE  Tended(c)' \/ c \in stranded'
    BY <1>1, <2>1 DEF AutoSelect, CustodyInv, InReprocessing, Tended, HeldByAuto
  <2>2. \A j \in auto'.jobs : j.prior.status = "OPEN"
    BY <1>1 DEF AutoSelect, OpenCases
  <2>. QED
    BY <1>0, <1>1, <2>1, <2>2 DEF AutoSelect, CustodyInv
<1>2. CASE AutoClaim
  <2>1. ASSUME NEW c \in Cases, InReprocessing(c)'
        PROVE  Tended(c)' \/ c \in stranded'
    <3>1. CASE \E j \in auto.jobs : j.case = c
      BY <1>2, <3>1, <1>0 DEF AutoClaim, Tended, HeldByAuto, TypeOK, AutoStates
    <3>2. CASE ~ \E j \in auto.jobs : j.case = c
      <4>1. InReprocessing(c)
        BY <1>2, <2>1, <3>2 DEF AutoClaim, InReprocessing
      <4>. QED
        BY <1>2, <4>1, <3>2 DEF AutoClaim, CustodyInv, Tended, HeldByAuto
    <3>. QED
      BY <3>1, <3>2
  <2>2. auto'.jobs = auto.jobs
    BY <1>0, <1>2 DEF AutoClaim, TypeOK, AutoStates
  <2>. QED
    BY <1>0, <1>2, <2>1, <2>2 DEF AutoClaim, CustodyInv
<1>3. CASE AutoSubmit
  <2>1. auto.pc = "claimed" /\ auto.jobs \in SUBSET Job
    BY <1>0, <1>3 DEF AutoSubmit, TypeOK, AutoStates
  <2>2. PICK j \in auto.jobs :
           /\ queue' = Append(queue, j)
           /\ auto' = IF auto.jobs = {j} THEN Idle ELSE [auto EXCEPT !.jobs = @ \ {j}]
    BY <1>3 DEF AutoSubmit
  <2>3. j.prior.status = "OPEN"
    BY <2>1, <2>2 DEF CustodyInv
  <2>4. /\ Len(queue') = Len(queue) + 1
        /\ \A i \in 1..Len(queue) : queue'[i] = queue[i]
        /\ queue'[Len(queue) + 1] = j
        /\ Len(queue) \in Nat
    BY <1>0, <2>1, <2>2 DEF TypeOK
  <2>5. ASSUME NEW c \in Cases, InReprocessing(c)'
        PROVE  Tended(c)' \/ c \in stranded'
    <3>1. Tended(c) \/ c \in stranded
      BY <1>3, <2>5 DEF AutoSubmit, CustodyInv, InReprocessing
    <3>2. CASE \E i \in 1..Len(queue) : Moves(queue[i], c)
      BY <2>4, <3>2 DEF Tended, Moves
    <3>3. CASE HeldByAuto(c) /\ j.case = c
      <4>1. Moves(queue'[Len(queue) + 1], c)
        BY <2>3, <2>4, <3>3 DEF Moves
      <4>2. Len(queue) + 1 \in 1..Len(queue')
        BY <2>4
      <4>3. \E i \in 1..Len(queue') : Moves(queue'[i], c)
        BY <4>1, <4>2
      <4>. QED
        BY <4>3 DEF Tended, Moves
    <3>4. CASE HeldByAuto(c) /\ j.case # c
      <4>1. auto'.pc = "claimed" /\ \E k \in auto'.jobs : k.case = c
        BY <1>0, <2>1, <2>2, <3>4 DEF HeldByAuto, TypeOK, AutoStates
      <4>. QED
        BY <4>1 DEF Tended, HeldByAuto
    <3>5. CASE Tended(c) /\ ~(\E i \in 1..Len(queue) : Moves(queue[i], c)) /\ ~HeldByAuto(c)
      BY <1>3, <3>5 DEF AutoSubmit, Tended, Moves
    <3>. QED
      BY <1>3, <3>1, <3>2, <3>3, <3>4, <3>5 DEF AutoSubmit
  <2>6. auto'.pc # "idle" => \A k \in auto'.jobs : k.prior.status = "OPEN"
    BY <1>0, <2>1, <2>2 DEF CustodyInv, Idle, TypeOK, AutoStates
  <2>. QED
    BY <1>0, <1>3, <2>5, <2>6 DEF AutoSubmit, CustodyInv
<1>4. ASSUME NEW p \in Clients, NEW c \in Cases, ReadForClaim(p, c)
      PROVE  CustodyInv'
  <2>1. ASSUME NEW d \in Cases, InReprocessing(d)'
        PROVE  Tended(d)' \/ d \in stranded'
    BY <1>0, <1>4, <2>1
       DEF ReadForClaim, CustodyInv, InReprocessing, Tended, HeldByAuto, TypeOK, Moves
  <2>. QED
    BY <1>0, <1>4, <2>1 DEF ReadForClaim, CustodyInv
<1>5. ASSUME NEW p \in Clients, CommitClaim(p)
      PROVE  CustodyInv'
  <2> DEFINE seen == client[p].seen
             new == [status |-> "REPROCESSING", outcome |-> None, risk |-> None,
                     reason |-> None, closed |-> FALSE]
  <2>1. client[p].case \in Cases /\ seen \in Row /\ new \in Row
    BY <1>0, <1>5, ClientShape DEF CommitClaim, Row, Statuses
  <2>2. ASSUME NEW c \in Cases, InReprocessing(c)'
        PROVE  Tended(c)' \/ c \in stranded'
    <3>1. CASE c = client[p].case /\ seen.status # "REPROCESSING"
      <4>1. client'[p].pc = "claimed" /\ Moves(client'[p].job, c)
        BY <1>0, <1>5, <3>1 DEF CommitClaim, TypeOK, Moves
      <4>. QED
        BY <4>1 DEF Tended, Moves
    <3>2. CASE c # client[p].case \/ seen.status = "REPROCESSING"
      <4>1. rows'[c].status = rows[c].status
        BY <1>0, <1>5, <2>1, <3>2, FlushStatus DEF CommitClaim, TypeOK
      <4>2. Tended(c) \/ c \in stranded
        BY <2>2, <4>1 DEF CustodyInv, InReprocessing
      <4>3. Tended(c) => Tended(c)'
        BY <1>0, <1>5 DEF CommitClaim, TypeOK, Tended, HeldByAuto, Moves
      <4>. QED
        BY <1>5, <2>2, <4>2, <4>3 DEF CommitClaim, Stranding, InReprocessing
    <3>. QED
      BY <3>1, <3>2
  <2>. QED
    BY <1>0, <1>5, <2>2 DEF CommitClaim, CustodyInv
<1>6. ASSUME NEW p \in Clients, SubmitClaim(p)
      PROVE  CustodyInv'
  <2>1. client[p].job \in Job
    BY <1>0, <1>6, ClientShape DEF SubmitClaim
  <2>2. /\ Len(queue') = Len(queue) + 1
        /\ \A i \in 1..Len(queue) : queue'[i] = queue[i]
        /\ queue'[Len(queue) + 1] = client[p].job
        /\ Len(queue) \in Nat
    BY <1>0, <1>6, <2>1 DEF SubmitClaim, TypeOK
  <2>3. ASSUME NEW c \in Cases, InReprocessing(c)'
        PROVE  Tended(c)' \/ c \in stranded'
    <3>1. Tended(c) \/ c \in stranded
      BY <1>6, <2>3 DEF SubmitClaim, CustodyInv, InReprocessing
    <3>2. CASE \E i \in 1..Len(queue) : Moves(queue[i], c)
      BY <2>2, <3>2 DEF Tended, Moves
    <3>3. CASE Moves(client[p].job, c)
      <4>1. Len(queue) + 1 \in 1..Len(queue') /\ Moves(queue'[Len(queue) + 1], c)
        BY <2>2, <3>3
      <4>2. \E i \in 1..Len(queue') : Moves(queue'[i], c)
        BY <4>1
      <4>. QED
        BY <4>2 DEF Tended, Moves
    <3>4. CASE /\ Tended(c)
               /\ ~(\E i \in 1..Len(queue) : Moves(queue[i], c))
               /\ ~Moves(client[p].job, c)
      BY <1>0, <1>6, <3>4 DEF SubmitClaim, TypeOK, Tended, HeldByAuto, Moves
    <3>. QED
      BY <1>6, <3>1, <3>2, <3>3, <3>4 DEF SubmitClaim
  <2>. QED
    BY <1>0, <1>6, <2>3 DEF SubmitClaim, CustodyInv
<1>7. ASSUME NEW p \in Clients, NEW c \in Cases, NEW form \in ReviewForms,
             ReadForReview(p, c, form)
      PROVE  CustodyInv'
  <2>1. ASSUME NEW d \in Cases, InReprocessing(d)'
        PROVE  Tended(d)' \/ d \in stranded'
    BY <1>0, <1>7, <2>1
       DEF ReadForReview, CustodyInv, InReprocessing, Tended, HeldByAuto, TypeOK, Moves
  <2>. QED
    BY <1>0, <1>7, <2>1 DEF ReadForReview, CustodyInv
<1>8. ASSUME NEW p \in Clients, CommitReview(p)
      PROVE  CustodyInv'
  <2> DEFINE seen == client[p].seen
             form == client[p].form
  <2>1. client[p].case \in Cases /\ seen \in Row /\ form \in ReviewForm
    BY <1>0, <1>8, ClientShape DEF CommitReview
  <2>2. ASSUME NEW c \in Cases, InReprocessing(c)'
        PROVE  Tended(c)' \/ c \in stranded'
    <3>1. CASE InReprocessing(c)
      <4>1. Tended(c) \/ c \in stranded
        BY <3>1 DEF CustodyInv
      <4>2. Tended(c) => Tended(c)'
        BY <1>0, <1>8 DEF CommitReview, TypeOK, Tended, HeldByAuto, Moves
      <4>. QED
        BY <1>8, <2>2, <4>1, <4>2 DEF CommitReview, Stranding, InReprocessing
    <3>2. CASE ~InReprocessing(c)
      <4>1. c = client[p].case
        BY <1>0, <1>8, <2>2, <3>2 DEF CommitReview, TypeOK, InReprocessing
      <4>2. rows'[c].status = Flush(rows[c], seen, Reviewed(seen, form)).status
        BY <1>0, <1>8, <4>1 DEF CommitReview, TypeOK
      <4>3. Reviewed(seen, form).status = "REPROCESSING"
        <5>1. rows[c] \in Row /\ Reviewed(seen, form) \in Row
          BY <1>0, <2>1, ReviewedType DEF TypeOK
        <5>2. Flush(rows[c], seen, Reviewed(seen, form)).status =
                 IF Reviewed(seen, form).status = seen.status THEN rows[c].status
                 ELSE Reviewed(seen, form).status
          BY <2>1, <5>1, FlushStatus
        <5>. QED
          BY <2>2, <3>2, <4>2, <5>2 DEF InReprocessing
      <4>4. form.action = "reprocess_requested"
        BY <2>1, <4>3 DEF Reviewed, Row, Statuses
      <4>. QED
        BY <1>8, <2>2, <3>2, <4>1, <4>4 DEF CommitReview, Stranding, InReprocessing
    <3>. QED
      BY <3>1, <3>2
  <2>. QED
    BY <1>0, <1>8, <2>2 DEF CommitReview, CustodyInv
<1>9. CASE FetchJob
  <2>1. /\ Len(queue) \in Nat \ {0}
        /\ Len(queue') = Len(queue) - 1
        /\ \A i \in 1..Len(queue') : queue'[i] = queue[i + 1]
        /\ worker' = [pc |-> "fetched", job |-> queue[1]]
    BY <1>0, <1>9 DEF FetchJob, TypeOK
  <2>2. ASSUME NEW c \in Cases, InReprocessing(c)'
        PROVE  Tended(c)' \/ c \in stranded'
    <3>1. Tended(c) \/ c \in stranded
      BY <1>9, <2>2 DEF FetchJob, CustodyInv, InReprocessing
    <3>2. ASSUME NEW i \in 1..Len(queue), Moves(queue[i], c)
          PROVE  Tended(c)'
      <4>1. CASE i = 1
        BY <2>1, <3>2, <4>1 DEF Tended, Moves
      <4>2. CASE i # 1
        <5>1. i - 1 \in 1..Len(queue') /\ Moves(queue'[i - 1], c)
          BY <2>1, <3>2, <4>2
        <5>2. \E k \in 1..Len(queue') : Moves(queue'[k], c)
          BY <5>1
        <5>. QED
          BY <5>2 DEF Tended, Moves
      <4>. QED
        BY <4>1, <4>2
    <3>3. CASE Tended(c) /\ ~(\E i \in 1..Len(queue) : Moves(queue[i], c))
      BY <1>9, <3>3 DEF FetchJob, Tended, HeldByAuto, Moves
    <3>. QED
      BY <1>9, <3>1, <3>2, <3>3 DEF FetchJob
  <2>. QED
    BY <1>0, <1>9, <2>2 DEF FetchJob, CustodyInv
<1>10. CASE LoadCase
  <2>1. ASSUME NEW c \in Cases, InReprocessing(c)'
        PROVE  Tended(c)' \/ c \in stranded'
    BY <1>10, <2>1 DEF LoadCase, CustodyInv, InReprocessing, Tended, HeldByAuto, Moves
  <2>. QED
    BY <1>0, <1>10, <2>1 DEF LoadCase, CustodyInv
<1>11. CASE CloseInvalid
  <2> DEFINE new == [worker.seen EXCEPT !.outcome = "INVALID_VIDEO",
                                        !.status = "CLOSED", !.reason = "no_footage"]
  <2>1. worker.job.case \in Cases /\ worker.seen \in Row /\ new \in Row
    BY <1>0, <1>11, WorkerShape DEF CloseInvalid, Job, Row, Statuses, Outcomes, Reasons
  <2>2. ASSUME NEW c \in Cases, InReprocessing(c)'
        PROVE  Tended(c)' \/ c \in stranded'
    <3>1. CASE c = worker.job.case
      <4>1. rows[c] \in Row /\ new.status = "CLOSED"
        BY <1>0, <2>1 DEF TypeOK, Row
      <4>2. rows'[c] = Stamped(Flush(rows[c], worker.seen, new))
        BY <1>0, <1>11, <3>1 DEF CloseInvalid, TypeOK
      <4>3. rows[c].status = "REPROCESSING" /\ worker.seen.status # "REPROCESSING"
        BY <2>1, <2>2, <4>1, <4>2, ClosingFlush DEF InReprocessing
      <4>4. Tended(c) \/ c \in stranded
        BY <4>3 DEF CustodyInv, InReprocessing
      <4>5. Tended(c) => Tended(c)'
        BY <1>11, <4>3 DEF CloseInvalid, Tended, HeldByAuto, Moves
      <4>. QED
        BY <1>11, <2>2, <4>4, <4>5 DEF CloseInvalid, Stranding, InReprocessing
    <3>2. CASE c # worker.job.case
      <4>1. Tended(c) \/ c \in stranded
        BY <1>0, <1>11, <2>2, <3>2 DEF CloseInvalid, CustodyInv, InReprocessing, TypeOK
      <4>2. Tended(c) => Tended(c)'
        BY <1>11, <3>2, TendedElsewhere DEF CloseInvalid, Moves
      <4>. QED
        BY <1>11, <2>2, <4>1, <4>2 DEF CloseInvalid, Stranding, InReprocessing
    <3>. QED
      BY <3>1, <3>2
  <2>. QED
    BY <1>0, <1>11, <2>2 DEF CloseInvalid, CustodyInv, Idle
<1>12. CASE AcquireWindow
  <2>1. worker'.pc = "analysing" /\ worker'.job = worker.job /\ worker'.seen = worker.seen
    BY <1>0, <1>12 DEF AcquireWindow, TypeOK, WorkerStates
  <2>2. ASSUME NEW c \in Cases, InReprocessing(c)'
        PROVE  Tended(c)' \/ c \in stranded'
    BY <1>12, <2>1, <2>2 DEF AcquireWindow, CustodyInv, InReprocessing, Tended, HeldByAuto, Moves
  <2>. QED
    BY <1>0, <1>12, <2>1, <2>2 DEF AcquireWindow, CustodyInv
<1>13. ASSUME NEW d \in Decisions, Decide(d)
       PROVE  CustodyInv'
  <2> DEFINE new == [worker.seen EXCEPT !.outcome = d.outcome, !.risk = d.risk,
                                        !.status = "CLOSED"]
  <2>1. worker.job.case \in Cases /\ worker.seen \in Row
    BY <1>0, <1>13, WorkerShape DEF Decide, Job
  <2>2. new \in Row /\ new.status = "CLOSED"
    BY <2>1, DecisionsAssumption DEF Row, Statuses
  <2>3. ASSUME NEW c \in Cases, InReprocessing(c)'
        PROVE  Tended(c)' \/ c \in stranded'
    <3>1. CASE c = worker.job.case
      <4>1. rows[c] \in Row
        BY <1>0 DEF TypeOK
      <4>2. rows'[c] = Stamped(Flush(rows[c], worker.seen, new))
        BY <1>0, <1>13, <3>1 DEF Decide, TypeOK
      <4>3. rows[c].status = "REPROCESSING" /\ worker.seen.status # "REPROCESSING"
        BY <2>1, <2>2, <2>3, <4>1, <4>2, ClosingFlush DEF InReprocessing
      <4>4. Tended(c) \/ c \in stranded
        BY <4>3 DEF CustodyInv, InReprocessing
      <4>5. Tended(c) => Tended(c)'
        BY <1>13, <4>3 DEF Decide, Tended, HeldByAuto, Moves
      <4>. QED
        BY <1>13, <2>3, <4>4, <4>5 DEF Decide, Stranding, InReprocessing
    <3>2. CASE c # worker.job.case
      <4>1. Tended(c) \/ c \in stranded
        BY <1>0, <1>13, <2>3, <3>2 DEF Decide, CustodyInv, InReprocessing, TypeOK
      <4>2. Tended(c) => Tended(c)'
        BY <1>13, <3>2, TendedElsewhere DEF Decide, Moves
      <4>. QED
        BY <1>13, <2>3, <4>1, <4>2 DEF Decide, Stranding, InReprocessing
    <3>. QED
      BY <3>1, <3>2
  <2>. QED
    BY <1>0, <1>13, <2>3 DEF Decide, CustodyInv, Idle
<1>14. CASE AnalysisRaises
  <2>1. ASSUME NEW c \in Cases, InReprocessing(c)'
        PROVE  Tended(c)' \/ c \in stranded'
    BY <1>14, <2>1 DEF AnalysisRaises, CustodyInv, InReprocessing, Tended, HeldByAuto, Moves
  <2>. QED
    BY <1>0, <1>14, <2>1 DEF AnalysisRaises, CustodyInv
<1>15. CASE ReadForRestore
  <2>1. ASSUME NEW c \in Cases, InReprocessing(c)'
        PROVE  Tended(c)' \/ c \in stranded'
    <3>1. Tended(c) \/ c \in stranded
      BY <1>15, <2>1 DEF ReadForRestore, CustodyInv, InReprocessing
    <3>2. CASE Moves(worker.job, c)
      <4>1. StillClaimed(rows[worker.job.case])
        BY <1>15, <2>1, <3>2 DEF ReadForRestore, InReprocessing, StillClaimed, Moves
      <4>. QED
        BY <1>15, <3>2, <4>1 DEF ReadForRestore, Tended, Moves
    <3>3. CASE ~Moves(worker.job, c)
      BY <1>15, <3>1, <3>3, TendedElsewhere DEF ReadForRestore
    <3>. QED
      BY <3>2, <3>3
  <2>2. worker'.pc = "restoring" => worker'.seen.status = "REPROCESSING"
    BY <1>15 DEF ReadForRestore, StillClaimed, Idle
  <2>. QED
    BY <1>0, <1>15, <2>1, <2>2 DEF ReadForRestore, CustodyInv
<1>16. CASE CommitRestore
  <2> DEFINE new == Restored(worker.seen, worker.job.prior)
  <2>1. worker.job.case \in Cases /\ worker.seen \in Row /\ worker.job.prior \in Row
    BY <1>0, <1>16, WorkerShape DEF CommitRestore, Job
  <2>2. new \in Row /\ new.status = worker.job.prior.status
    BY <2>1, RestoredType
  <2>3. worker.seen.status = "REPROCESSING"
    BY <1>16 DEF CommitRestore, CustodyInv
  <2>4. ASSUME NEW c \in Cases, InReprocessing(c)'
        PROVE  Tended(c)' \/ c \in stranded'
    <3>1. ~Moves(worker.job, c) /\ InReprocessing(c)
      <4>1. CASE c = worker.job.case
        <5>1. rows'[c] = Flush(rows[c], worker.seen, new) /\ rows[c] \in Row
          BY <1>0, <1>16, <4>1 DEF CommitRestore, TypeOK
        <5>2. new.status = "REPROCESSING"
          BY <2>1, <2>2, <2>3, <2>4, <5>1, FlushStatus DEF InReprocessing
        <5>. QED
          BY <2>1, <2>2, <2>3, <2>4, <5>1, <5>2, FlushStatus DEF InReprocessing, Moves
      <4>2. CASE c # worker.job.case
        BY <1>0, <1>16, <2>4, <4>2 DEF CommitRestore, TypeOK, InReprocessing, Moves
      <4>. QED
        BY <4>1, <4>2
    <3>2. Tended(c) \/ c \in stranded
      BY <3>1 DEF CustodyInv
    <3>3. Tended(c) => Tended(c)'
      BY <1>16, <3>1, TendedElsewhere DEF CommitRestore
    <3>. QED
      BY <1>16, <2>4, <3>2, <3>3 DEF CommitRestore, Stranding, InReprocessing
  <2>. QED
    BY <1>0, <1>16, <2>4 DEF CommitRestore, CustodyInv, Idle
<1>17. CASE HandlerLost
  <2>1. ASSUME NEW c \in Cases, InReprocessing(c)'
        PROVE  Tended(c)' \/ c \in stranded'
    <3>1. CASE c = worker.job.case
      BY <1>17, <2>1, <3>1 DEF HandlerLost, RestoreLost, Stranding, InReprocessing
    <3>2. CASE c # worker.job.case
      <4>1. Tended(c) \/ c \in stranded
        BY <1>17, <2>1 DEF HandlerLost, RestoreLost, CustodyInv, InReprocessing
      <4>2. Tended(c) => Tended(c)'
        BY <1>17, <3>2, TendedElsewhere DEF HandlerLost, RestoreLost, Moves
      <4>. QED
        BY <1>17, <2>1, <4>1, <4>2 DEF HandlerLost, RestoreLost, Stranding, InReprocessing
    <3>. QED
      BY <3>1, <3>2
  <2>. QED
    BY <1>0, <1>17, <2>1 DEF HandlerLost, RestoreLost, CustodyInv, Idle
<1>18. CASE Restart
  <2>1. ASSUME NEW c \in Cases, InReprocessing(c)'
        PROVE  c \in stranded'
    BY <1>18, <2>1 DEF Restart, Stranding, InReprocessing
  <2>. QED
    BY <1>0, <1>18, <2>1 DEF Restart, CustodyInv, Idle
<1>19. CASE UNCHANGED vars
  <2>1. ASSUME NEW c \in Cases, InReprocessing(c)'
        PROVE  Tended(c)' \/ c \in stranded'
    BY <1>19, <2>1 DEF vars, CustodyInv, InReprocessing, Tended, HeldByAuto, Moves
  <2>. QED
    BY <1>0, <1>19, <2>1 DEF vars, CustodyInv
<1>. QED
  BY <1>1, <1>2, <1>3, <1>4, <1>5, <1>6, <1>7, <1>8, <1>9, <1>10, <1>11, <1>12,
     <1>13, <1>14, <1>15, <1>16, <1>17, <1>18, <1>19
     DEF Next, AutoStep, WorkerStep, ClientBegin, ClientFinish

\* Initially every case is OPEN and nothing is in progress.
LEMMA CustodyInit == Init => CustodyInv
<1> SUFFICES ASSUME Init PROVE CustodyInv
  OBVIOUS
<1>1. TypeOK
  BY TypeInit
<1>. QED
  BY <1>1 DEF Init, CustodyInv, InReprocessing, Idle

\* A work item that moves a case is a pending work item of the case.
LEMMA TendedPending ==
    ASSUME NEW c \in Cases, Tended(c)
    PROVE  Pending(c)
BY DEF Tended, Pending, Moves, QueuedFor, HeldBy, WorkedOn

\* The inductive invariant holds of every behaviour.
THEOREM CustodyInvariant == Spec => []CustodyInv
BY CustodyInit, CustodyStep, PTL DEF Spec

\* A case shows REPROCESSING only while work for it is on its way to the worker,
\* or after one of the steps that set the status and queue nothing.
THEOREM CustodyKept == Spec => []Custody
<1>1. CustodyInv => Custody
  BY TendedPending DEF CustodyInv, Custody
<1>. QED
  BY <1>1, CustodyInvariant, PTL

-----------------------------------------------------------------------------
(***************************************************************************)
(* CaseLifecycle without clicks: only the auto-analyzer, the pool and      *)
(* restarts, for any cases, decisions, batch and bounds.                   *)
(*                                                                         *)
(* DeskInv says where the work item of a case may be: a case is in at most *)
(* one of the auto-analyzer's batch, the queue and the worker's hands; it  *)
(* shows REPROCESSING there (OPEN, as long as the batch is only selected), *)
(* and the worker's reading of its row is still what is committed.  A row  *)
(* is not read once more after it is closed.                               *)
(*                                                                         *)
(* From it follow: no case is picked up twice, a verdict has its package,  *)
(* the backlog is bounded (with what RoomInv and KeptInv add) and the      *)
(* refinement of CaseDesk's safety part (with BatchInv).                   *)
(***************************************************************************)

NoClicks == Clients = {}

\* Reviewers aside, a row that is not closed has no verdict.
OpenRow(row) ==
    /\ row.status \in {"OPEN", "REPROCESSING", "CLOSED"}
    /\ row.status # "CLOSED" => row.outcome = None /\ row.reason # "no_footage"

\* A work item was claimed from an open case.
FromOpen(job) == job.prior.status = "OPEN" /\ job.prior.outcome = None

QueueOnce ==
    /\ \A i \in 1..Len(queue) : FromOpen(queue[i]) /\ InReprocessing(queue[i].case)
    /\ \A i, j \in 1..Len(queue) : queue[i].case = queue[j].case => i = j

Unqueued(c) == \A i \in 1..Len(queue) : queue[i].case # c

AutoOnce ==
    auto.pc # "idle" =>
        /\ \A j, k \in auto.jobs : j.case = k.case => j = k
        /\ \A j \in auto.jobs :
            /\ FromOpen(j)
            /\ auto.pc = "selected" => rows[j.case].status = "OPEN"
            /\ auto.pc = "claimed" => InReprocessing(j.case) /\ Unqueued(j.case)

WorkerOnce ==
    worker.pc # "idle" =>
        /\ FromOpen(worker.job)
        /\ InReprocessing(worker.job.case)
        /\ Unqueued(worker.job.case)
        /\ auto.pc = "claimed" => \A j \in auto.jobs : j.case # worker.job.case
        /\ worker.pc \in {"window", "analysing", "restoring"} =>
              worker.seen = rows[worker.job.case]
        /\ worker.pc = "analysing" => window[worker.job.case] = "SUCCEEDED"

DeskInv ==
    /\ TypeOK
    /\ \A c \in Cases : OpenRow(rows[c])
    /\ QueueOnce /\ AutoOnce /\ WorkerOnce
    /\ ClosedVerdictPackaged

-----------------------------------------------------------------------------
(* What a run reads of its row is what it writes back to.                  *)

\* A session that nobody overtook writes what it assigned.
LEMMA FlushSame ==
    ASSUME NEW a \in Row, NEW n \in Row
    PROVE  Flush(a, a, n) = n
BY DEF Flush, NetColumn, Row

\* The worker's job is one.
LEMMA WorkerCase ==
    ASSUME DeskInv, worker.pc # "idle"
    PROVE  worker.job.case \in Cases /\ worker.job \in Job
BY WorkerShape DEF DeskInv, Job

\* The row of a case without footage.
LEMMA CloseWrites ==
    ASSUME DeskInv, CloseInvalid
    PROVE  \E new \in Row :
              /\ rows' = [rows EXCEPT ![worker.job.case] = new]
              /\ new.status = "CLOSED" /\ new.outcome = "INVALID_VIDEO"
              /\ new.reason = "no_footage"
<1> DEFINE c == worker.job.case
           assigned == [worker.seen EXCEPT !.outcome = "INVALID_VIDEO",
                                    !.status = "CLOSED", !.reason = "no_footage"]
<1>1. c \in Cases /\ rows[c] \in Row /\ worker.seen = rows[c]
  BY WorkerCase DEF CloseInvalid, DeskInv, WorkerOnce, TypeOK
<1>2. /\ assigned \in Row /\ assigned.status = "CLOSED"
      /\ assigned.outcome = "INVALID_VIDEO" /\ assigned.reason = "no_footage"
  BY <1>1 DEF Row, Statuses, Outcomes, Reasons
<1>3. rows' = [rows EXCEPT ![c] = Stamped(Flush(@, worker.seen, assigned))]
  BY DEF CloseInvalid
<1>. HIDE DEF assigned
<1>4. rows' = [rows EXCEPT ![c] = Stamped(assigned)]
  BY <1>1, <1>2, <1>3, FlushSame
<1>5. /\ Stamped(assigned) \in Row /\ Stamped(assigned).status = "CLOSED"
      /\ Stamped(assigned).outcome = "INVALID_VIDEO"
      /\ Stamped(assigned).reason = "no_footage"
  BY <1>2 DEF Stamped, Row
<1>. QED
  BY <1>4, <1>5

\* The row of a decided case.
LEMMA DecideWrites ==
    ASSUME DeskInv, NEW d \in Decisions, Decide(d)
    PROVE  \E new \in Row :
              /\ rows' = [rows EXCEPT ![worker.job.case] = new]
              /\ new.status = "CLOSED" /\ new.outcome = d.outcome
              /\ new.reason # "no_footage"
<1> DEFINE c == worker.job.case
           assigned == [worker.seen EXCEPT !.outcome = d.outcome, !.risk = d.risk,
                                           !.status = "CLOSED"]
<1>1. c \in Cases /\ rows[c] \in Row /\ worker.seen = rows[c]
  BY WorkerCase DEF Decide, DeskInv, WorkerOnce, TypeOK
<1>2. rows[c].reason # "no_footage"
  BY <1>1 DEF Decide, DeskInv, WorkerOnce, OpenRow, InReprocessing
<1>3. d.outcome \in Outcomes /\ d.risk \in Risks
  BY DecisionsAssumption
<1>4. /\ assigned \in Row /\ assigned.status = "CLOSED"
      /\ assigned.outcome = d.outcome /\ assigned.reason # "no_footage"
  BY <1>1, <1>2, <1>3 DEF Row, Statuses
<1>5. rows' = [rows EXCEPT ![c] = Stamped(Flush(@, worker.seen, assigned))]
  BY DEF Decide
<1>. HIDE DEF assigned
<1>6. rows' = [rows EXCEPT ![c] = Stamped(assigned)]
  BY <1>1, <1>4, <1>5, FlushSame
<1>7. /\ Stamped(assigned) \in Row /\ Stamped(assigned).status = "CLOSED"
      /\ Stamped(assigned).outcome = d.outcome
      /\ Stamped(assigned).reason # "no_footage"
  BY <1>4 DEF Stamped, Row
<1>. QED
  BY <1>6, <1>7

\* The rows after a decision.
LEMMA DecideRows ==
    ASSUME DeskInv, NEW d \in Decisions, Decide(d), worker.pc # "idle"
    PROVE  /\ rows'[worker.job.case].status = "CLOSED"
           /\ \A c \in Cases : c # worker.job.case => rows'[c] = rows[c]
<1>1. PICK new \in Row : rows' = [rows EXCEPT ![worker.job.case] = new] /\ new.status = "CLOSED"
  BY DecideWrites
<1>. QED
  BY <1>1, WorkerCase DEF DeskInv, TypeOK

\* What else a decision changes.
LEMMA DecideElse ==
    ASSUME NEW d, Decide(d)
    PROVE  /\ worker.pc = "analysing" /\ worker' = Idle
           /\ package' = [package EXCEPT ![worker.job.case] = d.outcome]
           /\ UNCHANGED <<window, queue, auto, client>>
BY ZenonT(30) DEF Decide, WritePackage

\* The row of a case whose analysis failed.
LEMMA RestoreWrites ==
    ASSUME DeskInv, CommitRestore
    PROVE  \E new \in Row :
              /\ rows' = [rows EXCEPT ![worker.job.case] = new]
              /\ new.status = "OPEN" /\ new.outcome = None
              /\ new.reason # "no_footage"
<1> DEFINE c == worker.job.case
           assigned == Restored(worker.seen, worker.job.prior)
<1>1. c \in Cases /\ rows[c] \in Row /\ worker.seen = rows[c] /\ worker.job.prior \in Row
  BY WorkerCase DEF CommitRestore, DeskInv, WorkerOnce, TypeOK, Job
<1>2. FromOpen(worker.job)
  BY DEF CommitRestore, DeskInv, WorkerOnce
<1>3. /\ assigned \in Row /\ assigned.status = "OPEN"
      /\ assigned.outcome = None /\ assigned.reason # "no_footage"
  BY <1>1, <1>2 DEF Restored, FromOpen, Row, Reasons
<1>4. rows' = [rows EXCEPT ![c] = Flush(@, worker.seen, assigned)]
  BY DEF CommitRestore
<1>. HIDE DEF assigned
<1>5. rows' = [rows EXCEPT ![c] = assigned]
  BY <1>1, <1>3, <1>4, FlushSame
<1>. QED
  BY <1>3, <1>5

\* Work items are of cases.
LEMMA WorkItems ==
    ASSUME DeskInv
    PROVE  /\ Len(queue) \in Nat
           /\ \A i \in 1..Len(queue) : queue[i].case \in Cases
           /\ auto.pc # "idle" => \A j \in auto.jobs : j.case \in Cases
<1>1. queue \in Seq(Job) /\ auto \in AutoStates
  BY DEF DeskInv, TypeOK
<1>2. \A i \in 1..Len(queue) : queue[i] \in Job
  BY <1>1
<1>. QED
  BY <1>1, <1>2 DEF Job, AutoStates

\* A claim takes the selected cases, which are open, and no other.
LEMMA ClaimRows ==
    ASSUME DeskInv, AutoClaim
    PROVE  /\ \A j \in auto.jobs : j.case \in Cases
           /\ \A j \in auto.jobs :
                /\ rows[j.case].status = "OPEN" /\ rows'[j.case].status = "REPROCESSING"
                /\ rows'[j.case].outcome = rows[j.case].outcome
                /\ rows'[j.case].reason = rows[j.case].reason
           /\ \A c \in Cases : (\A j \in auto.jobs : j.case # c) => rows'[c] = rows[c]
<1>1. auto.pc = "selected" /\ auto.jobs \in SUBSET Job
  BY DEF AutoClaim, DeskInv, TypeOK, AutoStates
<1>2. \A j \in auto.jobs : j.case \in Cases
  BY <1>1 DEF Job
<1>3. \A j \in auto.jobs : rows[j.case].status = "OPEN"
  BY <1>1 DEF DeskInv, AutoOnce
<1>4. rows' = [c \in Cases |-> IF \E j \in auto.jobs : j.case = c
                               THEN [rows[c] EXCEPT !.status = "REPROCESSING"]
                               ELSE rows[c]]
  BY DEF AutoClaim
<1>5. ASSUME NEW j \in auto.jobs
      PROVE  /\ rows'[j.case].status = "REPROCESSING"
             /\ rows'[j.case].outcome = rows[j.case].outcome
             /\ rows'[j.case].reason = rows[j.case].reason
  <2>1. rows'[j.case] = [rows[j.case] EXCEPT !.status = "REPROCESSING"]
    BY <1>2, <1>4
  <2>2. rows[j.case] \in Row
    BY <1>2 DEF DeskInv, TypeOK
  <2>. QED
    BY <2>1, <2>2 DEF Row
<1>6. \A c \in Cases : (\A j \in auto.jobs : j.case # c) => rows'[c] = rows[c]
  BY <1>4
<1>. QED
  BY <1>2, <1>3, <1>5, <1>6

\* What a claim leaves alone.
LEMMA ClaimElse ==
    ASSUME AutoClaim
    PROVE  /\ auto.pc = "selected" /\ auto'.pc = "claimed" /\ auto'.jobs = auto.jobs
           /\ UNCHANGED <<window, package, queue, worker, client>>
BY DEF AutoClaim

\* The worker takes the first of the queue.
LEMMA Fetched ==
    ASSUME DeskInv, FetchJob
    PROVE  /\ worker.pc = "idle" /\ worker'.pc = "fetched" /\ worker'.job = queue[1]
           /\ Len(queue) \in Nat /\ Len(queue) >= 1 /\ Len(queue') = Len(queue) - 1
           /\ \A i \in 1..Len(queue') : i + 1 \in 1..Len(queue) /\ queue'[i] = queue[i + 1]
           /\ UNCHANGED <<rows, window, package, auto, client>>
<1>1. queue \in Seq(Job) /\ queue # <<>>
  BY DEF FetchJob, DeskInv, TypeOK
<1>2. queue' = Tail(queue) /\ worker' = [pc |-> "fetched", job |-> queue[1]]
  BY <1>1 DEF FetchJob
<1>3. /\ Len(queue) \in Nat /\ Len(queue) >= 1 /\ Len(queue') = Len(queue) - 1
      /\ \A i \in 1..Len(queue') : i + 1 \in 1..Len(queue) /\ queue'[i] = queue[i + 1]
  BY <1>1, <1>2
<1>. QED
  BY <1>2, <1>3 DEF FetchJob

\* The auto-analyzer selects open cases.
LEMMA Selected ==
    ASSUME DeskInv, AutoSelect
    PROVE  /\ auto.pc = "idle" /\ auto'.pc = "selected"
           /\ \A j \in auto'.jobs : j.case \in OpenCases /\ j.prior = rows[j.case]
           /\ \A j, k \in auto'.jobs : j.case = k.case => j = k
           /\ UNCHANGED <<rows, window, package, queue, worker, client>>
<1>1. PICK picked \in SUBSET OpenCases :
          auto' = [pc |-> "selected",
                   jobs |-> {[case |-> c, prior |-> rows[c]] : c \in picked}]
  BY DEF AutoSelect
<1>2. \A j \in auto'.jobs : \E c \in OpenCases : j = [case |-> c, prior |-> rows[c]]
  BY <1>1
<1>3. \A j \in auto'.jobs :
        j.case \in OpenCases /\ j = [case |-> j.case, prior |-> rows[j.case]]
  BY <1>2
<1>. QED
  BY <1>1, <1>3 DEF AutoSelect

-----------------------------------------------------------------------------
(* Steps preserve the parts of the invariant.                              *)

\* A case that is not closed has no verdict.
LEMMA RowsStep == NoClicks /\ DeskInv /\ [Next]_vars => \A c \in Cases : OpenRow(rows[c])'
<1> SUFFICES ASSUME NoClicks, DeskInv, [Next]_vars
             PROVE  \A c \in Cases : OpenRow(rows[c])'
  OBVIOUS
<1>1. CASE AutoSelect
  BY <1>1, Selected DEF DeskInv, OpenRow, OpenCases
<1>2. CASE AutoClaim
  BY <1>2, ClaimRows, ClaimElse DEF DeskInv, OpenRow
<1>3. CASE AutoSubmit
  BY <1>3, WorkerCase DEF AutoSubmit, Idle, OpenRow, DeskInv, TypeOK, InReprocessing
<1>4. CASE FetchJob
  BY <1>4, Fetched DEF DeskInv, OpenRow
<1>5. CASE LoadCase
  BY <1>5, WorkerCase DEF LoadCase, OpenRow, DeskInv, TypeOK, InReprocessing
<1>6. CASE CloseInvalid
  BY <1>6, WorkerCase, CloseWrites DEF CloseInvalid, Idle, OpenRow, DeskInv, TypeOK,
     InReprocessing
<1>7. CASE AcquireWindow
  BY <1>7, WorkerCase DEF AcquireWindow, OpenRow, DeskInv, TypeOK, InReprocessing
<1>8. ASSUME NEW d \in Decisions, Decide(d)
      PROVE  \A c \in Cases : OpenRow(rows[c])'
  BY <1>8, WorkerCase, WorkItems, DecideRows, DecideElse DEF DeskInv, OpenRow, Idle
<1>9. CASE AnalysisRaises
  BY <1>9, WorkerCase DEF AnalysisRaises, OpenRow, DeskInv, TypeOK, InReprocessing
<1>10. CASE ReadForRestore
  BY <1>10, WorkerCase DEF ReadForRestore, StillClaimed, Idle, OpenRow, DeskInv,
     TypeOK, InReprocessing
<1>11. CASE CommitRestore
  BY <1>11, WorkerCase, RestoreWrites DEF CommitRestore, Idle, OpenRow, DeskInv,
     TypeOK, InReprocessing
<1>12. CASE HandlerLost
  BY <1>12, WorkerCase DEF HandlerLost, RestoreLost, Idle, OpenRow, DeskInv, TypeOK, InReprocessing
<1>13. CASE Restart
  BY <1>13, WorkerCase DEF Restart, Idle, Recovered, OpenRow, DeskInv, TypeOK,
     InReprocessing
<1>14. CASE UNCHANGED vars
  BY <1>14 DEF vars, OpenRow, DeskInv, TypeOK, InReprocessing
<1>. QED
  BY <1>1, <1>2, <1>3, <1>4, <1>5, <1>6, <1>7, <1>8, <1>9, <1>10, <1>11, <1>12, <1>13,
     <1>14 DEF NoClicks, Next, AutoStep, WorkerStep

\* Cases are queued once, and claimed then.
LEMMA QueueStep == NoClicks /\ DeskInv /\ [Next]_vars => QueueOnce'
<1> SUFFICES ASSUME NoClicks, DeskInv, [Next]_vars
             PROVE  QueueOnce'
  OBVIOUS
<1>1. CASE AutoSelect
  BY <1>1, Selected DEF DeskInv, QueueOnce, WorkerOnce, Unqueued, InReprocessing, Idle, OpenCases
<1>2. CASE AutoClaim
  <2>1. \A i \in 1..Len(queue) : InReprocessing(queue[i].case)'
    <3> SUFFICES ASSUME NEW i \in 1..Len(queue) PROVE InReprocessing(queue[i].case)'
      OBVIOUS
    <3>1. InReprocessing(queue[i].case) /\ queue[i].case \in Cases
      BY WorkItems DEF DeskInv, QueueOnce
    <3>2. CASE \E j \in auto.jobs : j.case = queue[i].case
      BY <1>2, <3>2, ClaimRows, ClaimElse DEF InReprocessing
    <3>3. CASE \A j \in auto.jobs : j.case # queue[i].case
      BY <1>2, <3>1, <3>3, ClaimRows, ClaimElse DEF InReprocessing
    <3>. QED
      BY <3>2, <3>3
  <2>2. UNCHANGED queue
    BY <1>2, ClaimElse
  <2>. QED
    BY <2>1, <2>2 DEF DeskInv, QueueOnce
<1>3. CASE AutoSubmit
  BY <1>3, WorkerCase DEF AutoSubmit, Idle, QueueOnce, FromOpen, WorkerOnce, AutoOnce,
     Unqueued, DeskInv, TypeOK, InReprocessing
<1>4. CASE FetchJob
  <2>1. UNCHANGED rows
    BY <1>4, Fetched
  <2>2. ASSUME NEW i \in 1..Len(queue')
        PROVE  FromOpen(queue[i])' /\ InReprocessing(queue[i].case)'
    <3>1. i + 1 \in 1..Len(queue) /\ queue'[i] = queue[i + 1]
      BY <1>4, Fetched
    <3>2. FromOpen(queue[i + 1]) /\ InReprocessing(queue[i + 1].case)
      BY <3>1 DEF DeskInv, QueueOnce
    <3>. QED
      BY <2>1, <3>1, <3>2 DEF FromOpen, InReprocessing
  <2>3. ASSUME NEW i \in 1..Len(queue'), NEW j \in 1..Len(queue'),
               queue'[i].case = queue'[j].case
        PROVE  i = j
    <3>1. queue[i + 1].case = queue[j + 1].case /\ i + 1 \in 1..Len(queue) /\ j + 1 \in 1..Len(queue)
      BY <1>4, <2>3, Fetched
    <3>2. i + 1 = j + 1
      BY <3>1 DEF DeskInv, QueueOnce
    <3>. QED
      BY <1>4, <3>2, Fetched
  <2>. QED
    BY <2>2, <2>3 DEF QueueOnce
<1>5. CASE LoadCase
  BY <1>5, WorkerCase DEF LoadCase, QueueOnce, FromOpen, WorkerOnce, AutoOnce,
     Unqueued, DeskInv, TypeOK, InReprocessing
<1>6. CASE CloseInvalid
  BY <1>6, WorkerCase, CloseWrites DEF CloseInvalid, Idle, QueueOnce, FromOpen,
     WorkerOnce, AutoOnce, Unqueued, DeskInv, TypeOK, InReprocessing
<1>7. CASE AcquireWindow
  BY <1>7, WorkerCase DEF AcquireWindow, QueueOnce, FromOpen, WorkerOnce, AutoOnce,
     Unqueued, DeskInv, TypeOK, InReprocessing
<1>8. ASSUME NEW d \in Decisions, Decide(d)
      PROVE  QueueOnce'
  BY <1>8, WorkerCase, WorkItems, DecideRows, DecideElse
     DEF DeskInv, QueueOnce, WorkerOnce, Unqueued, InReprocessing, Idle
<1>9. CASE AnalysisRaises
  BY <1>9, WorkerCase DEF AnalysisRaises, QueueOnce, FromOpen, WorkerOnce, AutoOnce,
     Unqueued, DeskInv, TypeOK, InReprocessing
<1>10. CASE ReadForRestore
  BY <1>10, WorkerCase DEF ReadForRestore, StillClaimed, Idle, QueueOnce, FromOpen,
     WorkerOnce, AutoOnce, Unqueued, DeskInv, TypeOK, InReprocessing
<1>11. CASE CommitRestore
  BY <1>11, WorkerCase, RestoreWrites DEF CommitRestore, Idle, QueueOnce, FromOpen,
     WorkerOnce, AutoOnce, Unqueued, DeskInv, TypeOK, InReprocessing
<1>12. CASE HandlerLost
  <2>1. UNCHANGED <<rows, queue>>
    BY <1>12 DEF HandlerLost, RestoreLost
  <2>. QED
    BY <2>1 DEF DeskInv, QueueOnce, FromOpen, InReprocessing
<1>13. CASE Restart
  BY <1>13, WorkerCase DEF Restart, Idle, QueueOnce, FromOpen, WorkerOnce, AutoOnce,
     Unqueued, DeskInv, TypeOK, InReprocessing
<1>14. CASE UNCHANGED vars
  BY <1>14 DEF vars, QueueOnce, FromOpen, WorkerOnce, AutoOnce, Unqueued, DeskInv,
     TypeOK, InReprocessing
<1>. QED
  BY <1>1, <1>2, <1>3, <1>4, <1>5, <1>6, <1>7, <1>8, <1>9, <1>10, <1>11, <1>12, <1>13,
     <1>14 DEF NoClicks, Next, AutoStep, WorkerStep

\* The auto-analyzer's batch is nobody else's.
LEMMA AutoStepOnce == NoClicks /\ DeskInv /\ [Next]_vars => AutoOnce'
<1> SUFFICES ASSUME NoClicks, DeskInv, [Next]_vars
             PROVE  AutoOnce'
  OBVIOUS
<1>1. CASE AutoSelect
  BY <1>1, Selected
     DEF DeskInv, AutoOnce, WorkerOnce, Unqueued, InReprocessing, FromOpen, OpenRow, TypeOK,
         Idle, OpenCases
<1>2. CASE AutoClaim
  <2>1. UNCHANGED <<worker, queue>> /\ auto'.pc = "claimed" /\ auto'.jobs = auto.jobs
    BY <1>2, ClaimElse
  <2>2. /\ \A j, k \in auto.jobs : j.case = k.case => j = k
        /\ \A j \in auto.jobs : FromOpen(j)
    BY <1>2, ClaimElse DEF DeskInv, AutoOnce
  <2>3. ASSUME NEW j \in auto.jobs
        PROVE  InReprocessing(j.case)' /\ Unqueued(j.case)'
    <3>1. /\ rows[j.case].status = "OPEN" /\ rows'[j.case].status = "REPROCESSING"
      BY <1>2, ClaimRows
    <3>2. Unqueued(j.case)
      BY <3>1 DEF DeskInv, QueueOnce, InReprocessing, Unqueued
    <3>. QED
      BY <2>1, <3>1, <3>2 DEF InReprocessing, Unqueued
  <2>. QED
    BY <2>1, <2>2, <2>3 DEF AutoOnce, FromOpen
<1>3. CASE AutoSubmit
  BY <1>3, WorkerCase DEF AutoSubmit, Idle, AutoOnce, FromOpen, WorkerOnce, QueueOnce,
     Unqueued, DeskInv, TypeOK, InReprocessing
<1>4. CASE FetchJob
  <2>1. ASSUME NEW c, Unqueued(c) PROVE Unqueued(c)'
    BY <1>4, <2>1, Fetched DEF Unqueued
  <2>2. UNCHANGED <<rows, auto>>
    BY <1>4, Fetched
  <2>. QED
    BY <2>1, <2>2 DEF DeskInv, AutoOnce, InReprocessing
<1>5. CASE LoadCase
  BY <1>5, WorkerCase DEF LoadCase, AutoOnce, FromOpen, WorkerOnce, QueueOnce,
     Unqueued, DeskInv, TypeOK, InReprocessing
<1>6. CASE CloseInvalid
  BY <1>6, WorkerCase, CloseWrites DEF CloseInvalid, Idle, AutoOnce, FromOpen,
     WorkerOnce, QueueOnce, Unqueued, DeskInv, TypeOK, InReprocessing
<1>7. CASE AcquireWindow
  BY <1>7, WorkerCase DEF AcquireWindow, AutoOnce, FromOpen, WorkerOnce, QueueOnce,
     Unqueued, DeskInv, TypeOK, InReprocessing
<1>8. ASSUME NEW d \in Decisions, Decide(d)
      PROVE  AutoOnce'
  <2>1. worker.pc # "idle" /\ UNCHANGED <<auto, queue>>
    BY <1>8, DecideElse DEF Decide
  <2>. QED
    BY <1>8, <2>1, WorkerCase, WorkItems, DecideRows
       DEF DeskInv, AutoOnce, WorkerOnce, Unqueued, InReprocessing, FromOpen, OpenRow, TypeOK
<1>9. CASE AnalysisRaises
  BY <1>9, WorkerCase DEF AnalysisRaises, AutoOnce, FromOpen, WorkerOnce, QueueOnce,
     Unqueued, DeskInv, TypeOK, InReprocessing
<1>10. CASE ReadForRestore
  BY <1>10, WorkerCase DEF ReadForRestore, StillClaimed, Idle, AutoOnce, FromOpen,
     WorkerOnce, QueueOnce, Unqueued, DeskInv, TypeOK, InReprocessing
<1>11. CASE CommitRestore
  BY <1>11, WorkerCase, RestoreWrites DEF CommitRestore, Idle, AutoOnce, FromOpen,
     WorkerOnce, QueueOnce, Unqueued, DeskInv, TypeOK, InReprocessing
<1>12. CASE HandlerLost
  BY <1>12, WorkerCase DEF HandlerLost, RestoreLost, Idle, AutoOnce, FromOpen, WorkerOnce,
     QueueOnce, Unqueued, DeskInv, TypeOK, InReprocessing
<1>13. CASE Restart
  BY <1>13, WorkerCase DEF Restart, Idle, AutoOnce, FromOpen, WorkerOnce, QueueOnce,
     Unqueued, DeskInv, TypeOK, InReprocessing
<1>14. CASE UNCHANGED vars
  BY <1>14 DEF vars, AutoOnce, FromOpen, WorkerOnce, QueueOnce, Unqueued, DeskInv,
     TypeOK, InReprocessing
<1>. QED
  BY <1>1, <1>2, <1>3, <1>4, <1>5, <1>6, <1>7, <1>8, <1>9, <1>10, <1>11, <1>12, <1>13,
     <1>14 DEF NoClicks, Next, AutoStep, WorkerStep

\* The worker's case is nobody else's.
LEMMA WorkerStepOnce == NoClicks /\ DeskInv /\ [Next]_vars => WorkerOnce'
<1> SUFFICES ASSUME NoClicks, DeskInv, [Next]_vars
             PROVE  WorkerOnce'
  OBVIOUS
<1>1. CASE AutoSelect
  <2>1. UNCHANGED <<rows, window, queue, worker>> /\ auto'.pc = "selected"
    BY <1>1, Selected
  <2>. QED
    BY <2>1 DEF DeskInv, WorkerOnce, InReprocessing, Unqueued, FromOpen
<1>2. CASE AutoClaim
  <2>1. UNCHANGED <<worker, queue, window>> /\ auto'.pc = "claimed" /\ auto'.jobs = auto.jobs
    BY <1>2, ClaimElse
  <2>2. CASE worker.pc # "idle"
    <3>1. worker.job.case \in Cases /\ InReprocessing(worker.job.case)
      BY <2>2, WorkerCase DEF DeskInv, WorkerOnce
    <3>2. \A j \in auto.jobs : j.case # worker.job.case
      BY <1>2, <3>1, ClaimRows DEF InReprocessing
    <3>3. rows'[worker.job.case] = rows[worker.job.case]
      BY <1>2, <3>1, <3>2, ClaimRows
    <3>. QED
      BY <2>1, <2>2, <3>2, <3>3 DEF DeskInv, WorkerOnce, InReprocessing, Unqueued
  <2>. QED
    BY <2>1, <2>2 DEF WorkerOnce
<1>3. CASE AutoSubmit
  BY <1>3, WorkerCase DEF AutoSubmit, Idle, WorkerOnce, FromOpen, AutoOnce, QueueOnce,
     Unqueued, DeskInv, TypeOK, InReprocessing
<1>4. CASE FetchJob
  <2>1. /\ 1 \in 1..Len(queue) /\ Len(queue') = Len(queue) - 1
        /\ worker'.pc = "fetched" /\ worker'.job = queue[1] /\ UNCHANGED <<rows, auto>>
    BY <1>4, Fetched
  <2>2. FromOpen(worker.job)' /\ InReprocessing(worker.job.case)'
    BY <2>1 DEF DeskInv, QueueOnce, InReprocessing, FromOpen
  <2>3. Unqueued(worker.job.case)'
    <3> SUFFICES ASSUME NEW i \in 1..Len(queue') PROVE queue'[i].case # worker'.job.case
      BY DEF Unqueued
    <3>1. i + 1 \in 1..Len(queue) /\ queue'[i] = queue[i + 1] /\ i + 1 # 1
      BY <1>4, Fetched
    <3>. QED
      BY <2>1, <3>1 DEF DeskInv, QueueOnce
  <2>4. auto'.pc = "claimed" => \A j \in auto'.jobs : j.case # worker'.job.case
    BY <2>1 DEF DeskInv, AutoOnce, Unqueued
  <2>. QED
    BY <2>1, <2>2, <2>3, <2>4 DEF WorkerOnce
<1>5. CASE LoadCase
  BY <1>5, WorkerCase DEF LoadCase, WorkerOnce, FromOpen, AutoOnce, QueueOnce,
     Unqueued, DeskInv, TypeOK, InReprocessing
<1>6. CASE CloseInvalid
  BY <1>6, WorkerCase, CloseWrites DEF CloseInvalid, Idle, WorkerOnce, FromOpen,
     AutoOnce, QueueOnce, Unqueued, DeskInv, TypeOK, InReprocessing
<1>7. CASE AcquireWindow
  BY <1>7, WorkerCase DEF AcquireWindow, WorkerOnce, FromOpen, AutoOnce, QueueOnce,
     Unqueued, DeskInv, TypeOK, InReprocessing
<1>8. ASSUME NEW d \in Decisions, Decide(d)
      PROVE  WorkerOnce'
  BY <1>8, WorkerCase, WorkItems, DecideRows, DecideElse DEF DeskInv, WorkerOnce, InReprocessing, Idle, Idle
<1>9. CASE AnalysisRaises
  BY <1>9, WorkerCase DEF AnalysisRaises, WorkerOnce, FromOpen, AutoOnce, QueueOnce,
     Unqueued, DeskInv, TypeOK, InReprocessing
<1>10. CASE ReadForRestore
  BY <1>10, WorkerCase DEF ReadForRestore, StillClaimed, Idle, WorkerOnce, FromOpen,
     AutoOnce, QueueOnce, Unqueued, DeskInv, TypeOK, InReprocessing
<1>11. CASE CommitRestore
  BY <1>11, WorkerCase, RestoreWrites DEF CommitRestore, Idle, WorkerOnce, FromOpen,
     AutoOnce, QueueOnce, Unqueued, DeskInv, TypeOK, InReprocessing
<1>12. CASE HandlerLost
  BY <1>12, WorkerCase DEF HandlerLost, RestoreLost, Idle, WorkerOnce, FromOpen, AutoOnce,
     QueueOnce, Unqueued, DeskInv, TypeOK, InReprocessing
<1>13. CASE Restart
  BY <1>13, WorkerCase DEF Restart, Idle, WorkerOnce, FromOpen, AutoOnce, QueueOnce,
     Unqueued, DeskInv, TypeOK, InReprocessing
<1>14. CASE UNCHANGED vars
  BY <1>14 DEF vars, WorkerOnce, FromOpen, AutoOnce, QueueOnce, Unqueued, DeskInv,
     TypeOK, InReprocessing
<1>. QED
  BY <1>1, <1>2, <1>3, <1>4, <1>5, <1>6, <1>7, <1>8, <1>9, <1>10, <1>11, <1>12, <1>13,
     <1>14 DEF NoClicks, Next, AutoStep, WorkerStep

\* A closed case is left alone.
LEMMA ClosedStep == NoClicks /\ DeskInv /\ [Next]_vars => ClosedVerdictPackaged'
<1> SUFFICES ASSUME NoClicks, DeskInv, [Next]_vars
             PROVE  ClosedVerdictPackaged'
  OBVIOUS
<1>1. CASE AutoSelect
  BY <1>1, Selected DEF DeskInv, TypeOK, WorkerOnce, ClosedVerdictPackaged, InReprocessing, OpenCases
<1>2. CASE AutoClaim
  BY <1>2, ClaimRows, ClaimElse DEF DeskInv, TypeOK, WorkerOnce, ClosedVerdictPackaged, InReprocessing
<1>3. CASE AutoSubmit
  BY <1>3, WorkerCase DEF AutoSubmit, Idle, ClosedVerdictPackaged, WorkerOnce,
     DeskInv, TypeOK, InReprocessing
<1>4. CASE FetchJob
  <2>1. UNCHANGED <<rows, window, package>>
    BY <1>4, Fetched DEF FetchJob
  <2>. QED
    BY <2>1 DEF DeskInv, ClosedVerdictPackaged
<1>5. CASE LoadCase
  BY <1>5, WorkerCase DEF LoadCase, ClosedVerdictPackaged, WorkerOnce, DeskInv,
     TypeOK, InReprocessing
<1>6. CASE CloseInvalid
  BY <1>6, WorkerCase, CloseWrites DEF CloseInvalid, Idle, WritePackage,
     ClosedVerdictPackaged, WorkerOnce, DeskInv, TypeOK, InReprocessing
<1>7. CASE AcquireWindow
  BY <1>7, WorkerCase DEF AcquireWindow, ClosedVerdictPackaged, WorkerOnce, DeskInv,
     TypeOK, InReprocessing
<1>8. ASSUME NEW d \in Decisions, Decide(d)
      PROVE  ClosedVerdictPackaged'
  BY <1>8, WorkerCase, DecideWrites, DecideElse
     DEF DeskInv, TypeOK, WorkerOnce, ClosedVerdictPackaged, InReprocessing
<1>9. CASE AnalysisRaises
  BY <1>9, WorkerCase DEF AnalysisRaises, ClosedVerdictPackaged, WorkerOnce, DeskInv,
     TypeOK, InReprocessing
<1>10. CASE ReadForRestore
  BY <1>10, WorkerCase DEF ReadForRestore, StillClaimed, Idle, ClosedVerdictPackaged,
     WorkerOnce, DeskInv, TypeOK, InReprocessing
<1>11. CASE CommitRestore
  BY <1>11, WorkerCase, RestoreWrites DEF CommitRestore, Idle, ClosedVerdictPackaged,
     WorkerOnce, DeskInv, TypeOK, InReprocessing
<1>12. CASE HandlerLost
  BY <1>12, WorkerCase DEF HandlerLost, RestoreLost, Idle, ClosedVerdictPackaged, WorkerOnce,
     DeskInv, TypeOK, InReprocessing
<1>13. CASE Restart
  BY <1>13, WorkerCase DEF Restart, Idle, Recovered, ClosedVerdictPackaged,
     WorkerOnce, DeskInv, TypeOK, InReprocessing
<1>14. CASE UNCHANGED vars
  BY <1>14 DEF vars, ClosedVerdictPackaged, WorkerOnce, DeskInv, TypeOK,
     InReprocessing
<1>. QED
  BY <1>1, <1>2, <1>3, <1>4, <1>5, <1>6, <1>7, <1>8, <1>9, <1>10, <1>11, <1>12, <1>13,
     <1>14 DEF NoClicks, Next, AutoStep, WorkerStep

-----------------------------------------------------------------------------
(* The invariant.                                                          *)

\* It holds initially.
LEMMA DeskInvInit == Init => DeskInv
<1> SUFFICES ASSUME Init PROVE DeskInv
  OBVIOUS
<1>1. TypeOK
  BY TypeInit
<1>2. \A c \in Cases : OpenRow(rows[c]) /\ rows[c].status = "OPEN"
  BY DEF Init, OpenRow, None
<1>3. queue = <<>> /\ worker.pc = "idle" /\ auto.pc = "idle"
  BY DEF Init, Idle
<1>. QED
  BY <1>1, <1>2, <1>3 DEF DeskInv, QueueOnce, AutoOnce, WorkerOnce, ClosedVerdictPackaged

\* It is inductive without clicks.
LEMMA DeskInvStep == NoClicks /\ DeskInv /\ [Next]_vars => DeskInv'
<1> SUFFICES ASSUME NoClicks, DeskInv, [Next]_vars PROVE DeskInv'
  OBVIOUS
<1>1. TypeOK'
  BY TypeStep DEF DeskInv
<1>. QED
  BY <1>1, RowsStep, QueueStep, AutoStepOnce, WorkerStepOnce, ClosedStep DEF DeskInv

\* Without clicks DeskInv holds throughout.
LEMMA DeskInvariant == ASSUME NoClicks PROVE Spec => []DeskInv
BY NoClicks, DeskInvInit, DeskInvStep, PTL DEF Spec

-----------------------------------------------------------------------------
(* A case is never picked up twice.                                        *)

\* Work for a case is in one place.
LEMMA OneClaim ==
    ASSUME NoClicks, DeskInv, NEW c \in Cases
    PROVE  Claims(c) <= 1
<1>1. {p \in Clients : HeldBy(p, c)} = {}
  BY DEF NoClicks
<1>2. Cardinality({p \in Clients : HeldBy(p, c)}) = 0
  BY <1>1, FS_EmptySet
<1>3. HeldByAuto(c) => Unqueued(c) /\ ~WorkedOn(c)
  BY DEF HeldByAuto, WorkedOn, DeskInv, AutoOnce, WorkerOnce
<1>4. WorkedOn(c) => Unqueued(c)
  BY DEF WorkedOn, DeskInv, WorkerOnce
<1>5. Unqueued(c) => Cardinality(QueuedFor(c)) = 0
  <2>1. Unqueued(c) => QueuedFor(c) = {}
    BY DEF Unqueued, QueuedFor
  <2>. QED
    BY <2>1, FS_EmptySet
<1>6. Cardinality(QueuedFor(c)) \in {0, 1}
  <2>1. CASE QueuedFor(c) = {}
    BY <2>1, FS_EmptySet
  <2>2. CASE QueuedFor(c) # {}
    <3>1. PICK i \in QueuedFor(c) : TRUE
      BY <2>2
    <3>2. QueuedFor(c) = {i}
      BY <3>1 DEF QueuedFor, DeskInv, QueueOnce
    <3>. QED
      BY <3>2, FS_Singleton
  <2>. QED
    BY <2>1, <2>2
<1>. QED
  BY <1>2, <1>3, <1>4, <1>5, <1>6 DEF Claims

\* "a case is never picked up twice" (app/auto_analyzer.py), as long as nobody
\* clicks: at no time do two work items exist for one case, with any number of
\* cases, any batch and any number of failures and restarts.
THEOREM PickedUpOnce == ASSUME NoClicks PROVE Spec => []NoDoublePickup
<1>1. DeskInv => NoDoublePickup
  BY NoClicks, OneClaim DEF NoDoublePickup
<1>. QED
  BY <1>1, NoClicks, DeskInvariant, PTL

\* Verdict, package and window of a closed case stand or fall together.
THEOREM VerdictPackaged == ASSUME NoClicks PROVE Spec => []ClosedVerdictPackaged
<1>1. DeskInv => ClosedVerdictPackaged
  BY DEF DeskInv
<1>. QED
  BY <1>1, NoClicks, DeskInvariant, PTL

-----------------------------------------------------------------------------
(* The auto-analyzer, the pool and restarts implement the desk.            *)

\* The cases the auto-analyzer holds.
BatchOf == {j.case : j \in auto.jobs}

\* What is selected is a batch.
BatchInv == auto.pc = "selected" => Cardinality(BatchOf) \in 1..Batch

\* A selection takes at least one case and at most a batch.
LEMMA SelectsBatch ==
    ASSUME DeskInv, AutoSelect
    PROVE  BatchInv'
<1>1. PICK picked \in SUBSET OpenCases :
          /\ picked # {} /\ OldestOpen(picked)
          /\ auto' = [pc |-> "selected",
                      jobs |-> {[case |-> c, prior |-> rows[c]] : c \in picked}]
  BY DEF AutoSelect
<1>2. BatchOf' = picked
  <2>1. auto'.jobs = {[case |-> c, prior |-> rows[c]] : c \in picked}
    BY <1>1
  <2>2. \A j \in auto'.jobs : \E c \in picked : j = [case |-> c, prior |-> rows[c]]
    BY <2>1
  <2>3. \A j \in auto'.jobs : j.case \in picked
    BY <2>2
  <2>4. \A c \in picked : [case |-> c, prior |-> rows[c]] \in auto'.jobs
    BY <2>1
  <2>5. \A c \in picked : \E j \in auto'.jobs : j.case = c
    BY <2>4
  <2>. QED
    BY <2>3, <2>5 DEF BatchOf
<1>3. IsFiniteSet(picked)
  BY <1>1, CasesAssumption, FS_Subset DEF OpenCases
<1>4. Cardinality(picked) \in Nat /\ Cardinality(picked) # 0
  BY <1>1, <1>3, FS_CardinalityType, FS_EmptySet
<1>5. Cardinality(picked) <= Batch
  BY <1>1, <1>4, AutoAssumption DEF OldestOpen
<1>. QED
  BY <1>2, <1>4, <1>5, AutoAssumption DEF BatchInv

\* Only a selection changes what is selected.
LEMMA BatchStep == NoClicks /\ DeskInv /\ BatchInv /\ [Next]_vars => BatchInv'
<1> SUFFICES ASSUME NoClicks, DeskInv, BatchInv, [Next]_vars PROVE BatchInv'
  OBVIOUS
<1>1. CASE AutoSelect
  BY <1>1, SelectsBatch
<1>2. CASE AutoClaim \/ AutoSubmit \/ Restart
  BY <1>2 DEF AutoClaim, AutoSubmit, Restart, Idle, BatchInv, DeskInv, TypeOK, AutoStates
<1>3. CASE UNCHANGED auto
  BY <1>3 DEF BatchInv, BatchOf
<1>4. WorkerStep => UNCHANGED auto
  BY DEF WorkerStep, FetchJob, LoadCase, CloseInvalid, AcquireWindow, Decide,
         AnalysisRaises, ReadForRestore, CommitRestore, HandlerLost, RestoreLost
<1>. QED
  BY <1>1, <1>2, <1>3, <1>4 DEF Next, AutoStep, NoClicks, vars

\* One case changes its place.
LEMMA OneMoves ==
    ASSUME DeskInv, NEW c \in Cases, NEW new \in Row,
           rows' = [rows EXCEPT ![c] = new]
    PROVE  /\ new.status = "CLOSED" => Desk!Move({c}, "settled")
           /\ new.status = "OPEN" => Desk!Move({c}, "open")
<1>1. rows'[c] = new /\ \A d \in Cases : d # c => rows'[d] = rows[d]
  BY DEF DeskInv, TypeOK
<1>. QED
  BY <1>1 DEF Desk!Move, DeskPlace

\* A case the worker has is claimed.
LEMMA WorkedIsClaimed ==
    ASSUME DeskInv, worker.pc # "idle"
    PROVE  DeskPlace[worker.job.case] = "claimed" /\ worker.job.case \in Cases
BY WorkerCase DEF DeskInv, WorkerOnce, InReprocessing, DeskPlace

\* Steps that close a case settle it.
LEMMA ClosingSettles ==
    ASSUME DeskInv, CloseInvalid \/ \E d \in Decisions : Decide(d)
    PROVE  Desk!DeskNext
<1>1. worker.pc # "idle"
  BY DEF CloseInvalid, Decide
<1>2. PICK new \in Row :
          rows' = [rows EXCEPT ![worker.job.case] = new] /\ new.status = "CLOSED"
  BY CloseWrites, DecideWrites
<1>3. Desk!Settle(worker.job.case)
  BY <1>1, <1>2, WorkedIsClaimed, OneMoves DEF Desk!Settle
<1>. QED
  BY <1>1, <1>3, WorkedIsClaimed DEF Desk!DeskNext

\* A failed analysis gives its case back.
LEMMA RestoreGivesBack ==
    ASSUME DeskInv, CommitRestore
    PROVE  Desk!DeskNext
<1>1. worker.pc # "idle"
  BY DEF CommitRestore
<1>2. PICK new \in Row :
          rows' = [rows EXCEPT ![worker.job.case] = new] /\ new.status = "OPEN"
  BY RestoreWrites
<1>3. Desk!GiveBack({worker.job.case})
  BY <1>1, <1>2, WorkedIsClaimed, OneMoves DEF Desk!GiveBack, Desk!At
<1>. QED
  BY <1>1, <1>3, WorkedIsClaimed DEF Desk!DeskNext

\* A claim takes one batch of open cases.
LEMMA ClaimClaims ==
    ASSUME DeskInv, BatchInv, AutoClaim
    PROVE  Desk!DeskNext
<1>1. BatchOf \subseteq Cases /\ Cardinality(BatchOf) \in 1..Batch
  BY ClaimRows, ClaimElse DEF BatchOf, BatchInv
<1>2. \A c \in BatchOf : rows[c].status = "OPEN" /\ rows'[c].status = "REPROCESSING"
  BY ClaimRows DEF BatchOf
<1>3. \A c \in Cases \ BatchOf : rows'[c] = rows[c]
  BY ClaimRows DEF BatchOf
<1>4. BatchOf \in SUBSET Desk!At("open")
  BY <1>1, <1>2 DEF Desk!At, DeskPlace
<1>5. Desk!Move(BatchOf, "claimed")
  BY <1>1, <1>2, <1>3 DEF Desk!Move, DeskPlace
<1>6. Desk!Claim
  <2>1. Desk!Cardinality(BatchOf) = Cardinality(BatchOf)
    BY DEF Desk!Cardinality, Desk!IsFiniteSet, Cardinality, IsFiniteSet
  <2>. QED
    BY <1>1, <1>4, <1>5, <2>1 DEF Desk!Claim
<1>. QED
  BY <1>6 DEF Desk!DeskNext

\* A restart gives back all claimed cases, or none.
LEMMA RestartGivesBack ==
    ASSUME DeskInv, Restart
    PROVE  [Desk!DeskNext]_DeskPlace
<1>1. rows \in [Cases -> Row] /\ rows' = [c \in Cases |-> Recovered(rows[c])]
  BY DEF Restart, DeskInv, TypeOK
<1>2. CASE AutoEnabled
  <2>1. \A c \in Cases : rows'[c].status = IF rows[c].status = "REPROCESSING" THEN "OPEN"
                                           ELSE rows[c].status
    BY <1>1, <1>2 DEF Recovered, Row
  <2>2. Desk!Move(Desk!At("claimed"), "open")
    BY <2>1 DEF Desk!Move, Desk!At, DeskPlace
  <2>. QED
    BY <2>2 DEF Desk!GiveBack, Desk!DeskNext
<1>3. CASE ~AutoEnabled
  BY <1>1, <1>3 DEF Recovered, DeskPlace
<1>. QED
  BY <1>2, <1>3

\* Every other step leaves the desk alone.
LEMMA OthersStutter ==
    ASSUME UNCHANGED rows
    PROVE  UNCHANGED DeskPlace
BY DEF DeskPlace

\* Every step is one of the desk or none.
LEMMA DeskSteps == NoClicks /\ DeskInv /\ BatchInv /\ [Next]_vars => [Desk!DeskNext]_DeskPlace
<1> SUFFICES ASSUME NoClicks, DeskInv, BatchInv, [Next]_vars
             PROVE  [Desk!DeskNext]_DeskPlace
  OBVIOUS
<1>1. CASE AutoClaim
  BY <1>1, ClaimClaims
<1>2. CASE CloseInvalid \/ \E d \in Decisions : Decide(d)
  BY <1>2, ClosingSettles
<1>3. CASE CommitRestore
  BY <1>3, RestoreGivesBack
<1>4. CASE Restart
  BY <1>4, RestartGivesBack
<1>5. CASE UNCHANGED rows
  BY <1>5, OthersStutter
<1>6. AutoSelect \/ AutoSubmit \/ FetchJob \/ LoadCase \/ AcquireWindow \/ AnalysisRaises
        \/ ReadForRestore \/ HandlerLost \/ UNCHANGED vars => UNCHANGED rows
  BY DEF AutoSelect, AutoSubmit, FetchJob, LoadCase, AcquireWindow, AnalysisRaises,
         ReadForRestore, HandlerLost, RestoreLost, vars
<1>. QED
  BY <1>1, <1>2, <1>3, <1>4, <1>5, <1>6 DEF Next, AutoStep, WorkerStep, NoClicks

\* Without clicks, analysis implements the desk's safety: a cycle claims at most
\* one batch, of open cases only, a settled case is never claimed again, and a
\* claim ends in a verdict or gives the case back.
THEOREM ImplementsDeskSafety == ASSUME NoClicks PROVE Spec => Desk!DeskSafety
<1>1. Init => Desk!DeskInit
  BY DEF Init, Desk!DeskInit, DeskPlace
<1>2. Init => DeskInv /\ BatchInv
  BY DeskInvInit DEF Init, Idle, BatchInv
<1>3. DeskInv /\ BatchInv /\ [Next]_vars => (DeskInv /\ BatchInv)'
  BY NoClicks, DeskInvStep, BatchStep
<1>4. DeskInv /\ BatchInv /\ [Next]_vars => [Desk!DeskNext]_DeskPlace
  BY NoClicks, DeskSteps
<1>. QED
  BY <1>1, <1>2, <1>3, <1>4, PTL DEF Spec, Desk!DeskSafety

-----------------------------------------------------------------------------
(* The backlog.                                                            *)

\* Failure handlers do not fail.
NoLoss == MaxLost = 0

\* A cycle starts with at most one case waiting and adds one batch.
RoomInv ==
    /\ auto.pc = "idle" => Len(queue) <= Batch + 1
    /\ auto.pc = "selected" => Len(queue) <= 1
    /\ auto.pc = "claimed" => Len(queue) + Cardinality(BatchOf) <= Batch + 1

\* No case is in REPROCESSING without a work item; without the auto-analyzer none is.
KeptInv ==
    /\ stranded = {}
    /\ ~AutoEnabled => /\ auto.pc = "idle" /\ worker.pc = "idle" /\ queue = <<>>
                       /\ \A c \in Cases : ~InReprocessing(c)

\* Cases the auto-analyzer holds are finitely many.
LEMMA BatchFinite ==
    ASSUME DeskInv, auto.pc # "idle"
    PROVE  IsFiniteSet(BatchOf) /\ Cardinality(BatchOf) \in Nat
<1>1. BatchOf \subseteq Cases
  BY WorkItems DEF BatchOf
<1>2. IsFiniteSet(BatchOf)
  BY <1>1, CasesAssumption, FS_Subset
<1>. QED
  BY <1>2, FS_CardinalityType

\* Submitting takes one case out of the batch and puts it in the queue.
LEMMA SubmitRoom ==
    ASSUME DeskInv, RoomInv, AutoSubmit
    PROVE  RoomInv'
<1>1. auto.pc = "claimed" /\ queue \in Seq(Job) /\ auto.jobs \in SUBSET Job
  BY DEF AutoSubmit, DeskInv, TypeOK, AutoStates
<1>2. PICK j \in auto.jobs :
          /\ queue' = Append(queue, j)
          /\ auto' = IF auto.jobs = {j} THEN Idle ELSE [auto EXCEPT !.jobs = @ \ {j}]
  BY DEF AutoSubmit
<1>3. Len(queue') = Len(queue) + 1 /\ Len(queue) \in Nat
  BY <1>1, <1>2
<1>4. j.case \in BatchOf
  BY DEF BatchOf
<1>5. IsFiniteSet(BatchOf) /\ Cardinality(BatchOf) \in Nat
  BY <1>1, BatchFinite
<1>6. Cardinality(BatchOf \ {j.case}) = Cardinality(BatchOf) - 1 /\ Cardinality(BatchOf \ {j.case}) \in Nat
  BY <1>4, <1>5, FS_RemoveElement, FS_CardinalityType
<1>7. Len(queue) + Cardinality(BatchOf) <= Batch + 1
  BY <1>1 DEF RoomInv
<1>8. CASE auto.jobs = {j}
  BY <1>2, <1>3, <1>5, <1>6, <1>7, <1>8, AutoAssumption DEF RoomInv, Idle
<1>9. CASE auto.jobs # {j}
  <2>1. auto'.pc = "claimed" /\ auto'.jobs = auto.jobs \ {j}
    <3>1. auto \in [pc: {"selected", "claimed"}, jobs: SUBSET Job]
      BY <1>1 DEF DeskInv, TypeOK, AutoStates
    <3>. QED
      BY <1>1, <1>2, <1>9, <3>1
  <2>2. BatchOf' = {k.case : k \in auto.jobs \ {j}}
    BY <2>1 DEF BatchOf
  <2>3. \A k \in auto.jobs : k.case = j.case => k = j
    BY <1>1 DEF DeskInv, AutoOnce
  <2>4. {k.case : k \in auto.jobs \ {j}} = BatchOf \ {j.case}
    BY <2>3 DEF BatchOf
  <2>5. Cardinality(BatchOf') = Cardinality(BatchOf) - 1
    BY <1>6, <2>2, <2>4
  <2>6. Len(queue') + Cardinality(BatchOf') <= Batch + 1
    BY <1>3, <1>5, <1>7, <2>5, AutoAssumption
  <2>. QED
    BY <2>1, <2>6 DEF RoomInv
<1>. QED
  BY <1>8, <1>9

\* The room is kept by every step.
LEMMA RoomStep == NoClicks /\ DeskInv /\ BatchInv /\ RoomInv /\ [Next]_vars => RoomInv'
<1> SUFFICES ASSUME NoClicks, DeskInv, BatchInv, RoomInv, [Next]_vars PROVE RoomInv'
  OBVIOUS
<1>0. Len(queue) \in Nat /\ Batch \in Nat \ {0}
  BY WorkItems, AutoAssumption
<1>1. CASE AutoSelect
  BY <1>0, <1>1, Selected DEF RoomInv, AutoSelect, PoolDrained
<1>2. CASE AutoClaim
  <2>1. /\ auto.pc = "selected" /\ auto'.pc = "claimed"
        /\ UNCHANGED queue /\ BatchOf' = BatchOf
    BY <1>2, ClaimElse DEF BatchOf
  <2>2. Cardinality(BatchOf) \in 1..Batch
    BY <2>1 DEF BatchInv
  <2>. QED
    BY <1>0, <2>1, <2>2 DEF RoomInv
<1>3. CASE AutoSubmit
  BY <1>3, SubmitRoom
<1>4. CASE FetchJob
  <2>1. Len(queue') = Len(queue) - 1 /\ UNCHANGED auto
    BY <1>4, Fetched
  <2>2. auto.pc = "claimed" => Cardinality(BatchOf) \in Nat
    BY BatchFinite
  <2>3. BatchOf' = BatchOf
    BY <2>1 DEF BatchOf
  <2>. QED
    BY <1>0, <2>1, <2>2, <2>3 DEF RoomInv
<1>5. CASE Restart
  BY <1>0, <1>5 DEF Restart, RoomInv, Idle
<1>6. CASE UNCHANGED <<auto, queue>>
  <2>1. BatchOf' = BatchOf
    BY <1>6 DEF BatchOf
  <2>. QED
    BY <1>6, <2>1 DEF RoomInv
<1>7. WorkerStep => FetchJob \/ UNCHANGED <<auto, queue>>
  BY DEF WorkerStep, LoadCase, CloseInvalid, AcquireWindow, Decide,
         AnalysisRaises, ReadForRestore, CommitRestore, HandlerLost, RestoreLost
<1>. QED
  BY <1>1, <1>2, <1>3, <1>4, <1>5, <1>6, <1>7 DEF Next, AutoStep, NoClicks, vars

\* Nothing strands a case.
LEMMA KeptStep == NoClicks /\ NoLoss /\ DeskInv /\ KeptInv /\ [Next]_vars => KeptInv'
<1> SUFFICES ASSUME NoClicks, NoLoss, DeskInv, KeptInv, [Next]_vars PROVE KeptInv'
  OBVIOUS
<1>0. rows \in [Cases -> Row] /\ spent.lost \in Nat
  BY DEF DeskInv, TypeOK
<1>1. CASE AutoStep
  BY <1>1 DEF AutoStep, AutoSelect, AutoClaim, AutoSubmit, KeptInv
<1>2. CASE Restart
  <2>1. /\ rows' = [c \in Cases |-> Recovered(rows[c])] /\ Stranding(Cases)
        /\ queue' = <<>> /\ worker'.pc = "idle" /\ auto'.pc = "idle"
    BY <1>2 DEF Restart, Idle
  <2>2. \A c \in Cases : rows'[c].status # "REPROCESSING"
    <3> SUFFICES ASSUME NEW c \in Cases PROVE rows'[c].status # "REPROCESSING"
      OBVIOUS
    <3>1. rows'[c] = Recovered(rows[c]) /\ rows[c] \in Row
      BY <1>0, <2>1
    <3>2. ~AutoEnabled => rows[c].status # "REPROCESSING"
      BY DEF KeptInv, InReprocessing
    <3>. QED
      BY <3>1, <3>2 DEF Recovered, Row
  <2>. QED
    BY <2>1, <2>2 DEF KeptInv, Stranding, InReprocessing
<1>3. CASE WorkerStep
  <2>1. AutoEnabled
    BY <1>3 DEF KeptInv, WorkerStep, FetchJob, LoadCase, CloseInvalid, AcquireWindow, Decide,
                AnalysisRaises, ReadForRestore, CommitRestore, HandlerLost, RestoreLost
  <2>2. ~HandlerLost
    BY <1>0 DEF HandlerLost, RestoreLost, Spend, NoLoss
  <2>3. UNCHANGED stranded \/ Stranding({})
    BY <1>3, <2>2 DEF WorkerStep, FetchJob, LoadCase, CloseInvalid, AcquireWindow, Decide,
                AnalysisRaises, ReadForRestore, CommitRestore
  <2>. QED
    BY <2>1, <2>3 DEF KeptInv, Stranding
<1>4. CASE UNCHANGED vars
  BY <1>4 DEF vars, KeptInv, InReprocessing
<1>. QED
  BY <1>1, <1>2, <1>3, <1>4 DEF Next, NoClicks

\* The cases that wait in the queue.
QueuedCases == {queue[i].case : i \in 1..Len(queue)}

\* There are no more of them than places in the queue.
LEMMA QueuedBound ==
    ASSUME DeskInv
    PROVE  /\ IsFiniteSet(QueuedCases) /\ Cardinality(QueuedCases) \in Nat
           /\ Cardinality(QueuedCases) <= Len(queue)
<1>1. Len(queue) \in Nat /\ QueuedCases \subseteq Cases
  BY WorkItems DEF QueuedCases
<1>2. IsFiniteSet(QueuedCases) /\ Cardinality(QueuedCases) \in Nat
  BY <1>1, CasesAssumption, FS_Subset, FS_CardinalityType
<1>3. [i \in 1..Len(queue) |-> queue[i].case] \in Surjection(1..Len(queue), QueuedCases)
  BY DEF Surjection, QueuedCases
<1>4. ExistsSurjection(1..Len(queue), QueuedCases)
  BY <1>3 DEF ExistsSurjection
<1>. QED
  BY <1>1, <1>2, <1>4, FS_SurjCardinalityBound

\* Cases in REPROCESSING are in one of three places, and the places are few.
LEMMA BacklogCounted ==
    ASSUME NoClicks, DeskInv, RoomInv, stranded = {}, Custody
    PROVE  BacklogBounded
<1> DEFINE busy == {c \in Cases : InReprocessing(c)}
           held == IF auto.pc = "claimed" THEN BatchOf ELSE {}
           worked == {worker.job.case}
<1>1. busy \subseteq (QueuedCases \union held) \union worked
  <2> SUFFICES ASSUME NEW c \in Cases, InReprocessing(c)
               PROVE  c \in QueuedCases \/ c \in held \/ c \in worked
    OBVIOUS
  <2>1. Pending(c)
    BY DEF Custody
  <2>. QED
    BY <2>1 DEF Pending, QueuedFor, HeldByAuto, HeldBy, WorkedOn, NoClicks, QueuedCases, BatchOf
<1>2. IsFiniteSet(held) /\ Cardinality(held) \in Nat /\ Len(queue) + Cardinality(held) <= Batch + 1
  <2>0. Len(queue) \in Nat /\ auto \in AutoStates
    BY WorkItems DEF DeskInv, TypeOK
  <2>1. CASE auto.pc = "claimed"
    BY <2>1, BatchFinite DEF RoomInv
  <2>2. CASE auto.pc # "claimed"
    <3>1. Len(queue) <= Batch + 1
      BY <2>0, <2>2, AutoAssumption DEF RoomInv, AutoStates
    <3>. QED
      BY <2>0, <2>2, <3>1, FS_EmptySet
  <2>. QED
    BY <2>1, <2>2
<1>3. IsFiniteSet(worked) /\ Cardinality(worked) = 1
  BY FS_Singleton
<1>. HIDE DEF held, worked
<1>4. IsFiniteSet(QueuedCases \union held)
      /\ Cardinality(QueuedCases \union held) <= Batch + 1
  <2>1. IsFiniteSet(QueuedCases \union held)
        /\ Cardinality(QueuedCases \union held)
             = Cardinality(QueuedCases) + Cardinality(held) - Cardinality(QueuedCases \cap held)
    BY <1>2, QueuedBound, FS_Union
  <2>2. Cardinality(QueuedCases \cap held) \in Nat
    <3>1. QueuedCases \cap held \in SUBSET held
      OBVIOUS
    <3>. QED
      BY <3>1, <1>2, FS_Subset, FS_CardinalityType
  <2>. QED
    BY <2>1, <2>2, <1>2, QueuedBound, WorkItems, AutoAssumption
<1>5. IsFiniteSet((QueuedCases \union held) \union worked)
      /\ Cardinality((QueuedCases \union held) \union worked) <= Batch + 2
  <2>1. IsFiniteSet((QueuedCases \union held) \union worked)
        /\ Cardinality((QueuedCases \union held) \union worked)
             = Cardinality(QueuedCases \union held) + Cardinality(worked)
                 - Cardinality((QueuedCases \union held) \cap worked)
    BY <1>3, <1>4, FS_Union
  <2>2. Cardinality((QueuedCases \union held) \cap worked) \in Nat
    <3>1. (QueuedCases \union held) \cap worked \in SUBSET worked
      OBVIOUS
    <3>. QED
      BY <3>1, <1>3, FS_Subset, FS_CardinalityType
  <2>3. Cardinality(QueuedCases \union held) \in Nat
    BY <1>4, FS_CardinalityType
  <2>. QED
    BY <2>1, <2>2, <2>3, <1>3, <1>4, AutoAssumption
<1>6. IsFiniteSet(busy) /\ Cardinality(busy) <= Cardinality((QueuedCases \union held) \union worked)
  BY <1>1, <1>5, FS_Subset
<1>. QED
  BY <1>5, <1>6, FS_CardinalityType, AutoAssumption DEF BacklogBounded

\* The backlog test bounds how many cases sit in REPROCESSING, however many cases
\* there are, as long as nobody clicks and no failure handler fails.
THEOREM BacklogIsBounded == ASSUME NoClicks, NoLoss PROVE Spec => []BacklogBounded
<1>1. Init => DeskInv /\ BatchInv /\ RoomInv /\ KeptInv
  <2>1. Init => RoomInv /\ KeptInv
    BY AutoAssumption DEF Init, Idle, RoomInv, KeptInv, InReprocessing
  <2>. QED
    BY <2>1, DeskInvInit DEF Init, Idle, BatchInv
<1>2. DeskInv /\ BatchInv /\ RoomInv /\ KeptInv /\ [Next]_vars
        => (DeskInv /\ BatchInv /\ RoomInv /\ KeptInv)'
  BY NoClicks, NoLoss, DeskInvStep, BatchStep, RoomStep, KeptStep
<1>3. DeskInv /\ RoomInv /\ KeptInv /\ Custody => BacklogBounded
  BY NoClicks, BacklogCounted DEF KeptInv
<1>. QED
  BY <1>1, <1>2, <1>3, CustodyKept, PTL DEF Spec

-----------------------------------------------------------------------------
(***************************************************************************)
(* CaseExport, for any cases, handlers and bounds.                         *)
(*                                                                         *)
(* The audit log is what prevents a second refund.  ExportInv says how far *)
(* it can be trusted: a refund that exists and whose id is not lost is in  *)
(* the log, or its answer is in the exporter's hands; and an id in the log *)
(* is that of a refund that exists.                                        *)
(***************************************************************************)

\* The exporter has the agent's answer about c and has not put it on record.
Answered(c) == exporter.pc = "answered" /\ exporter.case = c

\* What the audit log tells about a case whose refund id was not lost.
LogTells(c) ==
    /\ refunds[c] <= 1
    /\ NoRefund \notin audited[c]
    /\ refunds[c] = 1 => audited[c] # {} \/ Answered(c)

\* The exporter posts without refund_id only what has no refund.
PostsNew ==
    exporter.pc = "posting" /\ exporter.refund = NoRefund =>
        exporter.case \in blind \/ refunds[exporter.case] = 0

\* An id stands for a refund at the agent.
IdsExist ==
    /\ \A c \in Cases : audited[c] \subseteq {NoRefund} \/ refunds[c] > 0
    /\ exporter.pc = "posting" /\ exporter.refund # NoRefund => refunds[exporter.case] > 0
    /\ exporter.pc = "answered" => refunds[exporter.case] > 0

ExportInv ==
    /\ ExportTypeOK
    /\ \A c \in Cases : c \in blind \/ LogTells(c)
    /\ PostsNew
    /\ IdsExist
    /\ Reported

-----------------------------------------------------------------------------
(* Shapes.                                                                 *)

\* Which case and id the exporter has in its hands.
LEMMA ExporterShape ==
    ASSUME ExportTypeOK, exporter.pc # "idle"
    PROVE  exporter.case \in Cases /\ exporter.refund \in Nat
BY DEF ExportTypeOK, ExporterStates

\* The first of the queue is a case, and the rest is a queue.
LEMMA FirstExport ==
    ASSUME ExportTypeOK, exports # <<>>
    PROVE  /\ Head(exports) \in Cases /\ Tail(exports) \in Seq(Cases)
           /\ Head(exports) = exports[1]
           /\ Len(exports) \in Nat /\ Len(Tail(exports)) = Len(exports) - 1
           /\ \A i \in 1..Len(exports) : i = 1 \/ (i - 1 \in 1..Len(Tail(exports))
                                                    /\ exports[i] = Tail(exports)[i - 1])
BY DEF ExportTypeOK

\* A step of the lifecycle is one of CaseLifecycle.
LEMMA CaseStepNext == CaseStep => Next
BY DEF CaseStep, Next

\* Every step of the composition is one of CaseLifecycle or none.
LEMMA ExportNextNext == [ExportNext]_<<vars, exportVars>> => [Next]_vars
<1>1. CaseStep => Next
  BY CaseStepNext
<1>2. ExporterStep => UNCHANGED vars
  BY DEF ExporterStep
<1>3. Restart => Next
  BY DEF Next
<1>. QED
  BY <1>1, <1>2, <1>3 DEF ExportNext

\* What the exporter leaves alone.
LEMMA ExporterKeeps == ExporterStep => UNCHANGED package
BY DEF ExporterStep, vars

\* The agent's books after a post.
LEMMA PostedRefunds ==
    ASSUME ExportTypeOK, exporter.pc # "idle",
           refunds' = AgentRefunds(exporter.case)
    PROVE  /\ refunds' \in [Cases -> Nat]
           /\ \A c \in Cases : refunds'[c] >= refunds[c]
           /\ \A c \in Cases : c # exporter.case => refunds'[c] = refunds[c]
           /\ exporter.refund = NoRefund =>
                 refunds'[exporter.case] = refunds[exporter.case] + 1
           /\ exporter.refund # NoRefund => refunds' = refunds
<1>1. refunds \in [Cases -> Nat] /\ exporter.case \in Cases
  BY ExporterShape DEF ExportTypeOK
<1>2. CASE exporter.refund = NoRefund
  BY <1>1, <1>2 DEF AgentRefunds
<1>3. CASE exporter.refund # NoRefund
  BY <1>1, <1>3 DEF AgentRefunds
<1>. QED
  BY <1>2, <1>3

-----------------------------------------------------------------------------
(* Type correctness.                                                       *)

\* Every step keeps the shapes.
LEMMA ExportTypeStep == ExportTypeOK /\ [ExportNext]_<<vars, exportVars>> => ExportTypeOK'
<1> SUFFICES ASSUME ExportTypeOK, [ExportNext]_<<vars, exportVars>> PROVE ExportTypeOK'
  OBVIOUS
<1>0. TypeOK'
  BY TypeStep, ExportNextNext DEF ExportTypeOK
<1>1. CASE CaseStep
  <2>1. worker.pc # "idle" => worker.job.case \in Cases
    BY WorkerShape DEF ExportTypeOK, Job
  <2>2. returned' \in [pc: {"idle"}] \union [pc: {"returned"}, case: Cases]
    BY <1>1, <2>1 DEF CaseStep, Return, AnalysisReturns, Idle, ExportTypeOK
  <2>. QED
    BY <1>0, <1>1, <2>2 DEF CaseStep, ExportTypeOK
<1>2. CASE ExporterStep
  <2>1. CASE ExportRead
    <3>1. Head(exports) \in Cases /\ Tail(exports) \in Seq(Cases)
      BY <2>1, FirstExport DEF ExportRead
    <3>2. PriorRefund(Head(exports)) \subseteq Nat
      BY <3>1 DEF PriorRefund, NoRefund, ExportTypeOK
    <3>3. exporter' \in ExporterStates
      BY <2>1, <3>1, <3>2 DEF ExportRead, ExporterStates, Idle
    <3>. QED
      BY <1>0, <2>1, <3>1, <3>3 DEF ExportRead, ExportTypeOK
  <2>2. CASE ExportPosted
    <3>1. refunds' \in [Cases -> Nat] /\ exporter.case \in Cases /\ exporter.refund \in Nat
      BY <2>2, PostedRefunds, ExporterShape DEF ExportPosted
    <3>2. exporter \in [pc: {"posting", "answered"}, case: Cases, refund: Nat]
      BY <2>2 DEF ExportPosted, ExportTypeOK, ExporterStates
    <3>3. exporter' \in ExporterStates
      BY <2>2, <3>1, <3>2 DEF ExportPosted, ExporterStates
    <3>. QED
      BY <1>0, <2>2, <3>1, <3>3 DEF ExportPosted, ExportTypeOK
  <2>3. CASE ExportQueued
    <3>1. refunds' \in [Cases -> Nat]
      BY <2>3, PostedRefunds DEF ExportQueued
    <3>2. exporter \in [pc: {"posting", "answered"}, case: Cases, refund: Nat]
      BY <2>3 DEF ExportQueued, ExportTypeOK, ExporterStates
    <3>3. exporter' \in ExporterStates
      BY <2>3, <3>2 DEF ExportQueued, ExporterStates
    <3>. QED
      BY <1>0, <2>3, <3>1, <3>3 DEF ExportQueued, Fault, ExportTypeOK
  <2>4. CASE ExportRaises
    <3>1. refunds' \in [Cases -> Nat] /\ exporter.case \in Cases
      BY <2>4, PostedRefunds, ExporterShape DEF ExportRaises, ExportTypeOK
    <3>. QED
      BY <1>0, <2>4, <3>1 DEF ExportRaises, Fault, ExportTypeOK, ExporterStates, Idle
  <2>5. CASE ExportAudited
    <3>1. exporter.case \in Cases /\ exporter.refund \in Nat
      BY <2>5, ExporterShape DEF ExportAudited
    <3>. QED
      BY <1>0, <2>5, <3>1 DEF ExportAudited, ExportTypeOK, ExporterStates, Idle
  <2>6. CASE ExportUnaudited
    <3>1. exporter.case \in Cases
      BY <2>6, ExporterShape DEF ExportUnaudited
    <3>. QED
      BY <1>0, <2>6, <3>1 DEF ExportUnaudited, Fault, ExportTypeOK, ExporterStates, Idle
  <2>7. CASE SubmitExport
    <3>1. returned.case \in Cases
      BY <2>7 DEF SubmitExport, ExportTypeOK
    <3>. QED
      BY <1>0, <2>7, <3>1 DEF SubmitExport, ExportTypeOK, Idle
  <2>8. CASE NotSubmitted
    <3>1. returned.case \in Cases
      BY <2>8 DEF NotSubmitted, ExportTypeOK
    <3>. QED
      BY <1>0, <2>8, <3>1 DEF NotSubmitted, Fault, ExportTypeOK, Idle
  <2>9. CASE ExportSkipped
    <3>1. Head(exports) \in Cases /\ Tail(exports) \in Seq(Cases)
      BY <2>9, FirstExport DEF ExportSkipped
    <3>. QED
      BY <1>0, <2>9, <3>1 DEF ExportSkipped, Fault, ExportTypeOK
  <2>. QED
    BY <1>2, <2>1, <2>2, <2>3, <2>4, <2>5, <2>6, <2>7, <2>8, <2>9 DEF ExporterStep
<1>3. CASE Restart /\ ExportsLost
  <2>1. /\ exporter.pc # "idle" => exporter.case \in Cases
        /\ returned.pc = "returned" => returned.case \in Cases
    BY ExporterShape DEF ExportTypeOK
  <2>2. \A i \in 1..Len(exports) : exports[i] \in Cases
    BY DEF ExportTypeOK
  <2>. QED
    BY <1>0, <1>3, <2>1, <2>2 DEF ExportsLost, ExportTypeOK, ExporterStates, Idle
<1>4. CASE UNCHANGED <<vars, exportVars>>
  BY <1>0, <1>4 DEF exportVars, ExportTypeOK
<1>. QED
  BY <1>1, <1>2, <1>3, <1>4 DEF ExportNext

-----------------------------------------------------------------------------
(* The audit log.                                                          *)

\* A step that leaves the exporter and its books alone.
LEMMA BooksSame ==
    ASSUME UNCHANGED <<exporter, refunds, audited, blind>>,
           \A c \in Cases : c \in blind \/ LogTells(c), PostsNew, IdsExist
    PROVE  (\A c \in Cases : c \in blind \/ LogTells(c))' /\ PostsNew' /\ IdsExist'
BY DEF LogTells, PostsNew, IdsExist, Answered

\* The log keeps telling the truth.
LEMMA LogStep ==
    ASSUME ExportInv, [ExportNext]_<<vars, exportVars>>
    PROVE  (\A c \in Cases : c \in blind \/ LogTells(c))' /\ PostsNew' /\ IdsExist'
<1>0. /\ ExportTypeOK /\ PostsNew /\ IdsExist
      /\ \A c \in Cases : c \in blind \/ LogTells(c)
      /\ refunds \in [Cases -> Nat] /\ audited \in [Cases -> SUBSET Nat]
  BY DEF ExportInv, ExportTypeOK
<1>1. CASE ExportRead
  <2>1. /\ exporter.pc = "idle" /\ Head(exports) \in Cases
        /\ UNCHANGED <<refunds, audited, blind>>
    BY <1>0, <1>1, FirstExport DEF ExportRead
  <2>2. PICK prior \in PriorRefund(Head(exports)) :
            exporter' = Idle \/
            exporter' = [pc |-> "posting", case |-> Head(exports), refund |-> prior]
    BY <1>1 DEF ExportRead
  <2>3. exporter'.pc # "answered"
    BY <2>2 DEF Idle
  <2>4. (\A c \in Cases : c \in blind \/ LogTells(c))'
    BY <1>0, <2>1, <2>3 DEF LogTells, Answered
  <2>5. CASE exporter' = Idle
    BY <1>0, <2>1, <2>4, <2>5 DEF PostsNew, IdsExist, Idle
  <2>6. CASE exporter' = [pc |-> "posting", case |-> Head(exports), refund |-> prior]
    <3>1. prior = NoRefund => Head(exports) \in blind \/ refunds[Head(exports)] = 0
      BY <1>0, <2>1 DEF PriorRefund, LogTells, Answered
    <3>2. prior # NoRefund => refunds[Head(exports)] > 0
      BY <1>0, <2>1 DEF PriorRefund, IdsExist
    <3>. QED
      BY <1>0, <2>1, <2>4, <2>6, <3>1, <3>2 DEF PostsNew, IdsExist
  <2>. QED
    BY <2>2, <2>5, <2>6
<1>2. CASE ExportPosted \/ ExportQueued
  <2>1. /\ exporter.pc = "posting" /\ exporter'.pc = "answered"
        /\ exporter'.case = exporter.case /\ exporter.case \in Cases
        /\ UNCHANGED <<audited, blind>> /\ refunds' = AgentRefunds(exporter.case)
    <3>1. exporter.pc = "posting"
      BY <1>2 DEF ExportPosted, ExportQueued
    <3>2. exporter \in [pc: {"posting", "answered"}, case: Cases, refund: Nat]
      BY <1>0, <3>1 DEF ExportTypeOK, ExporterStates
    <3>. QED
      BY <1>2, <3>1, <3>2 DEF ExportPosted, ExportQueued
  <2>2. /\ \A c \in Cases : refunds'[c] >= refunds[c]
        /\ \A c \in Cases : c # exporter.case => refunds'[c] = refunds[c]
        /\ refunds'[exporter.case] > 0
        /\ exporter.case \in blind \/ refunds'[exporter.case] <= 1
        /\ refunds' \in [Cases -> Nat]
    BY <1>0, <2>1, PostedRefunds DEF PostsNew, IdsExist, LogTells
  <2>3. (\A c \in Cases : c \in blind \/ LogTells(c))'
    BY <1>0, <2>1, <2>2 DEF LogTells, Answered
  <2>4. IdsExist'
    BY <1>0, <2>1, <2>2 DEF IdsExist
  <2>. QED
    BY <2>1, <2>3, <2>4 DEF PostsNew
<1>3. CASE ExportRaises
  <2>1. /\ exporter.pc = "posting" /\ exporter' = Idle /\ UNCHANGED audited
        /\ exporter.case \in Cases
    BY <1>0, <1>3, ExporterShape DEF ExportRaises
  <2>2. CASE refunds' = AgentRefunds(exporter.case) /\ blind' = blind \union {exporter.case}
    <3>1. /\ \A c \in Cases : refunds'[c] >= refunds[c]
          /\ \A c \in Cases : c # exporter.case => refunds'[c] = refunds[c]
          /\ refunds' \in [Cases -> Nat]
      BY <1>0, <2>1, <2>2, PostedRefunds
    <3>2. (\A c \in Cases : c \in blind \/ LogTells(c))'
      BY <1>0, <2>1, <2>2, <3>1 DEF LogTells, Answered, Idle
    <3>3. IdsExist'
      BY <1>0, <2>1, <3>1 DEF IdsExist, Idle
    <3>. QED
      BY <2>1, <3>2, <3>3 DEF PostsNew, Idle
  <2>3. CASE UNCHANGED <<refunds, blind>>
    BY <1>0, <2>1, <2>3 DEF LogTells, Answered, PostsNew, IdsExist, Idle
  <2>. QED
    BY <1>3, <2>2, <2>3 DEF ExportRaises
<1>4. CASE ExportAudited
  <2>1. /\ exporter.pc = "answered" /\ exporter' = Idle /\ UNCHANGED refunds
        /\ exporter.case \in Cases /\ exporter.refund \in Nat
        /\ audited' = [audited EXCEPT ![exporter.case] = @ \union {exporter.refund}]
        /\ blind' = IF exporter.refund = NoRefund THEN blind \union {exporter.case} ELSE blind
    BY <1>0, <1>4, ExporterShape DEF ExportAudited
  <2>2. /\ audited'[exporter.case] = audited[exporter.case] \union {exporter.refund}
        /\ \A c \in Cases : c # exporter.case => audited'[c] = audited[c]
    BY <1>0, <2>1
  <2>3. (\A c \in Cases : c \in blind \/ LogTells(c))'
    BY <1>0, <2>1, <2>2 DEF LogTells, Answered, Idle
  <2>4. IdsExist'
    BY <1>0, <2>1, <2>2 DEF IdsExist, Idle
  <2>. QED
    BY <2>1, <2>3, <2>4 DEF PostsNew, Idle
<1>5. CASE ExportUnaudited
  BY <1>0, <1>5 DEF ExportUnaudited, LogTells, Answered, PostsNew, IdsExist, Idle
<1>6. CASE ExportsLost
  BY <1>0, <1>6 DEF ExportsLost, LogTells, Answered, PostsNew, IdsExist, Idle
<1>7. CASE CaseStep \/ SubmitExport \/ NotSubmitted \/ ExportSkipped \/ UNCHANGED exportVars
  <2>1. UNCHANGED <<exporter, refunds, audited, blind>>
    BY <1>7 DEF CaseStep, SubmitExport, NotSubmitted, ExportSkipped, exportVars
  <2>. QED
    BY <1>0, <2>1, BooksSame
<1>. QED
  BY <1>1, <1>2, <1>3, <1>4, <1>5, <1>6, <1>7 DEF ExportNext, ExporterStep

-----------------------------------------------------------------------------
(* Reports.                                                                *)

\* The lifecycle packages a case only as its analysis returns.
LEMMA PackagesAreSubmitted ==
    ASSUME ExportTypeOK, CaseStep, NEW c \in Cases, package'[c] # None, package[c] = None
    PROVE  c = worker.job.case /\ AnalysisReturns
<1>1. package \in [Cases -> Outcomes \union {None}]
  BY DEF ExportTypeOK, TypeOK
<1>2. CASE CloseInvalid
  BY <1>1, <1>2 DEF CloseInvalid, WritePackage, AnalysisReturns, Idle
<1>3. ASSUME NEW d \in Decisions, Decide(d)
      PROVE  c = worker.job.case /\ AnalysisReturns
  BY <1>1, <1>3 DEF Decide, WritePackage, AnalysisReturns, Idle
<1>4. CloseInvalid \/ (\E d \in Decisions : Decide(d)) \/ UNCHANGED package
  BY DEF CaseStep, AutoStep, AutoSelect, AutoClaim, AutoSubmit, WorkerStep, FetchJob,
         LoadCase, AcquireWindow, AnalysisRaises, ReadForRestore, CommitRestore, HandlerLost, RestoreLost,
         ClientBegin, ClientFinish, ReadForClaim, ReadForReview, CommitClaim, SubmitClaim,
         CommitReview
<1>. QED
  BY <1>2, <1>3, <1>4

\* What waits for the exporter keeps waiting while the process lives, and the case
\* of an analysis that returns begins to.
LEMMA StillPending ==
    ASSUME ExportTypeOK, CaseStep, NEW c \in Cases
    PROVE  /\ ExportPending(c) => ExportPending(c)'
           /\ AnalysisReturns /\ c = worker.job.case => ExportPending(c)'
<1>1. UNCHANGED <<exports, exporter>>
  BY DEF CaseStep
<1>2. CASE WorkerStep /\ Return
  BY <1>1, <1>2 DEF Return, ExportPending, Idle
<1>3. CASE ~(WorkerStep /\ Return)
  <2>1. UNCHANGED returned /\ (AutoStep \/ (\E p \in Clients : ClientBegin(p) \/ ClientFinish(p)))
    BY <1>3 DEF CaseStep
  <2>2. UNCHANGED worker
    BY <2>1 DEF AutoStep, AutoSelect, AutoClaim, AutoSubmit, ClientBegin, ClientFinish,
       ReadForClaim, ReadForReview, CommitClaim, SubmitClaim, CommitReview
  <2>. QED
    BY <1>1, <2>1, <2>2 DEF AnalysisReturns, ExportPending
<1>. QED
  BY <1>2, <1>3

\* What is queued waits where its worker waited.
LEMMA SubmittedPending ==
    ASSUME ExportTypeOK, SubmitExport, NEW c \in Cases, ExportPending(c)
    PROVE  ExportPending(c)'
<1>1. /\ exports \in Seq(Cases) /\ returned.case \in Cases
      /\ exports' = Append(exports, returned.case) /\ UNCHANGED exporter
  BY DEF ExportTypeOK, SubmitExport
<1>2. /\ Len(exports') = Len(exports) + 1 /\ Len(exports) \in Nat
      /\ exports'[Len(exports) + 1] = returned.case
      /\ \A i \in 1..Len(exports) : exports'[i] = exports[i]
  BY <1>1
<1>3. Len(exports) + 1 \in 1..Len(exports') /\ 1..Len(exports) \subseteq 1..Len(exports')
  BY <1>2
<1>. QED
  BY <1>1, <1>2, <1>3 DEF ExportPending

\* Whatever leaves the head of the queue, the rest waits on.
LEMMA TailPending ==
    ASSUME ExportTypeOK, exports # <<>>, exports' = Tail(exports), UNCHANGED returned,
           NEW c \in Cases, c # Head(exports), exporter.pc = "idle", ExportPending(c)
    PROVE  ExportPending(c)'
<1>1. CASE returned.pc = "returned" /\ returned.case = c
  BY <1>1 DEF ExportPending
<1>2. ASSUME NEW i \in 1..Len(exports), exports[i] = c
      PROVE  ExportPending(c)'
  <2>1. i # 1 /\ i - 1 \in 1..Len(exports') /\ exports'[i - 1] = c
    BY <1>2, FirstExport
  <2>. QED
    BY <2>1 DEF ExportPending
<1>. QED
  BY <1>1, <1>2 DEF ExportPending

\* No analysis goes unreported, but for exports that failed.
LEMMA ReportedStep ==
    ASSUME ExportInv, [ExportNext]_<<vars, exportVars>>
    PROVE  Reported'
<1>0. ExportTypeOK /\ Reported /\ IdsExist /\ refunds \in [Cases -> Nat]
  BY DEF ExportInv, ExportTypeOK
<1> SUFFICES ASSUME NEW c \in Cases, package'[c] # None
             PROVE  refunds'[c] > 0 \/ ExportPending(c)' \/ c \in missed'
  BY DEF Reported
<1>1. CASE CaseStep
  <2>1. UNCHANGED <<refunds, missed>>
    BY <1>1 DEF CaseStep
  <2>. QED
    BY <1>0, <1>1, <2>1, PackagesAreSubmitted, StillPending DEF Reported
<1>2. CASE ExporterStep
  <2>0. refunds[c] > 0 \/ ExportPending(c) \/ c \in missed
    BY <1>0, <1>2, ExporterKeeps DEF Reported
  <2>1. CASE ExportRead
    <3>1. /\ exporter.pc = "idle" /\ exports' = Tail(exports) /\ exports # <<>>
          /\ UNCHANGED <<returned, refunds, missed>> /\ Head(exports) \in Cases
      BY <1>0, <2>1, FirstExport DEF ExportRead
    <3>2. CASE c # Head(exports)
      BY <1>0, <2>0, <3>1, <3>2, TailPending
    <3>3. CASE c = Head(exports)
      <4>1. PICK prior \in PriorRefund(c) :
                \/ exporter' = [pc |-> "posting", case |-> c, refund |-> prior]
                \/ prior # NoRefund
        BY <2>1, <3>3 DEF ExportRead
      <4>2. prior # NoRefund => refunds[c] > 0
        BY <1>0 DEF PriorRefund, IdsExist
      <4>. QED
        BY <3>1, <4>1, <4>2 DEF ExportPending
    <3>. QED
      BY <3>2, <3>3
  <2>2. CASE ExportPosted \/ ExportQueued
    <3>1. /\ exporter.pc = "posting" /\ UNCHANGED <<returned, exports, missed>>
          /\ refunds' = AgentRefunds(exporter.case)
      BY <2>2 DEF ExportPosted, ExportQueued
    <3>2. refunds'[c] >= refunds[c] /\ (exporter.case = c => refunds'[c] > 0)
      BY <1>0, <3>1, PostedRefunds DEF IdsExist
    <3>3. exporter.case = c \/ (ExportPending(c) => ExportPending(c)')
      BY <3>1 DEF ExportPending
    <3>. QED
      BY <1>0, <2>0, <3>1, <3>2, <3>3, PostedRefunds
  <2>3. CASE ExportRaises
    <3>1. exporter.pc = "posting" /\ UNCHANGED <<returned, exports>>
      BY <2>3 DEF ExportRaises
    <3>2. exporter.case # c /\ ExportPending(c) => ExportPending(c)'
      BY <3>1 DEF ExportPending
    <3>3. CASE refunds' = AgentRefunds(exporter.case) /\ UNCHANGED missed
      BY <1>0, <2>0, <3>1, <3>2, <3>3, PostedRefunds DEF IdsExist
    <3>4. CASE missed' = missed \union {exporter.case} /\ UNCHANGED refunds
      BY <2>0, <3>2, <3>4
    <3>. QED
      BY <2>3, <3>3, <3>4 DEF ExportRaises
  <2>4. CASE ExportAudited \/ ExportUnaudited
    <3>1. exporter.pc = "answered" /\ UNCHANGED <<returned, exports, refunds, missed>>
      BY <2>4 DEF ExportAudited, ExportUnaudited
    <3>. QED
      BY <2>0, <3>1 DEF ExportPending
  <2>5. CASE SubmitExport
    <3>1. UNCHANGED <<refunds, missed>>
      BY <2>5 DEF SubmitExport
    <3>. QED
      BY <1>0, <2>0, <2>5, <3>1, SubmittedPending
  <2>6. CASE NotSubmitted
    <3>1. /\ UNCHANGED <<exports, exporter, refunds>>
          /\ missed' = missed \union {returned.case}
      BY <2>6 DEF NotSubmitted
    <3>. QED
      BY <2>0, <3>1 DEF ExportPending
  <2>7. CASE ExportSkipped
    <3>1. /\ exporter.pc = "idle" /\ exports' = Tail(exports) /\ exports # <<>>
          /\ UNCHANGED <<returned, refunds>> /\ missed' = missed \union {Head(exports)}
      BY <2>7 DEF ExportSkipped
    <3>. QED
      BY <1>0, <2>0, <3>1, TailPending
  <2>. QED
    BY <1>2, <2>1, <2>2, <2>3, <2>4, <2>5, <2>6, <2>7 DEF ExporterStep
<1>3. CASE Restart /\ ExportsLost
  <2>1. UNCHANGED <<package, refunds>>
    BY <1>3 DEF Restart, ExportsLost
  <2>2. ExportPending(c) => c \in missed'
    BY <1>3 DEF ExportPending, ExportsLost
  <2>3. missed \subseteq missed'
    BY <1>3 DEF ExportsLost
  <2>. QED
    BY <1>0, <2>1, <2>2, <2>3 DEF Reported
<1>4. CASE UNCHANGED <<vars, exportVars>>
  BY <1>0, <1>4 DEF Reported, vars, exportVars, ExportPending
<1>. QED
  BY <1>1, <1>2, <1>3, <1>4 DEF ExportNext

-----------------------------------------------------------------------------
\* Initially nothing is known and nothing needs to be.
LEMMA ExportInvInit == ExportInit => ExportInv
<1> SUFFICES ASSUME ExportInit PROVE ExportInv
  OBVIOUS
<1>1. TypeOK
  BY TypeInit DEF ExportInit
<1>2. \A c \in Cases : refunds[c] = 0 /\ audited[c] = {} /\ package[c] = None
  BY DEF ExportInit, Init
<1>3. ExportTypeOK
  BY <1>1 DEF ExportInit, ExportTypeOK, ExporterStates, Idle
<1>. QED
  BY <1>2, <1>3 DEF ExportInit, ExportInv, LogTells, PostsNew, IdsExist, Reported, Idle, NoRefund

\* The inductive invariant holds of every behaviour.
THEOREM ExportInvariant == ExportSpec => []ExportInv
<1>1. ExportInv /\ [ExportNext]_<<vars, exportVars>> => ExportInv'
  BY ExportTypeStep, LogStep, ReportedStep DEF ExportInv
<1>. QED
  BY <1>1, ExportInvInit, PTL DEF ExportSpec

\* Every variable of the composition keeps its shape.
THEOREM ExportTypeCorrect == ExportSpec => []ExportTypeOK
<1>1. ExportInv => ExportTypeOK
  BY DEF ExportInv
<1>. QED
  BY <1>1, ExportInvariant, PTL

\* The agent holds one refund of a case, unless an id never reached the audit log.
THEOREM RefundedOnce == ExportSpec => []OneRefund
<1>1. ExportInv => OneRefund
  BY DEF ExportInv, OneRefund, LogTells
<1>. QED
  BY <1>1, ExportInvariant, PTL

\* Every analysed case is known at the agent or on its way, or an export failed.
THEOREM AnalysesReported == ExportSpec => []Reported
<1>1. ExportInv => Reported
  BY DEF ExportInv
<1>. QED
  BY <1>1, ExportInvariant, PTL

\* The exporter takes nothing from the lifecycle: the composition implements it.
THEOREM ExportIsBeside == ExportSpec => Spec
<1>1. ExportInit => Init
  BY DEF ExportInit
<1>. QED
  BY <1>1, ExportNextNext, PTL DEF ExportSpec, Spec

\* So a claimed case has a work item on its way beside the exporter as well.
THEOREM CustodyBesideExport == ExportSpec => []Custody
BY ExportIsBeside, CustodyKept, PTL

===============================================================================
