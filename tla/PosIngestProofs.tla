-------------------------- MODULE PosIngestProofs --------------------------
(* Theorems about PosIngest, for any sales, workstations, posts and request *)
(* handlers and every bound.  IngestInv, the inductive invariant, is        *)
(* defined beside the properties and also checked by TLC.                   *)
EXTENDS PosIngest, TLAPS

-----------------------------------------------------------------------------
(* The states of the actors.                                               *)

\* Which fields the poller has.
LEMMA PollerShape ==
    ASSUME TypeOK
    PROVE  /\ poller.pc # "idle" => /\ poller.now \in Nat
                                    /\ poller.todo \in Seq(PolledSet)
                                    /\ poller.todo # <<>>
           /\ poller.pc = "fetched" => poller.rows \in SUBSET Sales
BY DEF TypeOK, PollerStates

\* Which fields a post in progress has.
LEMMA HandlerShape ==
    ASSUME TypeOK, NEW p \in Handlers
    PROVE  /\ handler[p].pc # "idle" => handler[p].todo \in SUBSET Checkouts
           /\ handler[p].pc = "opening" => handler[p].sale \in Checkouts
<1>1. handler[p] \in HandlerStates
  BY DEF TypeOK
<1>. QED
  BY <1>1 DEF HandlerStates

\* Using up a bound keeps the counters counters.
LEMMA ChargeType ==
    ASSUME NEW what \in {"posts", "failures"}, NEW limit, TypeOK, Charge(what, limit)
    PROVE  budget' \in [{"posts", "failures"} -> Nat]
BY DEF TypeOK, Charge

\* The workstations that are polled form a sequence over their set.
LEMMA PolledType == Polled \in Seq(PolledSet)
BY PolledAssumption DEF PolledSet

\* What is left of a cycle is idle or goes on with a workstation.
LEMMA RestType ==
    ASSUME TypeOK, poller.pc # "idle"
    PROVE  /\ Rest(poller.todo) \in PollerStates
           /\ Rest(poller.todo).pc \in {"idle", "polling"}
           /\ Rest(poller.todo).pc # "idle" => /\ Rest(poller.todo).now = poller.now
                                               /\ Rest(poller.todo).todo # <<>>
<1>1. poller.todo \in Seq(PolledSet) /\ poller.todo # <<>> /\ poller.now \in Nat
  BY PollerShape
<1>2. Tail(poller.todo) \in Seq(PolledSet)
  BY <1>1
<1>3. Len(poller.todo) # 1 => Tail(poller.todo) # <<>>
  <2>1. Len(poller.todo) \in Nat \ {0}
    BY <1>1
  <2>2. Len(Tail(poller.todo)) = Len(poller.todo) - 1
    BY <1>1, <2>1
  <2>3. Len(poller.todo) # 1 => Len(Tail(poller.todo)) # 0
    BY <2>1, <2>2
  <2>. QED
    BY <2>3
<1>. QED
  BY <1>1, <1>2, <1>3 DEF Rest, Idle, PollerStates

\* What is left of a post.
LEMMA RemainingType ==
    ASSUME NEW todo \in SUBSET Checkouts
    PROVE  /\ Remaining(todo) \in HandlerStates
           /\ Remaining(todo).pc \in {"idle", "storing"}
BY DEF Remaining, Idle, HandlerStates

\* The workstation that is being polled.
LEMMA HeadPolled ==
    ASSUME TypeOK, poller.pc # "idle"
    PROVE  Head(poller.todo) \in PolledSet
BY PollerShape

-----------------------------------------------------------------------------
(* Type correctness.                                                       *)

\* Every step of every actor keeps the shape of the state.
LEMMA TypeStep == TypeOK /\ PostsInv /\ [Next]_vars => TypeOK'
<1> SUFFICES ASSUME TypeOK /\ PostsInv, [Next]_vars
             PROVE  TypeOK'
  OBVIOUS
<1>1. CASE Tick
  BY <1>1 DEF Tick, TypeOK, tables
<1>2. ASSUME NEW s \in Sales, Land(s)
      PROVE  TypeOK'
  BY <1>2 DEF Land, TypeOK, tables
<1>3. CASE StartCycle
  <2>1. poller' \in PollerStates /\ poller'.todo # <<>>
    BY <1>3, PolledType DEF StartCycle, TypeOK, PollerStates
  <2>. QED
    BY <1>3, <2>1 DEF StartCycle, TypeOK, tables
<1>4. CASE FetchRows
  <2>1. poller' \in PollerStates /\ poller'.todo # <<>>
    BY <1>4, PollerShape DEF FetchRows, TypeOK, PollerStates
  <2>. QED
    BY <1>4, <2>1 DEF FetchRows, TypeOK, tables
<1>5. CASE FetchFails
  <2>1. poller' \in PollerStates /\ (poller'.pc # "idle" => poller'.todo # <<>>)
    BY <1>5, RestType DEF FetchFails
  <2>2. budget' \in [{"posts", "failures"} -> Nat]
    BY <1>5, ChargeType DEF FetchFails
  <2>. QED
    BY <1>5, <2>1, <2>2 DEF FetchFails, TypeOK, tables
<1>6. CASE CommitPoll
  <2> DEFINE ws == Head(poller.todo)
             batch == poller.rows \intersect Checkouts
  <2>1. poller' \in PollerStates /\ (poller'.pc # "idle" => poller'.todo # <<>>)
    BY <1>6, RestType DEF CommitPoll
  <2>2. batch \in SUBSET Sales /\ ws \in PolledSet
    BY <1>6, PollerShape, HeadPolled DEF CommitPoll
  <2>3. /\ events' \in SUBSET Checkouts /\ cases' \in SUBSET events'
        /\ orphaned' \in SUBSET events'
        /\ dropped' \in SUBSET Sales
    <3>1. CASE batch = {} \/ Duplicate(batch)
      BY <1>6, <2>2, <3>1 DEF CommitPoll, TypeOK, AnswerDuplicate, tables
    <3>2. CASE ~(batch = {} \/ Duplicate(batch))
      BY <1>6, <2>2, <3>2 DEF CommitPoll, TypeOK
    <3>. QED
      BY <3>1, <3>2
  <2>4. SeenTimes(ws, poller.rows) \subseteq Nat \union {Never}
    BY <1>6, <2>2, PollerShape, SalesAssumption DEF CommitPoll, TypeOK, SeenTimes
  <2>5. cursor' \in [PolledSet -> Nat \union {Never}]
    BY <1>6, <2>4 DEF CommitPoll, TypeOK
  <2>6. WindowStart(ws) \in Int
    BY <1>6, <2>2, PollerShape, TimesAssumption DEF CommitPoll, TypeOK, WindowStart, Never
  <2>7. since' \in [PolledSet -> Int]
    BY <1>6, <2>6 DEF CommitPoll, TypeOK
  <2>. QED
    BY <1>6, <2>1, <2>3, <2>5, <2>7 DEF CommitPoll, TypeOK
<1>7. CASE CycleAborts
  <2>1. poller' \in PollerStates
    BY <1>7 DEF CycleAborts, Idle, PollerStates
  <2>2. budget' \in [{"posts", "failures"} -> Nat]
    BY <1>7, ChargeType DEF CycleAborts
  <2>. QED
    BY <1>7, <2>1, <2>2 DEF CycleAborts, Idle, TypeOK, tables
<1>8. ASSUME NEW p \in Handlers, NEW post \in Posts, PostBatch(p, post)
      PROVE  TypeOK'
  <2> DEFINE batch == post \intersect Checkouts
  <2>1. batch \in SUBSET Checkouts /\ batch \in SUBSET Sales
    BY PostsAssumption
  <2>2. handler' \in [Handlers -> HandlerStates]
    BY <1>8, <2>1, RemainingType DEF PostBatch, TypeOK
  <2>3. dropped' \in SUBSET Sales
    BY <1>8, <2>1 DEF PostBatch, TypeOK, AnswerDuplicate
  <2>4. budget' \in [{"posts", "failures"} -> Nat]
    BY <1>8, ChargeType DEF PostBatch
  <2>. QED
    BY <1>8, <2>2, <2>3, <2>4 DEF PostBatch, TypeOK
<1>9. ASSUME NEW p \in Handlers, StoreEvent(p)
      PROVE  TypeOK'
  <2>1. PICK s \in handler[p].todo :
           /\ events' = events \union {s}
           /\ handler' = [handler EXCEPT ![p] =
                 IF s \in events THEN Remaining(@.todo \ {s}) ELSE Opens(@.todo, s)]
    BY <1>9 DEF StoreEvent
  <2>2. handler[p].todo \in SUBSET Checkouts
    BY <1>9, HandlerShape DEF StoreEvent
  <2>3. /\ Remaining(handler[p].todo \ {s}) \in HandlerStates
        /\ Opens(handler[p].todo, s) \in HandlerStates
    BY <2>2, RemainingType DEF Opens, HandlerStates
  <2>4. handler' \in [Handlers -> HandlerStates]
    BY <2>1, <2>3 DEF TypeOK
  <2>. QED
    BY <1>9, <2>1, <2>2, <2>4 DEF StoreEvent, TypeOK
<1>10. ASSUME NEW p \in Handlers, OpenCase(p)
      PROVE  TypeOK'
  <2>1. handler' \in [Handlers -> HandlerStates]
    BY <1>10, HandlerShape, RemainingType DEF OpenCase, TypeOK
  <2>2. handler[p].sale \in events
    BY <1>10 DEF OpenCase, PostsInv
  <2>. QED
    BY <1>10, <2>1, <2>2 DEF OpenCase, TypeOK
<1>11. ASSUME NEW p \in Handlers, PostDies(p)
      PROVE  TypeOK'
  <2>1. handler' \in [Handlers -> HandlerStates]
    BY <1>11 DEF PostDies, Idle, TypeOK, HandlerStates
  <2>2. dropped' \in SUBSET Sales /\ orphaned' \in SUBSET events
    BY <1>11, HandlerShape, SalesAssumption DEF PostDies, TypeOK, PostsInv
  <2>3. budget' \in [{"posts", "failures"} -> Nat]
    BY <1>11, ChargeType DEF PostDies
  <2>. QED
    BY <1>11, <2>1, <2>2, <2>3 DEF PostDies, TypeOK, tables
<1>12. CASE UNCHANGED vars
  BY <1>12 DEF vars, tables, TypeOK
<1>. QED
  BY <1>1, <1>2, <1>3, <1>4, <1>5, <1>6, <1>7, <1>8, <1>9, <1>10, <1>11, <1>12
     DEF Next, PollStep, PostStep

-----------------------------------------------------------------------------
(* The parts of the inductive invariant.                                   *)

\* A post opens a case for an event it has stored.
LEMMA PostsStep == TypeOK /\ PostsInv /\ [Next]_vars => PostsInv'
<1> SUFFICES ASSUME TypeOK /\ PostsInv, [Next]_vars
             PROVE  PostsInv'
  OBVIOUS
<1>1. CASE Tick
  BY <1>1 DEF Tick, tables, PostsInv
<1>2. ASSUME NEW s \in Sales, Land(s)
      PROVE  PostsInv'
  BY <1>2 DEF Land, tables, PostsInv
<1>3. CASE StartCycle
  BY <1>3 DEF StartCycle, tables, PostsInv
<1>4. CASE FetchRows
  BY <1>4 DEF FetchRows, tables, PostsInv
<1>5. CASE FetchFails
  BY <1>5 DEF FetchFails, tables, PostsInv
<1>6. CASE CommitPoll
  BY <1>6 DEF CommitPoll, tables, PostsInv
<1>7. CASE CycleAborts
  BY <1>7 DEF CycleAborts, tables, PostsInv
<1>8. ASSUME NEW p \in Handlers, NEW post \in Posts, PostBatch(p, post)
      PROVE  PostsInv'
  <2>1. handler'[p].pc # "opening"
    BY <1>8, RemainingType DEF PostBatch, TypeOK
  <2>. QED
    BY <1>8, <2>1 DEF PostBatch, PostsInv, TypeOK
<1>9. ASSUME NEW p \in Handlers, StoreEvent(p)
      PROVE  PostsInv'
  <2>1. PICK s \in handler[p].todo :
           /\ events' = events \union {s}
           /\ handler' = [handler EXCEPT ![p] =
                 IF s \in events THEN Remaining(@.todo \ {s}) ELSE Opens(@.todo, s)]
    BY <1>9 DEF StoreEvent
  <2>2. Remaining(handler[p].todo \ {s}).pc # "opening" /\ Opens(handler[p].todo, s).sale = s
    BY <1>9, HandlerShape, RemainingType DEF StoreEvent, Opens
  <2>. QED
    BY <2>1, <2>2 DEF PostsInv, TypeOK
<1>10. ASSUME NEW p \in Handlers, OpenCase(p)
      PROVE  PostsInv'
  <2>1. handler'[p].pc # "opening"
    BY <1>10, HandlerShape, RemainingType DEF OpenCase, TypeOK
  <2>. QED
    BY <1>10, <2>1 DEF OpenCase, PostsInv, TypeOK
<1>11. ASSUME NEW p \in Handlers, PostDies(p)
      PROVE  PostsInv'
  BY <1>11 DEF PostDies, tables, Idle, PostsInv, TypeOK
<1>12. CASE UNCHANGED vars
  BY <1>12 DEF vars, tables, PostsInv
<1>. QED
  BY <1>1, <1>2, <1>3, <1>4, <1>5, <1>6, <1>7, <1>8, <1>9, <1>10, <1>11, <1>12
     DEF Next, PollStep, PostStep

\* Whoever stores an event opens its case, or is left as an orphan.
LEMMA CasesStep == TypeOK /\ EventsHaveCases /\ [Next]_vars => EventsHaveCases'
<1> SUFFICES ASSUME TypeOK /\ EventsHaveCases, [Next]_vars
             PROVE  EventsHaveCases'
  OBVIOUS
<1>1. CASE Tick
  BY <1>1 DEF Tick, tables, EventsHaveCases
<1>2. ASSUME NEW s \in Sales, Land(s)
      PROVE  EventsHaveCases'
  BY <1>2 DEF Land, tables, EventsHaveCases
<1>3. CASE StartCycle
  BY <1>3 DEF StartCycle, tables, EventsHaveCases
<1>4. CASE FetchRows
  BY <1>4 DEF FetchRows, tables, EventsHaveCases
<1>5. CASE FetchFails
  BY <1>5 DEF FetchFails, tables, EventsHaveCases
<1>6. CASE CommitPoll
  BY <1>6 DEF CommitPoll, tables, EventsHaveCases
<1>7. CASE CycleAborts
  BY <1>7 DEF CycleAborts, tables, EventsHaveCases
<1>8. ASSUME NEW p \in Handlers, NEW post \in Posts, PostBatch(p, post)
      PROVE  EventsHaveCases'
  BY <1>8 DEF PostBatch, TypeOK, EventsHaveCases
<1>9. ASSUME NEW p \in Handlers, StoreEvent(p)
      PROVE  EventsHaveCases'
  <2>1. PICK s \in handler[p].todo :
           /\ events' = events \union {s}
           /\ handler' = [handler EXCEPT ![p] =
                 IF s \in events THEN Remaining(@.todo \ {s}) ELSE Opens(@.todo, s)]
    BY <1>9 DEF StoreEvent
  <2>2. \A q \in Handlers : handler[q].pc = "opening" => handler'[q] = handler[q]
    BY <1>9, <2>1 DEF StoreEvent, TypeOK
  <2>3. s \in events \/ (handler'[p].pc = "opening" /\ handler'[p].sale = s)
    BY <1>9, <2>1 DEF StoreEvent, TypeOK, Opens
  <2>. QED
    BY <1>9, <2>1, <2>2, <2>3 DEF StoreEvent, EventsHaveCases
<1>10. ASSUME NEW p \in Handlers, OpenCase(p)
      PROVE  EventsHaveCases'
  BY <1>10 DEF OpenCase, TypeOK, EventsHaveCases
<1>11. ASSUME NEW p \in Handlers, PostDies(p)
      PROVE  EventsHaveCases'
  BY <1>11 DEF PostDies, tables, TypeOK, EventsHaveCases
<1>12. CASE UNCHANGED vars
  BY <1>12 DEF vars, tables, EventsHaveCases
<1>. QED
  BY <1>1, <1>2, <1>3, <1>4, <1>5, <1>6, <1>7, <1>8, <1>9, <1>10, <1>11, <1>12
     DEF Next, PollStep, PostStep

\* Cursor and poll stay behind the clock, and a poll misses only what may be late.
LEMMA PollStepKept == TypeOK /\ PollInv /\ [Next]_vars => PollInv'
<1> SUFFICES ASSUME TypeOK /\ PollInv, [Next]_vars
             PROVE  PollInv'
  OBVIOUS
<1>1. CASE Tick
  <2>1. \A s \in Sales \ landed : clock + 1 <= At[s] + MaxDelay
    BY <1>1, SalesAssumption, TimesAssumption DEF Tick, TypeOK
  <2>2. \A w \in PolledSet : cursor[w] <= clock + 1
    BY DEF TypeOK, PollInv, Never
  <2>3. poller.pc # "idle" => poller.now <= clock + 1
    BY PollerShape DEF TypeOK, PollInv
  <2>. QED
    BY <1>1, <2>1, <2>2, <2>3 DEF Tick, PollInv, InWindow, WindowStart
<1>2. ASSUME NEW s \in Sales, Land(s)
      PROVE  PollInv'
  BY <1>2 DEF Land, PollInv, InWindow, WindowStart
<1>3. CASE StartCycle
  BY <1>3 DEF StartCycle, TypeOK, PollInv
<1>4. CASE FetchRows
  <2> DEFINE ws == Head(poller.todo)
  <2>1. poller' = [pc |-> "fetched", now |-> poller.now, todo |-> poller.todo,
                   rows |-> {s \in landed : /\ Ws[s] = ws
                                            /\ At[s] \in WindowStart(ws)..poller.now}]
    BY <1>4 DEF FetchRows
  <2>2. \A w \in PolledSet : WindowStart(w)' = WindowStart(w) /\ WindowStart(w) \in Int
    BY <1>4, <2>1, PollerShape, TimesAssumption DEF FetchRows, TypeOK, WindowStart, Never
  <2>3. poller.now \in Nat /\ poller.now <= clock /\ ws \in PolledSet
    BY <1>4, PollerShape, HeadPolled DEF FetchRows, PollInv
  <2>4. \A s \in poller'.rows : InWindow(s)'
    BY <2>1, <2>2, <2>3, SalesAssumption DEF TypeOK, InWindow
  <2>5. ASSUME NEW s \in Sales \ poller'.rows, InWindow(s)'
        PROVE  poller.now <= At[s] + MaxDelay
    <3>1. s \notin landed
      BY <2>1, <2>2, <2>3, <2>5, SalesAssumption DEF InWindow
    <3>2. clock <= At[s] + MaxDelay
      BY <3>1 DEF PollInv
    <3>. QED
      BY <2>3, <3>2, SalesAssumption, TimesAssumption DEF TypeOK
  <2>. QED
    BY <1>4, <2>1, <2>3, <2>4, <2>5 DEF FetchRows, PollInv
<1>5. CASE FetchFails
  BY <1>5, RestType DEF FetchFails, PollInv
<1>6. CASE CommitPoll
  <2> DEFINE ws == Head(poller.todo)
  <2>1. PICK t \in SeenTimes(ws, poller.rows) : cursor' = [cursor EXCEPT ![ws] = t]
    BY <1>6 DEF CommitPoll
  <2>2. t <= clock
    <3>1. poller.now <= clock /\ poller.now \in Nat /\ ws \in PolledSet
      BY <1>6, PollerShape, HeadPolled DEF CommitPoll, PollInv
    <3>2. \A s \in poller.rows : At[s] <= poller.now /\ At[s] \in Nat
      BY <1>6, PollerShape, SalesAssumption DEF CommitPoll, PollInv, InWindow
    <3>. QED
      BY <2>1, <3>1, <3>2 DEF SeenTimes, TypeOK, PollInv
  <2>3. \A w \in PolledSet : cursor'[w] <= clock
    BY <2>1, <2>2 DEF TypeOK, PollInv
  <2>. QED
    BY <1>6, <2>3, RestType DEF CommitPoll, PollInv
<1>7. CASE CycleAborts
  BY <1>7 DEF CycleAborts, Idle, PollInv
<1>8. ASSUME NEW p \in Handlers, NEW post \in Posts, PostBatch(p, post)
      PROVE  PollInv'
  BY <1>8 DEF PostBatch, PollInv, InWindow, WindowStart
<1>9. ASSUME NEW p \in Handlers, StoreEvent(p)
      PROVE  PollInv'
  BY <1>9 DEF StoreEvent, PollInv, InWindow, WindowStart
<1>10. ASSUME NEW p \in Handlers, OpenCase(p)
      PROVE  PollInv'
  BY <1>10 DEF OpenCase, PollInv, InWindow, WindowStart
<1>11. ASSUME NEW p \in Handlers, PostDies(p)
      PROVE  PollInv'
  BY <1>11 DEF PostDies, PollInv, InWindow, WindowStart
<1>12. CASE UNCHANGED vars
  BY <1>12 DEF vars, PollInv, InWindow, WindowStart
<1>. QED
  BY <1>1, <1>2, <1>3, <1>4, <1>5, <1>6, <1>7, <1>8, <1>9, <1>10, <1>11, <1>12
     DEF Next, PollStep, PostStep

\* With an overlap as long as the agent's delay the cursor never leaves a sale behind:
\* what the poll did not fetch was not overdue, so it is no more than the delay older
\* than anything the cursor can have reached.
LEMMA ReachableStep == IngestInv /\ MaxDelay <= Overlap /\ [Next]_vars => RowsStayReachable'
<1> SUFFICES ASSUME IngestInv /\ MaxDelay <= Overlap, [Next]_vars
             PROVE  RowsStayReachable'
  OBVIOUS
<1>0. TypeOK /\ PollInv /\ RowsStayReachable
  BY DEF IngestInv
<1> USE <1>0
<1>1. CASE Tick
  BY <1>1 DEF Tick, tables, RowsStayReachable, TooEarly, InHand
<1>2. ASSUME NEW s \in Sales, Land(s)
      PROVE  RowsStayReachable'
  BY <1>2 DEF Land, tables, RowsStayReachable, TooEarly, InHand
<1>3. CASE StartCycle
  BY <1>3 DEF StartCycle, tables, RowsStayReachable, TooEarly, InHand
<1>4. CASE FetchRows
  BY <1>4 DEF FetchRows, tables, RowsStayReachable, TooEarly, InHand
<1>5. CASE FetchFails
  BY <1>5 DEF FetchFails, tables, RowsStayReachable, TooEarly, InHand
<1>6. CASE CommitPoll
  <2> DEFINE ws == Head(poller.todo)
             batch == poller.rows \intersect Checkouts
  <2>1. PICK t \in SeenTimes(ws, poller.rows) :
           /\ \A u \in SeenTimes(ws, poller.rows) : u <= t
           /\ cursor' = [cursor EXCEPT ![ws] = t]
    BY <1>6 DEF CommitPoll
  <2>2. ws \in PolledSet /\ poller.now \in Nat /\ poller.now <= clock /\ poller.rows \in SUBSET Sales
    BY <1>6, PollerShape, HeadPolled DEF CommitPoll, PollInv
  <2>3. InHand' = InHand
    BY <1>6 DEF CommitPoll, InHand
  <2>4. events \union dropped \subseteq events' \union dropped'
    BY <1>6 DEF CommitPoll, tables, AnswerDuplicate
  <2>5. batch \subseteq events' \union dropped' \union InHand
    <3>1. CASE batch # {} /\ Duplicate(batch)
      BY <1>6, <3>1 DEF CommitPoll, AnswerDuplicate, tables
    <3>2. CASE batch # {} /\ ~Duplicate(batch)
      BY <1>6, <3>2 DEF CommitPoll
    <3>. QED
      BY <3>1, <3>2
  <2>6. SUFFICES ASSUME NEW s \in Checkouts \ (events' \union dropped' \union InHand),
                        Ws[s] \in PolledSet, cursor'[Ws[s]] # Never,
                        ~(At[s] < since'[Ws[s]])
                 PROVE  At[s] >= cursor'[Ws[s]] - Overlap
    BY <2>3 DEF RowsStayReachable, TooEarly
  <2>7. At[s] \in Nat /\ s \in Sales
    BY SalesAssumption
  <2>8. CASE Ws[s] # ws
    <3>1. cursor'[Ws[s]] = cursor[Ws[s]] /\ since'[Ws[s]] = since[Ws[s]]
      BY <1>6, <2>1, <2>2, <2>6, <2>8 DEF CommitPoll, TypeOK
    <3>. QED
      BY <2>4, <2>6, <3>1 DEF RowsStayReachable, TooEarly
  <2>9. CASE Ws[s] = ws
    <3>1. cursor'[ws] = t /\ t # Never
      BY <2>1, <2>2, <2>6, <2>9 DEF TypeOK
    <3>2. s \notin poller.rows
      BY <2>5, <2>6
    <3>3. \A r \in poller.rows : At[r] \in Nat /\ At[r] <= poller.now
      BY <1>6, <2>2, SalesAssumption DEF CommitPoll, PollInv, InWindow
    <3>4. t = cursor[ws] \/ (t \in Nat /\ t <= poller.now /\ poller.rows # {})
      BY <2>1, <3>3 DEF SeenTimes
    <3>5. At[s] >= WindowStart(ws)
      <4>1. CASE cursor[ws] = Never
        BY <1>6, <2>2, <2>6, <2>7, <2>9, <3>1, <3>4, <4>1, TimesAssumption
           DEF CommitPoll, TypeOK, WindowStart
      <4>2. CASE cursor[ws] # Never
        <5>1. since'[ws] = since[ws]
          BY <1>6, <2>2, <4>2 DEF CommitPoll, TypeOK
        <5>. QED
          BY <2>2, <2>4, <2>6, <2>9, <4>2, <5>1
             DEF RowsStayReachable, TooEarly, WindowStart
      <4>. QED
        BY <4>1, <4>2
    <3>6. CASE t = cursor[ws]
      BY <2>9, <3>1, <3>5, <3>6 DEF WindowStart
    <3>7. CASE t # cursor[ws]
      <4>1. poller.now <= At[s] + MaxDelay
        <5>1. CASE At[s] <= poller.now
          BY <1>6, <2>7, <2>9, <3>2, <3>5, <5>1 DEF CommitPoll, PollInv, InWindow
        <5>2. CASE At[s] > poller.now
          BY <2>2, <2>7, <5>2, TimesAssumption
        <5>. QED
          BY <2>2, <2>7, <5>1, <5>2
      <4>. QED
        BY <2>2, <2>7, <2>9, <3>1, <3>4, <3>7, <4>1, TimesAssumption
    <3>. QED
      BY <3>6, <3>7
  <2>. QED
    BY <2>8, <2>9
<1>7. CASE CycleAborts
  BY <1>7 DEF CycleAborts, tables, RowsStayReachable, TooEarly, InHand
<1>8. ASSUME NEW p \in Handlers, NEW post \in Posts, PostBatch(p, post)
      PROVE  RowsStayReachable'
  <2>1. InHand \subseteq InHand'
    BY <1>8 DEF PostBatch, TypeOK, InHand
  <2>2. dropped \subseteq dropped'
    BY <1>8 DEF PostBatch, AnswerDuplicate
  <2>. QED
    BY <1>8, <2>1, <2>2 DEF PostBatch, RowsStayReachable, TooEarly
<1>9. ASSUME NEW p \in Handlers, StoreEvent(p)
      PROVE  RowsStayReachable'
  <2>1. PICK s \in handler[p].todo :
           /\ events' = events \union {s}
           /\ handler' = [handler EXCEPT ![p] =
                 IF s \in events THEN Remaining(@.todo \ {s}) ELSE Opens(@.todo, s)]
    BY <1>9 DEF StoreEvent
  <2>2. InHand \subseteq InHand' \union {s}
    BY <2>1 DEF TypeOK, InHand, Remaining, Opens, Idle
  <2>. QED
    BY <1>9, <2>1, <2>2 DEF StoreEvent, RowsStayReachable, TooEarly
<1>10. ASSUME NEW p \in Handlers, OpenCase(p)
      PROVE  RowsStayReachable'
  <2>1. InHand \subseteq InHand'
    BY <1>10 DEF OpenCase, TypeOK, InHand, Remaining, Idle
  <2>. QED
    BY <1>10, <2>1 DEF OpenCase, RowsStayReachable, TooEarly
<1>11. ASSUME NEW p \in Handlers, PostDies(p)
      PROVE  RowsStayReachable'
  <2>1. InHand \subseteq InHand' \union handler[p].todo
    BY <1>11 DEF PostDies, TypeOK, InHand
  <2>. QED
    BY <1>11, <2>1 DEF PostDies, tables, RowsStayReachable, TooEarly
<1>12. CASE UNCHANGED vars
  BY <1>12 DEF vars, tables, RowsStayReachable, TooEarly, InHand
<1>. QED
  BY <1>1, <1>2, <1>3, <1>4, <1>5, <1>6, <1>7, <1>8, <1>9, <1>10, <1>11, <1>12
     DEF Next, PollStep, PostStep

-----------------------------------------------------------------------------
(* The theorems.                                                           *)

\* At first nothing has landed and nobody has polled or posted.
LEMMA IngestInit == Init => IngestInv
<1> SUFFICES ASSUME Init PROVE IngestInv
  OBVIOUS
<1>1. TypeOK
  BY DEF Init, TypeOK, PollerStates, HandlerStates, Idle, Never
<1>2. PollInv
  BY SalesAssumption, TimesAssumption DEF Init, PollInv, Idle, Never
<1>3. PostsInv /\ EventsHaveCases /\ RowsStayReachable
  BY DEF Init, PostsInv, EventsHaveCases, RowsStayReachable, Idle
<1>. QED
  BY <1>1, <1>2, <1>3 DEF IngestInv

\* The inductive invariant holds of every behaviour.
THEOREM IngestInvariant == Spec => []IngestInv
<1>1. IngestInv /\ [Next]_vars => IngestInv'
  BY TypeStep, PostsStep, CasesStep, PollStepKept, ReachableStep DEF IngestInv
<1>. QED
  BY <1>1, IngestInit, PTL DEF Spec

\* Every reachable state is well typed.
THEOREM TypeCorrect == Spec => []TypeOK
BY IngestInvariant, PTL DEF IngestInv

\* Every stored checkout has its case, unless the post that stored it is about to
\* open it or has died before it could.
THEOREM EventsGetCases == Spec => []EventsHaveCases
BY IngestInvariant, PTL DEF IngestInv

\* When the agent lands no sale later than the overlap of the poll, no sale is ever
\* behind the reach of the next poll.
THEOREM NothingLeftBehind ==
    ASSUME MaxDelay <= Overlap
    PROVE  Spec => []RowsStayReachable
<1>1. IngestInv => RowsStayReachable
  BY DEF IngestInv
<1>. QED
  BY <1>1, IngestInvariant, PTL

=============================================================================
