------------------------------ MODULE PosIngest ------------------------------
(***************************************************************************)
(* How sales become events and cases.  Two paths lead into ingest_batch    *)
(* (pos/ingest.py), with sessions of their own:                            *)
(*   - the poller thread asks the POS agent for each workstation's recent  *)
(*     sales, behind a cursor (pos/tillshield_poll.py);                    *)
(*   - the agent posts batches itself and repeats them when it gets no     *)
(*     answer (app/api/integrations_tillshield.py).                        *)
(* The poller writes its state row first, so that what it does for one     *)
(* workstation is one transaction.  A posted batch has no transaction when *)
(* begin_nested opens its first savepoint, and on SQLite the release of an *)
(* outermost savepoint commits: the batch row, every event and every case  *)
(* are committed one by one.                                               *)
(***************************************************************************)
EXTENDS Integers, Sequences, FiniteSets

CONSTANTS
    Sales,        \* transactions of the shop
    Ws, At, Tag,  \* workstation, time and transaction id of each
    Checkouts,    \* the sales of an accepted type
    Polled,       \* allowed_workstation_ids, in the order they are polled
    Posts,        \* the batches the agent may post
    Handlers,     \* requests that can be in progress at once
    Overlap,      \* poll_overlap_seconds
    Lookback,     \* poll_lookback_seconds
    MaxDelay,     \* how late the agent lands a sale
    MaxTime, MaxPosts, MaxFailures   \* bounds of the model

PolledSet == {Polled[i] : i \in 1..Len(Polled)}

ASSUME SalesAssumption ==
    IsFiniteSet(Sales) /\ At \in [Sales -> Nat] /\ Checkouts \subseteq Sales
ASSUME PolledAssumption == Polled \in Seq({Ws[s] : s \in Sales})
ASSUME PostsAssumption == Posts \subseteq SUBSET Sales
ASSUME TimesAssumption == {Overlap, Lookback, MaxDelay, MaxTime} \subseteq Nat
ASSUME IngestBoundsAssumption == {MaxPosts, MaxFailures} \subseteq Nat

VARIABLES
    clock,
    landed,     \* sales the agent can deliver
    cursor,     \* last_txn_at of each polled workstation, or Never
    since,      \* history: start of the poll that gave it its first cursor
    batches,    \* payload hashes of the committed pos_batches rows
    events,     \* sales with a committed pos_events row
    cases,      \* sales whose event has a committed case
    poller,     \* the poller thread
    handler,    \* the posts in progress
    dropped,    \* history: sales answered as duplicates without being stored,
                \* and what was left of the posts that died
    orphaned,   \* history: events whose post died before it opened their case
    budget      \* how much of each bound has been used

tables == <<batches, events, cases>>
vars == <<clock, landed, cursor, since, tables, poller, handler, dropped, orphaned, budget>>

Never == -1        \* last_txn_at is NULL
Idle == [pc |-> "idle"]

Charge(what, limit) ==
    /\ budget[what] < limit
    /\ budget' = [budget EXCEPT ![what] = @ + 1]

-----------------------------------------------------------------------------
(* Time and the agent.                                                     *)

\* The agent lands what is due before its delay is over.
Tick ==
    /\ clock < MaxTime
    /\ \A s \in Sales : At[s] + MaxDelay <= clock => s \in landed
    /\ clock' = clock + 1
    /\ UNCHANGED <<landed, cursor, since, tables, poller, handler, dropped, orphaned, budget>>

Land(s) ==
    /\ s \notin landed
    /\ At[s] <= clock
    /\ landed' = landed \union {s}
    /\ UNCHANGED <<clock, cursor, since, tables, poller, handler, dropped, orphaned, budget>>

-----------------------------------------------------------------------------
(* ingest_batch.                                                           *)

\* raw_for_audit lists the transaction ids, the accepted types and the number of
\* lines: neither store nor workstation.  Batches are listed in time order, in
\* which the ids of a workstation increase, so counting the ids tells as much.
PayloadHash(batch) ==
    [t \in {Tag[s] : s \in batch} |-> Cardinality({s \in batch : Tag[s] = t})]

Duplicate(batch) == PayloadHash(batch) \in batches

\* Sales some post in progress will still store.
InHand == UNION {IF handler[p].pc = "idle" THEN {} ELSE handler[p].todo : p \in Handlers}

\* _duplicate_batch_result counts every sale of the batch as already present.
AnswerDuplicate(batch) == dropped' = dropped \union (batch \ (events \union InHand))

-----------------------------------------------------------------------------
(* The poller: poll_once.                                                  *)

StartCycle ==
    /\ poller.pc = "idle"
    /\ Polled # <<>>
    /\ poller' = [pc |-> "polling", now |-> clock, todo |-> Polled]
    /\ UNCHANGED <<clock, landed, cursor, since, tables, handler, dropped, orphaned, budget>>

\* Defect: the poll starts at the cursor.
NoOverlap(ws) == IF cursor[ws] = Never THEN poller.now - Lookback ELSE cursor[ws]

\* Defect: the overlap is counted back from now, not from the cursor.
BehindNow(ws) == poller.now - (IF cursor[ws] = Never THEN Lookback ELSE Overlap)

\* Where the next poll of a workstation starts.
WindowStart(ws) == IF cursor[ws] = Never THEN poller.now - Lookback ELSE cursor[ws] - Overlap

\* Defect: a cycle that does not end after the last workstation.
NoEnd(todo) == [pc |-> "polling", now |-> poller.now, todo |-> Tail(todo)]

\* What is left of the cycle.
Rest(todo) ==
    IF Len(todo) = 1 THEN Idle ELSE [pc |-> "polling", now |-> poller.now, todo |-> Tail(todo)]

FetchRows ==
    /\ poller.pc = "polling"
    /\ LET ws == Head(poller.todo)
       IN poller' = [pc |-> "fetched", now |-> poller.now, todo |-> poller.todo,
                     rows |-> {s \in landed : /\ Ws[s] = ws
                                              /\ At[s] \in WindowStart(ws)..poller.now}]
    /\ UNCHANGED <<clock, landed, cursor, since, tables, handler, dropped, orphaned, budget>>

\* All attempts failed: the error is recorded and the next workstation polled.
FetchFails ==
    /\ poller.pc = "polling"
    /\ Charge("failures", MaxFailures)
    /\ poller' = Rest(poller.todo)
    /\ UNCHANGED <<clock, landed, cursor, since, tables, handler, dropped, orphaned>>

\* What the new cursor is the latest of: every row looked at, accepted or not.
SeenTimes(ws, rows) == {At[s] : s \in rows} \union {cursor[ws]}

\* The batch, its events, their cases and the cursor are one commit.
CommitPoll ==
    /\ poller.pc = "fetched"
    /\ LET ws == Head(poller.todo)
           batch == poller.rows \intersect Checkouts
       IN /\ IF batch = {} THEN UNCHANGED <<tables, dropped>>
             ELSE IF Duplicate(batch) THEN AnswerDuplicate(batch) /\ UNCHANGED tables
             ELSE /\ batches' = batches \union {PayloadHash(batch)}
                  /\ events' = events \union batch
                  /\ cases' = cases \union (batch \ events)
                  /\ UNCHANGED dropped
          /\ \E t \in SeenTimes(ws, poller.rows) :
                /\ \A u \in SeenTimes(ws, poller.rows) : u <= t
                /\ cursor' = [cursor EXCEPT ![ws] = t]
          /\ since' = IF cursor[ws] = Never /\ poller.rows # {}
                      THEN [since EXCEPT ![ws] = WindowStart(ws)]
                      ELSE since
    /\ poller' = Rest(poller.todo)
    /\ UNCHANGED <<clock, landed, handler, orphaned, budget>>

\* Any other exception, or the death of the process: the transaction is rolled
\* back and the workstations that were left are not polled in this cycle.
CycleAborts ==
    /\ poller.pc # "idle"
    /\ Charge("failures", MaxFailures)
    /\ poller' = Idle
    /\ UNCHANGED <<clock, landed, cursor, since, tables, handler, dropped, orphaned>>

-----------------------------------------------------------------------------
(* A posted batch: POST /integrations/tillshield/transactions/batch.       *)

Remaining(todo) == IF todo = {} THEN Idle ELSE [pc |-> "storing", todo |-> todo]

\* The batch row, or the answer that the batch is known.
PostBatch(p, post) ==
    /\ handler[p].pc = "idle"
    /\ post \subseteq landed
    /\ Charge("posts", MaxPosts)
    /\ LET batch == post \intersect Checkouts
       IN IF batch # {} /\ Duplicate(batch)
          THEN AnswerDuplicate(batch) /\ UNCHANGED <<batches, handler>>
          ELSE /\ batches' = IF batch = {} THEN batches ELSE batches \union {PayloadHash(batch)}
               /\ handler' = [handler EXCEPT ![p] = Remaining(batch)]
               /\ UNCHANGED dropped
    /\ UNCHANGED <<clock, landed, cursor, since, events, cases, poller, orphaned>>

\* Defect: one case for each batch.
OpensLast(todo, s) == IF todo = {s} THEN [pc |-> "opening", todo |-> {}, sale |-> s]
                                    ELSE [pc |-> "storing", todo |-> todo \ {s}]

\* A new event gets a case.
Opens(todo, s) == [pc |-> "opening", todo |-> todo \ {s}, sale |-> s]

\* _upsert_event, oldest first; a sale that is there already opens no case.
StoreEvent(p) ==
    /\ handler[p].pc = "storing"
    /\ \E s \in handler[p].todo :
          /\ \A t \in handler[p].todo : At[s] <= At[t]
          /\ events' = events \union {s}
          /\ handler' = [handler EXCEPT ![p] =
                            IF s \in events THEN Remaining(@.todo \ {s}) ELSE Opens(@.todo, s)]
    /\ UNCHANGED <<clock, landed, cursor, since, batches, cases, poller, dropped, orphaned, budget>>

\* _open_case_for_event.
OpenCase(p) ==
    /\ handler[p].pc = "opening"
    /\ cases' = cases \union {handler[p].sale}
    /\ handler' = [handler EXCEPT ![p] = Remaining(@.todo)]
    /\ UNCHANGED <<clock, landed, cursor, since, batches, events, poller, dropped, orphaned, budget>>

\* A database that stays locked, or the death of the process, between two of
\* these commits.
PostDies(p) ==
    /\ handler[p].pc # "idle"
    /\ Charge("failures", MaxFailures)
    /\ dropped' = dropped \union handler[p].todo
    /\ orphaned' = orphaned \union (IF handler[p].pc = "opening" THEN {handler[p].sale} ELSE {})
    /\ handler' = [handler EXCEPT ![p] = Idle]
    /\ UNCHANGED <<clock, landed, cursor, since, tables, poller>>

-----------------------------------------------------------------------------
Init ==
    /\ clock = 0
    /\ landed = {}
    /\ cursor = [w \in PolledSet |-> Never]
    /\ since = [w \in PolledSet |-> 0]
    /\ batches = {} /\ events = {} /\ cases = {}
    /\ poller = Idle
    /\ handler = [p \in Handlers |-> Idle]
    /\ dropped = {} /\ orphaned = {}
    /\ budget = [posts |-> 0, failures |-> 0]

PollStep == StartCycle \/ FetchRows \/ FetchFails \/ CommitPoll \/ CycleAborts

PostStep(p) == StoreEvent(p) \/ OpenCase(p) \/ PostDies(p)

Next ==
    \/ Tick
    \/ \E s \in Sales : Land(s)
    \/ PollStep
    \/ \E p \in Handlers : \/ \E post \in Posts : PostBatch(p, post)
                           \/ PostStep(p)

Spec == Init /\ [][Next]_vars

\* The poller thread goes on for ever, calls time out, and a request ends; the
\* agent need not post anything.
FairSpec == Spec /\ WF_vars(PollStep) /\ \A p \in Handlers : WF_vars(PostStep(p))

-----------------------------------------------------------------------------
(* Type correctness.                                                       *)

PollerStates ==
    [pc: {"idle"}]
        \union [pc: {"polling"}, now: Nat, todo: Seq(PolledSet)]
        \union [pc: {"fetched"}, now: Nat, todo: Seq(PolledSet), rows: SUBSET Sales]

HandlerStates ==
    [pc: {"idle"}]
        \union [pc: {"storing"}, todo: SUBSET Checkouts]
        \union [pc: {"opening"}, todo: SUBSET Checkouts, sale: Checkouts]

\* Every variable has the shape its declaration describes; a case belongs to an
\* event, and a cycle that goes on has a workstation left.
TypeOK ==
    /\ clock \in Nat
    /\ landed \in SUBSET Sales
    /\ cursor \in [PolledSet -> Nat \union {Never}]
    /\ since \in [PolledSet -> Int]
    /\ events \in SUBSET Checkouts
    /\ cases \in SUBSET events
    /\ poller \in PollerStates
    /\ poller.pc # "idle" => poller.todo # <<>>
    /\ handler \in [Handlers -> HandlerStates]
    /\ dropped \in SUBSET Sales
    /\ orphaned \in SUBSET events
    /\ budget \in [{"posts", "failures"} -> Nat]

-----------------------------------------------------------------------------
(* Safety.                                                                 *)

\* Sales from before the first poll that found anything are not looked for.
TooEarly(s) ==
    LET ws == Ws[s]
    IN IF cursor[ws] = Never THEN At[s] < clock - Lookback ELSE At[s] < since[ws]

\* "so late-arriving rows ... are not skipped" (pos/tillshield_poll.py): while
\* nobody has stored a polled sale or is about to, the cursor has not passed it by
\* more than the overlap, so that the next poll still asks for it: with failed
\* fetches, aborted cycles, posts of the same sales at the same time, and any
\* landing order.
RowsStayReachable ==
    \A s \in Checkouts \ (events \union dropped \union InHand) :
        /\ Ws[s] \in PolledSet
        /\ cursor[Ws[s]] # Never
        /\ ~TooEarly(s)
        => At[s] >= cursor[Ws[s]] - Overlap

\* A checkout event has its case (pos/ingest.py, "opens (at most) one Case"), is
\* about to get it from the post that stored it, or is left by a post that died;
\* whoever stores it first, poller or post, opens the case.
EventsHaveCases ==
    \A s \in events :
        \/ s \in cases
        \/ s \in orphaned
        \/ \E p \in Handlers : handler[p].pc = "opening" /\ handler[p].sale = s

\* What makes both inductive.  A post opens a case for an event it has stored.  A
\* sale the agent has not landed is not overdue; cursor and poll never run ahead
\* of the clock; and what a poll has not fetched from its window was not overdue
\* when the poll began.
PostsInv == \A p \in Handlers : handler[p].pc = "opening" => handler[p].sale \in events

InWindow(s) == Ws[s] = Head(poller.todo) /\ WindowStart(Ws[s]) <= At[s] /\ At[s] <= poller.now

PollInv ==
    /\ \A s \in Sales \ landed : clock <= At[s] + MaxDelay
    /\ \A w \in PolledSet : cursor[w] <= clock
    /\ poller.pc # "idle" => poller.now <= clock
    /\ poller.pc = "fetched" =>
          /\ \A s \in poller.rows : InWindow(s)
          /\ \A s \in Sales \ poller.rows : InWindow(s) => poller.now <= At[s] + MaxDelay

IngestInv ==
    /\ TypeOK
    /\ PostsInv
    /\ EventsHaveCases
    /\ PollInv
    /\ MaxDelay <= Overlap => RowsStayReachable

\* A batch is answered as a duplicate only when its sales are stored: "idempotent
\* on the natural key" (docs/TILLSHIELD_INTEGRATION.md).
DuplicatesAreStored == dropped = {}

-----------------------------------------------------------------------------
(* Liveness, under FairSpec.                                               *)

\* Every sale the agent has landed for a polled workstation is stored in the end,
\* unless it precedes the first poll or was dropped.
CaughtUp ==
    \A s \in Checkouts :
        s \in landed /\ Ws[s] \in PolledSet ~> s \in events \union dropped \/ TooEarly(s)

=============================================================================
