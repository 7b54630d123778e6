------------------------------ MODULE FalconEngine ------------------------------
(***************************************************************************)
(* The continuous-batching engine of Falcon-Perception with the worker     *)
(* process that serves it (server/engine_worker.py, paged_inference.py,    *)
(* paged_attention.py).  The API submits requests and awaits one answer    *)
(* each.  The worker drains its queue, runs one step of the engine - a     *)
(* prefill or a decode over a batch - and harvests what finished; a step   *)
(* that raises fails what is in flight.                                    *)
(*                                                                         *)
(* A request has one sequence; a request for a page layout has one for     *)
(* each region of text, and one answer when all are done.  Sequence i of   *)
(* request r is <<r, i>>.  A page of the cache holds one token, so that    *)
(* lengths are counted in pages; of the cache's page lists only the        *)
(* lengths are kept.                                                       *)
(***************************************************************************)
EXTENDS Naturals, Sequences, SequencesExt, FiniteSetsExt

CONSTANTS
    Requests,
    Layout,         \* those with task "ocr_layout"
    Regions,        \* the number of sequences of each request
    Prompt,         \* the length of its prompt
    MaxNew,         \* max_new_tokens
    MaxSeq,         \* max_seq_length
    NSlots,         \* max_batch_size - 1: batch index 0 is reserved
    NPages,         \* n_pages - 1: page 0 is reserved
    PrefillLimit,   \* prefill_length_limit
    MaxDecode,      \* max_decode_steps_between_prefills
    MaxFailures     \* bound: steps that raise, and the death of the worker

ASSUME RequestsAssumption ==
    /\ Layout \subseteq Requests
    /\ Regions \in [Requests -> Nat \ {0}]
    /\ \A r \in Requests \ Layout : Regions[r] = 1
    /\ Prompt \in [Requests -> 1..MaxSeq]
\* A sequence of the greatest length fits in the cache.
ASSUME SizesAssumption ==
    /\ {MaxNew, NSlots, MaxSeq} \subseteq Nat \ {0}
    /\ NPages \in Nat /\ NPages >= MaxSeq
    /\ {PrefillLimit, MaxDecode, MaxFailures} \subseteq Nat

Seqs == UNION {{<<r, i>> : i \in 1..Regions[r]} : r \in Requests}
Slots == 1..NSlots
NoSlot == 0

VARIABLES
    answer,     \* each request's future in WorkerProxy._pending
    inbox,      \* the worker's request queue
    pc,         \* where the worker's loop is
    batch,      \* the batch being built
    waiting, running, done, since,          \* the engine's; since: _steps_since_prefill
    slot, out,  \* Sequence.batch_idx and the number of tokens generated
    freeSlots, freePages, table, capacity,  \* PagedKVCache
    left,       \* _compound_state: regions of a page still to be harvested
    failures,
    struck,     \* history: requests with a sequence in a batch whose step raised
    refreed     \* history: a slot was erased for a sequence that had lost it before

engine == <<waiting, running, done, since>>
cache == <<freeSlots, freePages, table, capacity>>
history == <<failures, struck, refreed>>
vars == <<answer, inbox, pc, batch, engine, slot, out, cache, left, history>>

Of(s) == s[1]
Tokens(s) == Prompt[Of(s)] + out[s]
SlotsOf(seqs) == [i \in DOMAIN seqs |-> slot[seqs[i]]]
Total(f, S) == MapThenSumSet(LAMBDA x : f[x], S)

\* The members of a queue that are in S, in their order.
Kept(seqs, S) ==
    LET kept[n \in 0..Len(seqs)] ==
            IF n = 0 THEN <<>>
            ELSE IF seqs[n] \in S THEN Append(kept[n - 1], seqs[n]) ELSE kept[n - 1]
    IN  kept[Len(seqs)]

\* resolve: the first response takes the future, another finds none.
Resolved(rs, with) ==
    [r \in Requests |-> IF r \in rs /\ answer[r] = "pending" THEN with ELSE answer[r]]

-----------------------------------------------------------------------------
(* PagedKVCache.                                                           *)

\* Defect: a slot goes back without its pages.
EraseSlotOnly(slots) ==
    /\ freeSlots' = freeSlots \o slots
    /\ UNCHANGED <<freePages, table, capacity>>

\* Defect: the list of pages stays with the slot.
EraseListKept(slots) ==
    /\ freeSlots' = freeSlots \o slots
    /\ freePages' = freePages + Total(table, ToSet(slots))
    /\ capacity' = [b \in Slots |-> IF b \in ToSet(slots) THEN 0 ELSE capacity[b]]
    /\ UNCHANGED table

\* erase, for several slots: a slot goes back to the free list whether or not
\* it is there already, and with it the pages its table lists.
Erase(slots) ==
    /\ freeSlots' = freeSlots \o slots
    /\ freePages' = freePages + Total(table, ToSet(slots))
    /\ table' = [b \in Slots |-> IF b \in ToSet(slots) THEN 0 ELSE table[b]]
    /\ capacity' = [b \in Slots |-> IF b \in ToSet(slots) THEN 0 ELSE capacity[b]]

\* reserve: capacity for n tokens, of which `has` are there.
Reserve(b, has, n) ==
    LET more == IF n <= has THEN 0 ELSE n - has
    IN  /\ more <= freePages
        /\ freePages' = freePages - more
        /\ table' = [table EXCEPT ![b] = @ + more]
        /\ capacity' = [capacity EXCEPT ![b] = has + more]

-----------------------------------------------------------------------------
(* The API.                                                                *)

\* _submit_and_await, select_worker, submit.
Submit(r) ==
    /\ pc # "dead"
    /\ answer[r] = "none"
    /\ answer' = [answer EXCEPT ![r] = "pending"]
    /\ inbox' = Append(inbox, r)
    /\ UNCHANGED <<pc, batch, engine, slot, out, cache, left, history>>

-----------------------------------------------------------------------------
(* The worker drains its queue.                                            *)

TakeRequest ==
    /\ pc = "drain"
    /\ inbox # <<>>
    /\ inbox' = Tail(inbox)
    /\ UNCHANGED <<pc, batch, running, done, since, slot, out, cache, history>>

\* One sequence, or the crops of a page and the state that collects them.
Enqueue ==
    LET r == Head(inbox)
    IN  /\ TakeRequest
        /\ waiting' = waiting \o [i \in 1..Regions[r] |-> <<r, i>>]
        /\ left' = [left EXCEPT ![r] = IF r \in Layout THEN Regions[r] ELSE 0]
        /\ UNCHANGED answer

\* The image cannot be read; or a page without a region of text.
AnswerAtOnce ==
    LET r == Head(inbox)
    IN  /\ TakeRequest
        /\ \E result \in (IF r \in Layout THEN {"ok", "error"} ELSE {"error"}) :
                answer' = Resolved({r}, result)
        /\ UNCHANGED <<waiting, left>>

-----------------------------------------------------------------------------
(* run_one_step.                                                           *)

ShouldPrefill ==
    /\ waiting # <<>> /\ freeSlots # <<>>
    /\ running = <<>> \/ since >= MaxDecode

\* The next part of the loop: a prefill, else a decode, else nothing.
StartStep ==
    /\ pc = "drain" /\ inbox = <<>>
    /\ waiting \o running # <<>>
    /\ pc' = IF ShouldPrefill THEN "admit"
             ELSE IF running # <<>> THEN "reserve" ELSE "harvest"
    /\ UNCHANGED <<answer, inbox, batch, engine, slot, out, cache, left, history>>

\* _build_prefill_batch: the head of the queue, or nobody.
MayAdmit ==
    /\ waiting # <<>> /\ freeSlots # <<>>
    /\ Tokens(Head(waiting)) <= freePages
    /\ batch # <<>> =>
        FoldSeq(LAMBDA s, n : Tokens(s) + n, Tokens(Head(waiting)), batch) < PrefillLimit

\* allocate, which resets the slot's capacity and not its list of pages.
Admit ==
    LET s == Head(waiting)
        b == Last(freeSlots)
    IN  /\ pc = "admit" /\ MayAdmit
        /\ waiting' = Tail(waiting)
        /\ freeSlots' = Front(freeSlots)
        /\ slot' = [slot EXCEPT ![s] = b]
        /\ Reserve(b, 0, Tokens(s))
        /\ batch' = Append(batch, s)
        /\ UNCHANGED <<answer, inbox, pc, running, done, since, out, left, history>>

\* Nobody fits: the step decodes instead.
AdmitsNobody ==
    /\ pc = "admit" /\ ~MayAdmit /\ batch = <<>>
    /\ pc' = IF running # <<>> THEN "reserve" ELSE "harvest"
    /\ UNCHANGED <<answer, inbox, batch, engine, slot, out, cache, left, history>>

\* _build_decode_batch: the oldest gets room for its next token.
Grow ==
    LET s == Head(running)
    IN  /\ pc = "reserve" /\ running # <<>>
        /\ Reserve(slot[s], capacity[slot[s]], Tokens(s))
        /\ running' = Tail(running)
        /\ batch' = Append(batch, s)
        /\ UNCHANGED <<answer, inbox, pc, waiting, done, since, slot, out, freeSlots, left,
                       history>>

\* Defect: the sequence that makes room is forgotten.
RequeuedNot(s) == waiting

\* The sequence that makes room for the others is the next to be admitted.
Requeued(s) == <<s>> \o waiting

\* There is no room: the newest running sequence loses its pages and slot, and
\* keeps the number of the slot.
Preempt ==
    LET s == Head(running)
        newest == Last(running)
    IN  /\ pc = "reserve" /\ running # <<>>
        /\ Tokens(s) > capacity[slot[s]] + freePages
        /\ running' = Front(running)
        /\ waiting' = Requeued(newest)
        /\ Erase(<<slot[newest]>>)
        /\ UNCHANGED <<answer, inbox, pc, batch, done, since, slot, out, left, history>>

DecodesNobody ==
    /\ pc = "reserve" /\ running = <<>> /\ batch = <<>>
    /\ pc' = "harvest"
    /\ UNCHANGED <<answer, inbox, batch, engine, slot, out, cache, left, history>>

\* The batch is complete: the model runs over it.
Ready ==
    /\ batch # <<>>
    /\ \/ pc = "admit" /\ ~MayAdmit
       \/ pc = "reserve" /\ running = <<>>

MustStop(s) == out[s] + 1 = MaxNew \/ Tokens(s) + 1 >= MaxSeq

\* Each sequence of the batch gets a token; those that stop give their slots
\* back, the others go behind those that were running (_check_done).
Forward(stop) ==
    /\ Ready
    /\ stop \subseteq ToSet(batch)
    /\ \A s \in ToSet(batch) : MustStop(s) => s \in stop
    /\ out' = [s \in Seqs |-> IF s \in ToSet(batch) THEN out[s] + 1 ELSE out[s]]
    /\ LET over == Kept(batch, stop)
       IN  done' = done \o over /\ Erase(SlotsOf(over))
    /\ running' = running \o Kept(batch, ToSet(batch) \ stop)
    /\ batch' = <<>>
    /\ since' = IF pc = "admit" THEN 0 ELSE Min({since + 1, MaxDecode})
    /\ pc' = "harvest"
    /\ UNCHANGED <<answer, inbox, waiting, slot, left, history>>

-----------------------------------------------------------------------------
(* A step raises (out of memory, an image that cannot be tokenized).       *)

\* Defect: only those that wait are answered.
InFlightWaiting == waiting

\* Those _fail_all_pending answers and erases: not the batch, which is in
\* neither queue while the step runs.
InFlight == waiting \o running

\* _fail_all_pending.  `over` had been finished when the step raised.
FailStep(over) ==
    LET slotted == Kept(InFlight, {s \in Seqs : slot[s] # NoSlot})
    IN  /\ failures < MaxFailures
        /\ failures' = failures + 1
        /\ Erase(SlotsOf(over) \o SlotsOf(slotted))
        /\ answer' = Resolved({Of(s) : s \in ToSet(InFlight)}, "error")
        /\ left' = [r \in Requests |-> 0]
        /\ done' = done \o over
        /\ waiting' = <<>> /\ running' = <<>> /\ batch' = <<>>
        /\ struck' = struck \union {Of(s) : s \in ToSet(batch)}
        /\ refreed' = (refreed \/ \E s \in ToSet(waiting) : slot[s] # NoSlot)
        /\ pc' = "drain"
        /\ UNCHANGED <<inbox, since, slot, out>>

\* The head of the queue, never admitted, cannot be tokenized: it stays there.
TokenizeRaises ==
    /\ pc = "admit" /\ waiting # <<>> /\ freeSlots # <<>>
    /\ slot[Head(waiting)] = NoSlot
    /\ FailStep(<<>>)

ForwardRaises ==
    /\ Ready
    /\ FailStep(<<>>)

\* finalize raises for the i-th of the batch; those before it that stopped are
\* done.
FinalizeRaises(i, stop) ==
    /\ Ready /\ i \in DOMAIN batch
    /\ stop # {} /\ stop \subseteq {batch[j] : j \in 1..(i - 1)}
    /\ \A j \in 1..(i - 1) : MustStop(batch[j]) => batch[j] \in stop
    /\ FailStep(Kept(batch, stop))

\* The process ends: nothing is accepted any more and nothing answered.
Dies ==
    /\ pc # "dead" /\ failures < MaxFailures
    /\ failures' = failures + 1
    /\ pc' = "dead"
    /\ UNCHANGED <<answer, inbox, batch, engine, slot, out, cache, left, struck, refreed>>

-----------------------------------------------------------------------------
(* _harvest_done.                                                          *)

\* Defect: a page is assembled when one region is still missing.
CollectedEarly(r) == left[r] <= 2

\* All regions of a page are there.
Collected(r) == left[r] = 1

Harvest ==
    LET r == Of(Head(done))
        ends == IF r \in Layout THEN left[r] # 0 /\ Collected(r) ELSE TRUE
    IN  /\ pc = "harvest" /\ done # <<>>
        /\ done' = Tail(done)
        /\ left' = [left EXCEPT ![r] = IF @ = 0 \/ ends THEN 0 ELSE @ - 1]
        /\ IF ends THEN \E result \in {"ok", "error"} : answer' = Resolved({r}, result)
                   ELSE UNCHANGED answer
        /\ UNCHANGED <<inbox, pc, batch, waiting, running, since, slot, out, cache, history>>

Harvested ==
    /\ pc = "harvest" /\ done = <<>>
    /\ pc' = "drain"
    /\ UNCHANGED <<answer, inbox, batch, engine, slot, out, cache, left, history>>

-----------------------------------------------------------------------------

Init ==
    /\ answer = [r \in Requests |-> "none"]
    /\ inbox = <<>> /\ pc = "drain" /\ batch = <<>>
    /\ waiting = <<>> /\ running = <<>> /\ done = <<>> /\ since = 0
    /\ slot = [s \in Seqs |-> NoSlot] /\ out = [s \in Seqs |-> 0]
    /\ freeSlots = [i \in Slots |-> NSlots + 1 - i]
    /\ freePages = NPages
    /\ table = [b \in Slots |-> 0] /\ capacity = [b \in Slots |-> 0]
    /\ left = [r \in Requests |-> 0]
    /\ failures = 0 /\ struck = {} /\ refreed = FALSE

Work ==
    \/ Enqueue \/ AnswerAtOnce \/ StartStep
    \/ Admit \/ AdmitsNobody \/ Grow \/ Preempt \/ DecodesNobody
    \/ \E stop \in SUBSET ToSet(batch) : Forward(stop)
    \/ Harvest \/ Harvested

Raise ==
    \/ TokenizeRaises \/ ForwardRaises \/ Dies
    \/ \E i \in DOMAIN batch, stop \in SUBSET ToSet(batch) : FinalizeRaises(i, stop)

Next == Work \/ Raise \/ \E r \in Requests : Submit(r)

Spec == Init /\ [][Next]_vars

\* The worker's loop goes on; nobody has to submit anything.
FairSpec == Spec /\ WF_vars(Work)

-----------------------------------------------------------------------------

\* The parts of the state have the shape the code gives them.
TypeOK ==
    /\ answer \in [Requests -> {"none", "pending", "ok", "error"}]
    /\ inbox \in Seq(Requests)
    /\ pc \in {"drain", "admit", "reserve", "harvest", "dead"}
    /\ {batch, waiting, running, done} \subseteq Seq(Seqs)
    /\ since \in 0..MaxDecode
    /\ slot \in [Seqs -> Slots \union {NoSlot}]
    /\ out \in [Seqs -> 0..MaxNew]
    /\ freeSlots \in Seq(Slots) /\ freePages \in 0..NPages
    /\ table \in [Slots -> 0..NPages] /\ capacity \in [Slots -> 0..NPages]
    /\ left \in [Requests -> Nat]
    /\ failures \in 0..MaxFailures
    /\ struck \subseteq Requests /\ refreed \in BOOLEAN

AtWork == batch \o running

\* As long as no slot was erased twice: the free slots and those of the
\* sequences at work are all different, each sequence at work has pages for all
\* its tokens but the last, and no page is lost or listed twice, whatever was
\* preempted, finished or failed (allocate, reserve, erase).  Two sequences in
\* one slot would read each other's keys and values.
SlotsExclusive ==
    ~refreed =>
        /\ IsInjective(freeSlots \o SlotsOf(AtWork))
        /\ \A s \in ToSet(AtWork) : capacity[slot[s]] + 1 >= Tokens(s)
        /\ capacity = table
        /\ freePages + Total(table, Slots) = NPages

\* A request without an answer is in the worker's queue, or has a sequence that
\* is queued, at work or done; unless one of its sequences was in a batch whose
\* step raised, or the worker died.
NothingForgotten ==
    \A r \in Requests :
        answer[r] = "pending" /\ r \notin struck /\ pc # "dead" =>
            \/ r \in ToSet(inbox)
            \/ \E s \in ToSet(AtWork \o waiting \o done) : Of(s) = r

\* A page is answered with its text when no region of it is still to be read
\* (_harvest_compound_crop: "All crops done").
WholePage ==
    \A r \in Layout : answer[r] = "ok" =>
        \A s \in ToSet(AtWork \o waiting \o done) : Of(s) # r

\* As long as no step raises, every request is answered, whatever is preempted
\* and however often: the engine never waits for a slot or a page that no one
\* gives back.
RequestsAnswered ==
    \A r \in Requests : answer[r] = "pending" ~> answer[r] \in {"ok", "error"} \/ failures > 0

\* Not so: what the docstring of _fail_all_pending says ("Fail every in-flight sequence
\* with an error response"), of a worker that lives on.
EveryInFlightAnswered ==
    \A r \in struck : answer[r] # "pending" \/ \E s \in ToSet(done) : Of(s) = r

=============================================================================
