------------------------------ MODULE ModelMemory ------------------------------
(***************************************************************************)
(* The memory guard (app/memory_guard.py) and the chain of vision          *)
(* providers (reasoning/providers/chain.py).  An analysis builds a chain   *)
(* of new provider objects, polls the guard and tries the providers in     *)
(* order; the operations panel builds chains only to show them.  A poll    *)
(* measures the memory before it takes the guard's lock and, when it finds *)
(* the hard limit crossed, unloads the registered objects under the lock.  *)
(*                                                                         *)
(* A provider object is <<chain, name>>.  Weights are loaded into this     *)
(* process by the providers in InProcess (qwen3_vl with the                *)
(* local_transformers backend); the others are HTTP clients.  How much     *)
(* memory is used is up to the environment.                                *)
(***************************************************************************)
EXTENDS Naturals, Sequences, FiniteSets

CONSTANTS
    Analyses,       \* threads that analyse: the auto-analyzer, the reprocess pool
    Viewers,        \* threads of the API that poll or build a chain for a panel
    Order,          \* the configured providers, primary first
    InProcess,      \* those that load weights into this process
    MaxBuilt, MaxViews      \* bounds: chains built, polls of viewers

Names == {Order[i] : i \in 1..Len(Order)}
Levels == {"normal", "soft", "hard", "emergency"}
Threads == Analyses \union Viewers

ASSUME OrderAssumption ==
    /\ Order \in Seq(STRING) /\ Order # <<>>
    /\ InProcess \subseteq Names
    /\ \A i, j \in 1..Len(Order) : Order[i] = Order[j] => i = j
ASSUME ThreadsAssumption == Analyses \intersect Viewers = {} /\ "none" \notin Threads
ASSUME MemoryBoundsAssumption == {MaxBuilt, MaxViews} \subseteq Nat

VARIABLES
    state,      \* MemoryPolicy._state
    reason,     \* _degraded_reason: the limit it tells of, or "none"
    callbacks,  \* _unload_callbacks: the chain whose object is registered by name
    loaded,     \* _loaded_providers
    holder,     \* the thread in the guard's lock, if any, and what it has to do
    poll,       \* each thread: what it measured before it took the lock
    run,        \* each analysis
    weights,    \* the objects whose _model is set
    built,      \* number of chains built
    views,      \* number of polls of viewers
    late,       \* history: objects loaded when the hard limit was crossed
    stale       \* history: a poll went by a state another poll had changed

guard == <<state, reason, callbacks, loaded, holder>>
history == <<late, stale>>
vars == <<guard, poll, run, weights, built, views, history>>

Free == [thread |-> "none"]
NotPolling == [pc |-> "none"]
Idle == [pc |-> "idle"]

\* A chain of one provider is that provider: no poll, no registration.
Chained == Len(Order) > 1

LockFree == holder = Free

Current(a) == Order[run[a].at]
Object(a) == <<run[a].chain, Current(a)>>

\* The object's _load_lock is held while its weights are being read.
Loading(object) == \E a \in Analyses : run[a].pc = "loading" /\ Object(a) = object

-----------------------------------------------------------------------------
(* MemoryPolicy.poll.                                                      *)

\* Memory and previous state are read without the lock; the memory in use is
\* at any level.
Probe(t, level) ==
    /\ poll[t].pc = "none"
    /\ poll' = [poll EXCEPT ![t] = [pc |-> "probed", level |-> level, prev |-> state]]
    /\ UNCHANGED <<guard, run, weights, built, history>>

\* GET /memory and the operations panel.
View(v, level) ==
    /\ views < MaxViews
    /\ views' = views + 1
    /\ Probe(v, level)

\* Defect: the state is the reason, normal or not.
ReasonVerbatim(level) == level

\* _on_state_change: what it says, and the callbacks the hard limit runs.
\* The emergency limit runs the stop callbacks, and none is ever registered.
Reason(level) == IF level = "normal" THEN "none" ELSE level

\* Defect: only a rise to the hard limit unloads.
ToUnloadRising(prev, level) ==
    IF level = "hard" /\ prev \in {"normal", "soft"} THEN DOMAIN callbacks ELSE {}

ToUnload(prev, level) == IF level = "hard" THEN DOMAIN callbacks ELSE {}

\* The status goes back: an analysis looks at it, a viewer shows it.
PollEnds(t, level) ==
    /\ poll' = [poll EXCEPT ![t] = NotPolling]
    /\ run' = IF t \in Analyses
              THEN [run EXCEPT ![t] = [pc |-> "next", chain |-> @.chain, at |-> 1,
                                       allowed |-> level = "normal"]]
              ELSE run

\* The lock is taken and, if there is nothing to unload, given back.
PollEnter(t) ==
    LET level == poll[t].level
        prev == poll[t].prev
        todo == IF level = prev THEN {} ELSE ToUnload(prev, level)
    IN  /\ poll[t].pc = "probed"
        /\ LockFree
        /\ state' = level
        /\ reason' = IF level = prev THEN reason ELSE Reason(level)
        /\ stale' = (stale \/ prev # state)
        /\ IF todo = {} THEN PollEnds(t, level) /\ holder' = Free
           ELSE /\ holder' = [thread |-> t, todo |-> todo]
                /\ poll' = [poll EXCEPT ![t] = [pc |-> "inside"]]
                /\ UNCHANGED run
        /\ UNCHANGED <<callbacks, loaded, weights, built, views, late>>

\* One callback: the registered object's unload waits for a load to finish.
PollUnload(t, name) ==
    LET object == <<callbacks[name], name>>
    IN  /\ holder.thread = t
        /\ name \in holder.todo
        /\ ~Loading(object)
        /\ weights' = weights \ {object}
        /\ loaded' = loaded \ {name}
        /\ late' = late \ {object}
        /\ IF holder.todo = {name} THEN PollEnds(t, state) /\ holder' = Free
           ELSE /\ holder' = [holder EXCEPT !.todo = @ \ {name}]
                /\ UNCHANGED <<poll, run>>
        /\ UNCHANGED <<state, reason, callbacks, built, views, stale>>

-----------------------------------------------------------------------------
(* Chains.  An object nobody refers to any more is collected with its      *)
(* weights: an analysis refers to its chain's objects, the guard to those  *)
(* registered last.                                                        *)

Referenced(object, registered, running) ==
    \/ object[2] \in DOMAIN registered /\ registered[object[2]] = object[1]
    \/ \E a \in Analyses : running[a].pc # "idle" /\ running[a].chain = object[1]

Collected(registered, running) ==
    weights' = {object \in weights : Referenced(object, registered, running)}

\* build_active_provider; ChainProvider.__init__ registers its objects in
\* place of those of the chain before.
Build(running) ==
    LET registered == IF Chained THEN [n \in Names |-> built + 1] ELSE callbacks
    IN  /\ built < MaxBuilt
        /\ LockFree
        /\ built' = built + 1
        /\ callbacks' = registered
        /\ Collected(registered, running)
        /\ UNCHANGED <<state, reason, loaded, holder, poll, views, history>>

PanelBuilds ==
    /\ Build(run)
    /\ UNCHANGED run

-----------------------------------------------------------------------------
(* ChainProvider.analyze_evidence.                                         *)

Go(a, pc) == run' = [run EXCEPT ![a].pc = pc]

\* The fields of a run that has none of its own yet.
StartRun(a) ==
    LET started == [run EXCEPT ![a] =
            [pc |-> IF Chained THEN "polling" ELSE "trying",
             chain |-> built + 1, at |-> 1, allowed |-> FALSE]]
    IN  /\ run[a].pc = "idle"
        /\ Build(started)
        /\ run' = started

\* Defect: the gate lets a provider in whatever the poll said.
MayTryAny(a) == TRUE

MayTry(a) == Current(a) \notin InProcess \/ run[a].allowed

\* Deferred: the provider's turn passes.
Defer(a) ==
    /\ run[a].pc = "next"
    /\ run[a].at <= Len(Order)
    /\ ~MayTry(a)
    /\ run' = [run EXCEPT ![a].at = @ + 1]
    /\ UNCHANGED <<guard, poll, weights, built, views, history>>

MarkLoaded(a) ==
    /\ run[a].pc = "next"
    /\ run[a].at <= Len(Order)
    /\ MayTry(a)
    /\ LockFree
    /\ loaded' = loaded \union {Current(a)}
    /\ Go(a, "trying")
    /\ UNCHANGED <<state, reason, callbacks, holder, poll, weights, built, views, history>>

\* The server of an external provider answers, or not within the time-out.
ExternalAnswers(a, ok) ==
    /\ run[a].pc = "trying"
    /\ Current(a) \notin InProcess
    /\ Go(a, IF ok THEN "answered" ELSE "failed")
    /\ UNCHANGED <<guard, poll, weights, built, views, history>>

\* _load: the object's own lock is free, as no other thread loads it.
LoadStarts(a) ==
    /\ run[a].pc = "trying"
    /\ Current(a) \in InProcess
    /\ Go(a, "loading")
    /\ UNCHANGED <<guard, poll, weights, built, views, history>>

\* Defect: a load that fails is tried again.
LoadEndsRetrying(a, ok) ==
    /\ run[a].pc = "loading"
    /\ Go(a, IF ok THEN "generating" ELSE "trying")
    /\ weights' = IF ok THEN weights \union {Object(a)} ELSE weights
    /\ UNCHANGED <<guard, poll, built, views, history>>

LoadEnds(a, ok) ==
    /\ run[a].pc = "loading"
    /\ Go(a, IF ok THEN "generating" ELSE "failed")
    /\ weights' = IF ok THEN weights \union {Object(a)} ELSE weights
    /\ late' = IF ok /\ state = "hard" THEN late \union {Object(a)} ELSE late
    /\ UNCHANGED <<guard, poll, built, views, stale>>

\* The processor and the model are used without the lock that guards them: an
\* object unloaded meanwhile has none, and the answer is lost.
GenerateEnds(a, ok) ==
    /\ run[a].pc = "generating"
    /\ Go(a, IF ok /\ Object(a) \in weights THEN "answered" ELSE "failed")
    /\ UNCHANGED <<guard, poll, weights, built, views, history>>

\* Defect: the failed provider keeps its weights.
DroppedNone(a) == {}

\* _try_unload: the failed provider's object is unloaded before the next one
\* is tried.
Dropped(a) == {Object(a)}

UnloadFailed(a) ==
    /\ run[a].pc = "failed"
    /\ Chained
    /\ weights' = weights \ Dropped(a)
    /\ late' = late \ Dropped(a)
    /\ Go(a, "unloaded")
    /\ UNCHANGED <<guard, poll, built, views, stale>>

MarkUnloaded(a) ==
    /\ run[a].pc = "unloaded"
    /\ LockFree
    /\ loaded' = loaded \ {Current(a)}
    /\ run' = [run EXCEPT ![a].pc = "next", ![a].at = @ + 1]
    /\ UNCHANGED <<state, reason, callbacks, holder, poll, weights, built, views, history>>

\* An answer, the last error, or "inference deferred"; the chain goes.
EndRun(a) ==
    LET ended == [run EXCEPT ![a] = Idle]
    IN  /\ \/ run[a].pc = "answered"
           \/ run[a].pc = "failed" /\ ~Chained
           \/ run[a].pc = "next" /\ run[a].at > Len(Order)
        /\ run' = ended
        /\ Collected(callbacks, ended)
        /\ UNCHANGED <<guard, poll, built, views, history>>

-----------------------------------------------------------------------------

Init ==
    /\ state = "normal"
    /\ reason = "none"
    /\ callbacks = [n \in {} |-> 0]
    /\ loaded = {}
    /\ holder = Free
    /\ poll = [t \in Threads |-> NotPolling]
    /\ run = [a \in Analyses |-> Idle]
    /\ weights = {}
    /\ built = 0 /\ views = 0
    /\ late = {}
    /\ stale = FALSE

PollStep(t) ==
    PollEnter(t) \/ \E name \in Names : PollUnload(t, name)

RunStep(a) ==
    \/ (run[a].pc = "polling" /\ \E level \in Levels : Probe(a, level) /\ UNCHANGED views)
    \/ Defer(a) \/ MarkLoaded(a)
    \/ \E ok \in BOOLEAN : ExternalAnswers(a, ok) \/ LoadEnds(a, ok) \/ GenerateEnds(a, ok)
    \/ LoadStarts(a) \/ UnloadFailed(a) \/ MarkUnloaded(a) \/ EndRun(a)

Next ==
    \/ PanelBuilds
    \/ \E v \in Viewers, level \in Levels : View(v, level)
    \/ \E t \in Threads : PollStep(t)
    \/ \E a \in Analyses : StartRun(a) \/ RunStep(a)

Spec == Init /\ [][Next]_vars

\* A thread that has begun goes on.  Nobody has to begin.
Fairness ==
    /\ \A t \in Threads : WF_vars(PollStep(t))
    /\ \A a \in Analyses : WF_vars(RunStep(a))

FairSpec == Spec /\ Fairness

-----------------------------------------------------------------------------

Objects == (1..MaxBuilt) \X Names

Polls == {NotPolling}
         \union [pc: {"probed"}, level: Levels, prev: Levels]
         \union [pc: {"inside"}]

Runs == [pc: {"polling", "next", "trying", "loading", "generating",
              "answered", "failed", "unloaded"},
         chain: 1..MaxBuilt, at: 1..(Len(Order) + 1), allowed: BOOLEAN]

\* The parts of the state have the shape the code gives them.
TypeOK ==
    /\ state \in Levels
    /\ reason \in {"none"} \union (Levels \ {"normal"})
    /\ callbacks \in {[n \in {} |-> 0]} \union [Names -> 1..MaxBuilt]
    /\ loaded \subseteq Names
    /\ holder \in {Free} \union [thread: Threads, todo: SUBSET Names]
    /\ poll \in [Threads -> Polls]
    /\ run \in [Analyses -> {Idle} \union Runs]
    /\ weights \subseteq Objects /\ late \subseteq Objects
    /\ built \in 0..MaxBuilt /\ views \in 0..MaxViews
    /\ stale \in BOOLEAN

\* Weights are loaded into this process only by an analysis whose own poll
\* found the memory normal ("If only one provider is configured, return it
\* directly so memory-state checks still apply": they do not, the poll is the
\* chain's).
GateHeld ==
    \A a \in Analyses :
        run[a].pc \in {"loading", "generating"} => run[a].allowed

\* An analysis holds the weights of one provider at most, and of none it has
\* given up (_try_unload: "at most one big VLM is warm-loaded at a time").
OneOfAChain ==
    \A object \in weights : \A a \in Analyses :
        run[a].pc # "idle" /\ run[a].chain = object[1]
            => run[a].at <= Len(Order) /\ object[2] = Current(a)

\* As long as no poll went by a state that another had changed: while the hard
\* limit is crossed and no poll is at work, no registered object has weights but
\* one that was loaded after the crossing, by an analysis that had polled before
\* it (the callbacks of _on_state_change, from whatever state it comes).
HardLimitUnloads ==
    ~stale /\ state = "hard" /\ LockFree =>
        \A name \in DOMAIN callbacks :
            <<callbacks[name], name>> \in weights => <<callbacks[name], name>> \in late

\* Not so: the same of every object that holds weights, which is what the registration
\* is for ("so the hard limit can actually drop weights"); a chain built later
\* takes the name of the one that is loaded.
HardLimitDropsWeights == ~stale /\ state = "hard" /\ LockFree => weights \subseteq late

\* An analysis ends, whatever the memory does and whoever polls: the guard's
\* lock and an object's load lock are never waited for in a circle.
AnalysesEnd == \A a \in Analyses : run[a].pc # "idle" ~> run[a].pc = "idle"

=============================================================================
