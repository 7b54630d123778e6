-------------------------- MODULE ModelMemoryProofs --------------------------
(***************************************************************************)
(* Proofs about ModelMemory, for any set of threads, any order of          *)
(* providers and any bounds.                                               *)
(*                                                                         *)
(* The inductive invariant adds to the type of the state which thread is   *)
(* where in a poll, that the chains in use are different ones and built,   *)
(* what an analysis has checked before it came where it is, and what is    *)
(* still to be unloaded by the thread in the lock.                         *)
(***************************************************************************)
EXTENDS ModelMemory, TLAPS

\* The thread in the lock is in the middle of its callbacks, which are
\* registered ones, and an analysis polls before it does anything else.
PollsMatch ==
    /\ \A a \in Analyses : poll[a].pc # "none" => run[a].pc = "polling"
    /\ \A t \in Threads : poll[t].pc = "inside" <=> holder.thread = t
    /\ holder # Free => holder.todo \subseteq DOMAIN callbacks

\* A provider at work is one of the order.
AtAProvider ==
    \A a \in Analyses :
        run[a].pc \in {"trying", "loading", "generating", "answered", "failed", "unloaded"}
            => run[a].at <= Len(Order)

\* Every analysis has a chain of its own, and no object is of a later one.
ChainsApart ==
    /\ \A a \in Analyses : run[a].pc # "idle" => run[a].chain <= built
    /\ \A a, b \in Analyses :
        a # b /\ run[a].pc # "idle" /\ run[b].pc # "idle" => run[a].chain # run[b].chain
    /\ \A object \in weights : object[1] <= built

\* What an analysis holds it has loaded for the provider it is at.
HeldIsCurrent ==
    \A object \in weights : \A a \in Analyses :
        run[a].pc # "idle" /\ run[a].chain = object[1] =>
            /\ run[a].pc \in {"generating", "answered", "failed"}
            /\ object[2] = Current(a)

\* A chain of several providers tries one that loads into this process only
\* after the gate, and loads nothing else.
GatePassed ==
    Chained => \A a \in Analyses :
        /\ run[a].pc = "trying" /\ Current(a) \in InProcess => run[a].allowed
        /\ run[a].pc \in {"loading", "generating"} => run[a].allowed

\* What the thread in the lock has still to unload.
Todo == IF LockFree THEN {} ELSE holder.todo

\* Every registered object with weights is still to be unloaded or was loaded
\* after the crossing.
HardDone ==
    ~stale /\ state = "hard" =>
        \A name \in DOMAIN callbacks \ Todo :
            <<callbacks[name], name>> \in weights => <<callbacks[name], name>> \in late

MemInv ==
    /\ TypeOK /\ PollsMatch /\ AtAProvider
    /\ ChainsApart /\ HeldIsCurrent /\ GatePassed /\ HardDone

-----------------------------------------------------------------------------
(* Steps preserve the parts of the invariant.                              *)

\* A place in the order is a provider's.
LEMMA OrderNamed == \A i \in 1..Len(Order) : Order[i] \in Names
BY DEF Names

\* There is a provider.
LEMMA LengthNatural == Len(Order) \in Nat \ {0}
BY OrderAssumption

\* The length of the order bounds the places of a run.
LEMMA RunTyped ==
    TypeOK => \A a \in Analyses : run[a].pc # "idle" =>
        /\ run[a] \in Runs
        /\ run[a].chain \in 1..MaxBuilt
        /\ run[a].at \in 1..(Len(Order) + 1)
BY DEF TypeOK, Runs, Idle

\* The object of an analysis that is at a provider.
LEMMA ObjectTyped ==
    TypeOK => \A a \in Analyses : run[a].pc # "idle" /\ run[a].at <= Len(Order) =>
        /\ Current(a) \in Names
        /\ Object(a) \in Objects
<1> SUFFICES ASSUME TypeOK, NEW a \in Analyses, run[a].pc # "idle", run[a].at <= Len(Order)
             PROVE  Current(a) \in Names /\ Object(a) \in Objects
  OBVIOUS
<1>1. run[a].chain \in 1..MaxBuilt /\ run[a].at \in 1..(Len(Order) + 1)
  BY RunTyped
<1>2. run[a].at \in 1..Len(Order)
  BY <1>1, LengthNatural
<1>3. Order[run[a].at] \in Names
  BY <1>2, OrderNamed
<1>. QED
  BY <1>1, <1>3 DEF Current, Object, Objects

\* A step keeps the shape of the state.
LEMMA TypeStep ==
    TypeOK /\ PollsMatch /\ AtAProvider /\ [Next]_vars
        => TypeOK'
<1> SUFFICES ASSUME TypeOK /\ PollsMatch /\ AtAProvider,
                    [Next]_vars
             PROVE  TypeOK'
  OBVIOUS
<1>1. CASE PanelBuilds
  BY <1>1, OrderNamed, LengthNatural, MemoryBoundsAssumption DEF PanelBuilds, Build,
     Collected, TypeOK, Objects, Free, NotPolling, Idle, Levels, Threads, guard,
     history, Polls, Runs, PollsMatch, AtAProvider, Object, Current
<1>2. ASSUME NEW v \in Viewers, NEW level \in Levels, View(v, level)
      PROVE TypeOK'
  BY <1>2, OrderNamed, LengthNatural, MemoryBoundsAssumption DEF View, Probe, TypeOK,
     Objects, Free, NotPolling, Idle, Levels, Threads, guard, history, Polls, Runs,
     PollsMatch, AtAProvider, Object, Current
<1>3. ASSUME NEW t \in Threads, PollEnter(t)
      PROVE TypeOK'
<2>1. poll[t] \in [pc: {"probed"}, level: Levels, prev: Levels]
  BY <1>3 DEF PollEnter, TypeOK, Polls, NotPolling
<2>2. poll[t].level \in Levels
  BY <2>1
<2>3. t \in Analyses => run[t].pc = "polling"
  BY <1>3 DEF PollEnter, PollsMatch
<2>4. ASSUME PollEnds(t, poll[t].level)
      PROVE  poll' \in [Threads -> Polls] /\ run' \in [Analyses -> {Idle} \union Runs]
  <3>1. poll' \in [Threads -> Polls]
    BY <2>4 DEF PollEnds, TypeOK, Polls
  <3>2. CASE t \in Analyses
    <4>1. [pc |-> "next", chain |-> run[t].chain, at |-> 1,
           allowed |-> poll[t].level = "normal"] \in Runs
      BY <2>3, <3>2, RunTyped, LengthNatural DEF Runs
    <4>. QED
      BY <2>4, <3>1, <3>2, <4>1 DEF PollEnds, TypeOK
  <3>. QED
    BY <2>4, <3>1, <3>2 DEF PollEnds, TypeOK
<2>5. holder' \in {Free} \union [thread: Threads, todo: SUBSET Names]
  BY <1>3 DEF PollEnter, ToUnload, TypeOK
<2>6. reason' \in {"none"} \union (Levels \ {"normal"})
  <3>1. reason' = reason \/ reason' = Reason(poll[t].level)
    BY <1>3 DEF PollEnter
  <3>2. Reason(poll[t].level) \in {"none"} \union (Levels \ {"normal"})
    BY <2>2 DEF Reason
  <3>. QED
    BY <3>1, <3>2 DEF TypeOK
<2>7. state' \in Levels
  BY <1>3, <2>2 DEF PollEnter
<2>8. stale' \in BOOLEAN
  BY <1>3 DEF PollEnter, TypeOK
<2>9. poll' \in [Threads -> Polls] /\ run' \in [Analyses -> {Idle} \union Runs]
  <3>1. CASE poll' = [poll EXCEPT ![t] = [pc |-> "inside"]] /\ UNCHANGED run
    BY <3>1 DEF TypeOK, Polls
  <3>. QED
    BY <1>3, <2>4, <3>1 DEF PollEnter
<2>. QED
  BY <1>3, <2>5, <2>6, <2>7, <2>8, <2>9 DEF PollEnter, TypeOK
<1>4. ASSUME NEW t \in Threads, NEW name \in Names, PollUnload(t, name)
      PROVE TypeOK'
<2>1. holder \in [thread: Threads, todo: SUBSET Names] /\ poll[t].pc = "inside"
  BY <1>4, ThreadsAssumption DEF PollUnload, TypeOK, PollsMatch, Free
<2>2. t \in Analyses => run[t].pc = "polling"
  BY <2>1 DEF PollsMatch
<2>3. ASSUME PollEnds(t, state)
      PROVE  poll' \in [Threads -> Polls] /\ run' \in [Analyses -> {Idle} \union Runs]
  <3>1. poll' \in [Threads -> Polls]
    BY <2>3 DEF PollEnds, TypeOK, Polls
  <3>2. CASE t \in Analyses
    <4>1. [pc |-> "next", chain |-> run[t].chain, at |-> 1,
           allowed |-> state = "normal"] \in Runs
      BY <2>2, <3>2, RunTyped, LengthNatural DEF Runs
    <4>. QED
      BY <2>3, <3>1, <3>2, <4>1 DEF PollEnds, TypeOK
  <3>. QED
    BY <2>3, <3>1, <3>2 DEF PollEnds, TypeOK
<2>4. weights' \subseteq Objects /\ late' \subseteq Objects /\ loaded' \subseteq Names
  BY <1>4 DEF PollUnload, TypeOK
<2>5. [holder EXCEPT !.todo = @ \ {name}] \in [thread: Threads, todo: SUBSET Names]
  BY <2>1
<2>6. holder' \in {Free} \union [thread: Threads, todo: SUBSET Names]
  BY <1>4, <2>5 DEF PollUnload
<2>7. poll' \in [Threads -> Polls] /\ run' \in [Analyses -> {Idle} \union Runs]
  BY <1>4, <2>3 DEF PollUnload, TypeOK
<2>. QED
  BY <1>4, <2>4, <2>6, <2>7 DEF PollUnload, TypeOK
<1>5. ASSUME NEW a \in Analyses, StartRun(a)
      PROVE TypeOK'
  BY <1>5, OrderNamed, LengthNatural, MemoryBoundsAssumption DEF StartRun, Build,
     Collected, TypeOK, Objects, Free, NotPolling, Idle, Levels, Threads, guard,
     history, Polls, Runs, PollsMatch, AtAProvider, Object, Current
<1>6. ASSUME NEW a \in Analyses, NEW level \in Levels,
               run[a].pc = "polling", Probe(a, level), UNCHANGED views
      PROVE TypeOK'
  BY <1>6, OrderNamed, LengthNatural, MemoryBoundsAssumption DEF Probe, TypeOK,
     Objects, Free, NotPolling, Idle, Levels, Threads, guard, history, Polls, Runs,
     PollsMatch, AtAProvider, Object, Current
<1>7. ASSUME NEW a \in Analyses, Defer(a)
      PROVE TypeOK'
<2>1. run[a].at + 1 \in 1..(Len(Order) + 1)
  BY <1>7, RunTyped, LengthNatural DEF Defer
<2>2. [run[a] EXCEPT !.at = @ + 1] \in Runs
  BY <1>7, <2>1, RunTyped DEF Defer, Runs
<2>. QED
  BY <1>7, <2>2 DEF Defer, TypeOK, guard, history
<1>8. ASSUME NEW a \in Analyses, MarkLoaded(a)
      PROVE TypeOK'
  BY <1>8, OrderNamed, LengthNatural, MemoryBoundsAssumption DEF MarkLoaded, Go,
     TypeOK, Objects, Free, NotPolling, Idle, Levels, Threads, guard, history, Polls,
     Runs, PollsMatch, AtAProvider, Object, Current
<1>9. ASSUME NEW a \in Analyses, NEW ok \in BOOLEAN, ExternalAnswers(a, ok)
      PROVE TypeOK'
  BY <1>9, OrderNamed, LengthNatural, MemoryBoundsAssumption DEF ExternalAnswers, Go,
     TypeOK, Objects, Free, NotPolling, Idle, Levels, Threads, guard, history, Polls,
     Runs, PollsMatch, AtAProvider, Object, Current
<1>10. ASSUME NEW a \in Analyses, NEW ok \in BOOLEAN, LoadEnds(a, ok)
      PROVE TypeOK'
<2>1. Object(a) \in Objects
  BY <1>10, ObjectTyped DEF LoadEnds, AtAProvider
<2>2. weights' \subseteq Objects /\ late' \subseteq Objects
  BY <1>10, <2>1 DEF LoadEnds, TypeOK
<2>3. run' \in [Analyses -> {Idle} \union Runs]
  BY <1>10 DEF LoadEnds, Go, TypeOK, Idle, Runs
<2>. QED
  BY <1>10, <2>2, <2>3 DEF LoadEnds, TypeOK, guard
<1>11. ASSUME NEW a \in Analyses, NEW ok \in BOOLEAN, GenerateEnds(a, ok)
      PROVE TypeOK'
  BY <1>11, OrderNamed, LengthNatural, MemoryBoundsAssumption DEF GenerateEnds, Go,
     TypeOK, Objects, Free, NotPolling, Idle, Levels, Threads, guard, history, Polls,
     Runs, PollsMatch, AtAProvider, Object, Current
<1>12. ASSUME NEW a \in Analyses, LoadStarts(a)
      PROVE TypeOK'
  BY <1>12, OrderNamed, LengthNatural, MemoryBoundsAssumption DEF LoadStarts, Go,
     TypeOK, Objects, Free, NotPolling, Idle, Levels, Threads, guard, history, Polls,
     Runs, PollsMatch, AtAProvider, Object, Current
<1>13. ASSUME NEW a \in Analyses, UnloadFailed(a)
      PROVE TypeOK'
<2>1. run' \in [Analyses -> {Idle} \union Runs]
  BY <1>13 DEF UnloadFailed, Go, TypeOK, Idle, Runs
<2>. QED
  BY <1>13, <2>1 DEF UnloadFailed, TypeOK, guard
<1>14. ASSUME NEW a \in Analyses, MarkUnloaded(a)
      PROVE TypeOK'
  BY <1>14, OrderNamed, LengthNatural, MemoryBoundsAssumption DEF MarkUnloaded, Go,
     TypeOK, Objects, Free, NotPolling, Idle, Levels, Threads, guard, history, Polls,
     Runs, PollsMatch, AtAProvider, Object, Current
<1>15. ASSUME NEW a \in Analyses, EndRun(a)
      PROVE TypeOK'
  BY <1>15, OrderNamed, LengthNatural, MemoryBoundsAssumption DEF EndRun, Collected,
     TypeOK, Objects, Free, NotPolling, Idle, Levels, Threads, guard, history, Polls,
     Runs, PollsMatch, AtAProvider, Object, Current
<1>16. CASE UNCHANGED vars
  BY <1>16 DEF vars, guard, history, TypeOK, Objects, Free, NotPolling, Idle, Levels,
     Threads, Polls, Runs, PollsMatch, AtAProvider, Object, Current
<1>. QED
  BY <1>1, <1>2, <1>3, <1>4, <1>5, <1>6, <1>7, <1>8, <1>9, <1>10, <1>11, <1>12, <1>13,
     <1>14, <1>15, <1>16 DEF Next, PollStep, RunStep

\* Who polls and who is in the lock stay in step.
LEMMA PollsStep ==
    TypeOK /\ PollsMatch /\ [Next]_vars
        => PollsMatch'
<1> SUFFICES ASSUME TypeOK /\ PollsMatch,
                    [Next]_vars
             PROVE  PollsMatch'
  OBVIOUS
<1>1. CASE PanelBuilds
  BY <1>1, ThreadsAssumption DEF PanelBuilds, Build, PollsMatch, TypeOK, Runs, Polls,
     Idle, Free, NotPolling, Threads, guard, history
<1>2. ASSUME NEW v \in Viewers, NEW level \in Levels, View(v, level)
      PROVE PollsMatch'
  BY <1>2, ThreadsAssumption DEF View, Probe, PollsMatch, TypeOK, Runs, Polls, Idle,
     Free, NotPolling, Threads, guard, history
<1>3. ASSUME NEW t \in Threads, PollEnter(t)
      PROVE PollsMatch'
  BY <1>3, ThreadsAssumption DEF PollEnter, PollEnds, Reason, ToUnload, LockFree,
     PollsMatch, TypeOK, Runs, Polls, Idle, Free, NotPolling, Threads, guard, history
<1>4. ASSUME NEW t \in Threads, NEW name \in Names, PollUnload(t, name)
      PROVE PollsMatch'
  BY <1>4, ThreadsAssumption DEF PollUnload, PollEnds, PollsMatch, TypeOK, Runs,
     Polls, Idle, Free, NotPolling, Threads, guard, history
<1>5. ASSUME NEW a \in Analyses, StartRun(a)
      PROVE PollsMatch'
  BY <1>5, ThreadsAssumption DEF StartRun, Build, PollsMatch, TypeOK, Runs, Polls,
     Idle, Free, NotPolling, Threads, guard, history
<1>6. ASSUME NEW a \in Analyses, NEW level \in Levels,
               run[a].pc = "polling", Probe(a, level), UNCHANGED views
      PROVE PollsMatch'
  BY <1>6, ThreadsAssumption DEF Probe, PollsMatch, TypeOK, Runs, Polls, Idle, Free,
     NotPolling, Threads, guard, history
<1>7. ASSUME NEW a \in Analyses, Defer(a)
      PROVE PollsMatch'
  BY <1>7, ThreadsAssumption DEF Defer, PollsMatch, TypeOK, Runs, Polls, Idle, Free,
     NotPolling, Threads, guard, history
<1>8. ASSUME NEW a \in Analyses, MarkLoaded(a)
      PROVE PollsMatch'
  BY <1>8, ThreadsAssumption DEF MarkLoaded, Go, PollsMatch, TypeOK, Runs, Polls,
     Idle, Free, NotPolling, Threads, guard, history
<1>9. ASSUME NEW a \in Analyses, NEW ok \in BOOLEAN, ExternalAnswers(a, ok)
      PROVE PollsMatch'
  BY <1>9, ThreadsAssumption DEF ExternalAnswers, Go, PollsMatch, TypeOK, Runs, Polls,
     Idle, Free, NotPolling, Threads, guard, history
<1>10. ASSUME NEW a \in Analyses, NEW ok \in BOOLEAN, LoadEnds(a, ok)
      PROVE PollsMatch'
  BY <1>10, ThreadsAssumption DEF LoadEnds, Go, PollsMatch, TypeOK, Runs, Polls, Idle,
     Free, NotPolling, Threads, guard, history
<1>11. ASSUME NEW a \in Analyses, NEW ok \in BOOLEAN, GenerateEnds(a, ok)
      PROVE PollsMatch'
  BY <1>11, ThreadsAssumption DEF GenerateEnds, Go, PollsMatch, TypeOK, Runs, Polls,
     Idle, Free, NotPolling, Threads, guard, history
<1>12. ASSUME NEW a \in Analyses, LoadStarts(a)
      PROVE PollsMatch'
  BY <1>12, ThreadsAssumption DEF LoadStarts, Go, PollsMatch, TypeOK, Runs, Polls,
     Idle, Free, NotPolling, Threads, guard, history
<1>13. ASSUME NEW a \in Analyses, UnloadFailed(a)
      PROVE PollsMatch'
  BY <1>13, ThreadsAssumption DEF UnloadFailed, Go, Dropped, PollsMatch, TypeOK, Runs,
     Polls, Idle, Free, NotPolling, Threads, guard, history
<1>14. ASSUME NEW a \in Analyses, MarkUnloaded(a)
      PROVE PollsMatch'
  BY <1>14, ThreadsAssumption DEF MarkUnloaded, Go, PollsMatch, TypeOK, Runs, Polls,
     Idle, Free, NotPolling, Threads, guard, history
<1>15. ASSUME NEW a \in Analyses, EndRun(a)
      PROVE PollsMatch'
  BY <1>15, ThreadsAssumption DEF EndRun, PollsMatch, TypeOK, Runs, Polls, Idle, Free,
     NotPolling, Threads, guard, history
<1>16. CASE UNCHANGED vars
  BY <1>16 DEF vars, guard, history, PollsMatch, TypeOK, Runs, Polls, Idle, Free,
     NotPolling, Threads
<1>. QED
  BY <1>1, <1>2, <1>3, <1>4, <1>5, <1>6, <1>7, <1>8, <1>9, <1>10, <1>11, <1>12, <1>13,
     <1>14, <1>15, <1>16 DEF Next, PollStep, RunStep

\* Providers are tried as long as there are some.
LEMMA AtStep ==
    TypeOK /\ PollsMatch /\ AtAProvider /\ [Next]_vars
        => AtAProvider'
<1> SUFFICES ASSUME TypeOK /\ PollsMatch /\ AtAProvider,
                    [Next]_vars
             PROVE  AtAProvider'
  OBVIOUS
<1>1. CASE PanelBuilds
  BY <1>1, LengthNatural, ThreadsAssumption DEF PanelBuilds, Build, AtAProvider,
     PollsMatch, TypeOK, Runs, Polls, Idle, Free, NotPolling, Threads, guard, history
<1>2. ASSUME NEW v \in Viewers, NEW level \in Levels, View(v, level)
      PROVE AtAProvider'
  BY <1>2, LengthNatural, ThreadsAssumption DEF View, Probe, AtAProvider, PollsMatch,
     TypeOK, Runs, Polls, Idle, Free, NotPolling, Threads, guard, history
<1>3. ASSUME NEW t \in Threads, PollEnter(t)
      PROVE AtAProvider'
  BY <1>3, LengthNatural, ThreadsAssumption DEF PollEnter, PollEnds, Reason, ToUnload,
     LockFree, AtAProvider, PollsMatch, TypeOK, Runs, Polls, Idle, Free, NotPolling,
     Threads, guard, history
<1>4. ASSUME NEW t \in Threads, NEW name \in Names, PollUnload(t, name)
      PROVE AtAProvider'
  BY <1>4, LengthNatural, ThreadsAssumption DEF PollUnload, PollEnds, AtAProvider,
     PollsMatch, TypeOK, Runs, Polls, Idle, Free, NotPolling, Threads, guard, history
<1>5. ASSUME NEW a \in Analyses, StartRun(a)
      PROVE AtAProvider'
  BY <1>5, LengthNatural, ThreadsAssumption DEF StartRun, Build, AtAProvider,
     PollsMatch, TypeOK, Runs, Polls, Idle, Free, NotPolling, Threads, guard, history
<1>6. ASSUME NEW a \in Analyses, NEW level \in Levels,
               run[a].pc = "polling", Probe(a, level), UNCHANGED views
      PROVE AtAProvider'
  BY <1>6, LengthNatural, ThreadsAssumption DEF Probe, AtAProvider, PollsMatch,
     TypeOK, Runs, Polls, Idle, Free, NotPolling, Threads, guard, history
<1>7. ASSUME NEW a \in Analyses, Defer(a)
      PROVE AtAProvider'
  BY <1>7, LengthNatural, ThreadsAssumption DEF Defer, AtAProvider, PollsMatch,
     TypeOK, Runs, Polls, Idle, Free, NotPolling, Threads, guard, history
<1>8. ASSUME NEW a \in Analyses, MarkLoaded(a)
      PROVE AtAProvider'
  BY <1>8, LengthNatural, ThreadsAssumption DEF MarkLoaded, Go, AtAProvider,
     PollsMatch, TypeOK, Runs, Polls, Idle, Free, NotPolling, Threads, guard, history
<1>9. ASSUME NEW a \in Analyses, NEW ok \in BOOLEAN, ExternalAnswers(a, ok)
      PROVE AtAProvider'
  BY <1>9, LengthNatural, ThreadsAssumption DEF ExternalAnswers, Go, AtAProvider,
     PollsMatch, TypeOK, Runs, Polls, Idle, Free, NotPolling, Threads, guard, history
<1>10. ASSUME NEW a \in Analyses, NEW ok \in BOOLEAN, LoadEnds(a, ok)
      PROVE AtAProvider'
  BY <1>10, LengthNatural, ThreadsAssumption DEF LoadEnds, Go, AtAProvider,
     PollsMatch, TypeOK, Runs, Polls, Idle, Free, NotPolling, Threads, guard, history
<1>11. ASSUME NEW a \in Analyses, NEW ok \in BOOLEAN, GenerateEnds(a, ok)
      PROVE AtAProvider'
  BY <1>11, LengthNatural, ThreadsAssumption DEF GenerateEnds, Go, AtAProvider,
     PollsMatch, TypeOK, Runs, Polls, Idle, Free, NotPolling, Threads, guard, history
<1>12. ASSUME NEW a \in Analyses, LoadStarts(a)
      PROVE AtAProvider'
  BY <1>12, LengthNatural, ThreadsAssumption DEF LoadStarts, Go, AtAProvider,
     PollsMatch, TypeOK, Runs, Polls, Idle, Free, NotPolling, Threads, guard, history
<1>13. ASSUME NEW a \in Analyses, UnloadFailed(a)
      PROVE AtAProvider'
  BY <1>13, LengthNatural, ThreadsAssumption DEF UnloadFailed, Go, Dropped,
     AtAProvider, PollsMatch, TypeOK, Runs, Polls, Idle, Free, NotPolling, Threads,
     guard, history
<1>14. ASSUME NEW a \in Analyses, MarkUnloaded(a)
      PROVE AtAProvider'
  BY <1>14, LengthNatural, ThreadsAssumption DEF MarkUnloaded, Go, AtAProvider,
     PollsMatch, TypeOK, Runs, Polls, Idle, Free, NotPolling, Threads, guard, history
<1>15. ASSUME NEW a \in Analyses, EndRun(a)
      PROVE AtAProvider'
  BY <1>15, LengthNatural, ThreadsAssumption DEF EndRun, AtAProvider, PollsMatch,
     TypeOK, Runs, Polls, Idle, Free, NotPolling, Threads, guard, history
<1>16. CASE UNCHANGED vars
  BY <1>16 DEF vars, guard, history, AtAProvider, PollsMatch, TypeOK, Runs, Polls,
     Idle, Free, NotPolling, Threads
<1>. QED
  BY <1>1, <1>2, <1>3, <1>4, <1>5, <1>6, <1>7, <1>8, <1>9, <1>10, <1>11, <1>12, <1>13,
     <1>14, <1>15, <1>16 DEF Next, PollStep, RunStep

\* A new chain is like none before.
LEMMA ChainsStep ==
    TypeOK /\ PollsMatch /\ AtAProvider /\ ChainsApart /\ [Next]_vars
        => ChainsApart'
<1> SUFFICES ASSUME TypeOK /\ PollsMatch /\ AtAProvider /\ ChainsApart,
                    [Next]_vars
             PROVE  ChainsApart'
  OBVIOUS
<1>1. CASE PanelBuilds
<2>1. built \in Nat /\ built' = built + 1 /\ weights' \subseteq weights
  BY <1>1, MemoryBoundsAssumption DEF PanelBuilds, Build, Collected, TypeOK
<2>2. \A object \in weights' : object[1] <= built'
  <3> SUFFICES ASSUME NEW object \in weights PROVE object[1] <= built'
    BY <2>1
  <3>1. object[1] \in Nat /\ object[1] <= built
    BY MemoryBoundsAssumption DEF TypeOK, Objects, ChainsApart
  <3>. QED
    BY <2>1, <3>1
<2>3. \A b \in Analyses : run[b].pc # "idle" => run[b].chain \in Nat /\ run[b].chain <= built
  BY RunTyped, MemoryBoundsAssumption DEF ChainsApart
<2>. QED
  BY <1>1, <2>1, <2>2, <2>3 DEF PanelBuilds, ChainsApart
<1>2. ASSUME NEW v \in Viewers, NEW level \in Levels, View(v, level)
      PROVE ChainsApart'
  BY <1>2, ThreadsAssumption, MemoryBoundsAssumption DEF View, Probe, ChainsApart,
     PollsMatch, AtAProvider, Object, TypeOK, Runs, Polls, Idle, Free, NotPolling,
     Threads, guard, history
<1>3. ASSUME NEW t \in Threads, PollEnter(t)
      PROVE ChainsApart'
  BY <1>3, ThreadsAssumption, MemoryBoundsAssumption DEF PollEnter, PollEnds, Reason,
     ToUnload, LockFree, ChainsApart, PollsMatch, AtAProvider, Object, TypeOK, Runs,
     Polls, Idle, Free, NotPolling, Threads, guard, history
<1>4. ASSUME NEW t \in Threads, NEW name \in Names, PollUnload(t, name)
      PROVE ChainsApart'
  BY <1>4, ThreadsAssumption, MemoryBoundsAssumption DEF PollUnload, PollEnds,
     ChainsApart, PollsMatch, AtAProvider, Object, TypeOK, Runs, Polls, Idle, Free,
     NotPolling, Threads, guard, history
<1>5. ASSUME NEW a \in Analyses, StartRun(a)
      PROVE ChainsApart'
<2>1. built \in Nat /\ built' = built + 1 /\ weights' \subseteq weights
  BY <1>5, MemoryBoundsAssumption DEF StartRun, Build, Collected, TypeOK
<2>2. \A object \in weights' : object[1] <= built'
  <3> SUFFICES ASSUME NEW object \in weights PROVE object[1] <= built'
    BY <2>1
  <3>1. object[1] \in Nat /\ object[1] <= built
    BY MemoryBoundsAssumption DEF TypeOK, Objects, ChainsApart
  <3>. QED
    BY <2>1, <3>1
<2>3. \A b \in Analyses : run[b].pc # "idle" => run[b].chain \in Nat /\ run[b].chain <= built
  BY RunTyped, MemoryBoundsAssumption DEF ChainsApart
<2>4. \A b \in Analyses : b # a => run'[b] = run[b]
  BY <1>5 DEF StartRun, TypeOK
<2>5. run'[a].chain = built + 1
  BY <1>5 DEF StartRun, TypeOK
<2>6. \A b \in Analyses : run'[b].pc # "idle" => run'[b].chain <= built'
  BY <2>1, <2>3, <2>4, <2>5
<2>7. \A b \in Analyses : b # a /\ run[b].pc # "idle" => run[b].chain # built + 1
  BY <2>1, <2>3
<2>8. \A b, d \in Analyses :
        b # d /\ run'[b].pc # "idle" /\ run'[d].pc # "idle" => run'[b].chain # run'[d].chain
  BY <2>4, <2>5, <2>7 DEF ChainsApart
<2>. QED
  BY <2>2, <2>6, <2>8 DEF ChainsApart
<1>6. ASSUME NEW a \in Analyses, NEW level \in Levels,
               run[a].pc = "polling", Probe(a, level), UNCHANGED views
      PROVE ChainsApart'
  BY <1>6, ThreadsAssumption, MemoryBoundsAssumption DEF Probe, ChainsApart,
     PollsMatch, AtAProvider, Object, TypeOK, Runs, Polls, Idle, Free, NotPolling,
     Threads, guard, history
<1>7. ASSUME NEW a \in Analyses, Defer(a)
      PROVE ChainsApart'
  BY <1>7, ThreadsAssumption, MemoryBoundsAssumption DEF Defer, ChainsApart,
     PollsMatch, AtAProvider, Object, TypeOK, Runs, Polls, Idle, Free, NotPolling,
     Threads, guard, history
<1>8. ASSUME NEW a \in Analyses, MarkLoaded(a)
      PROVE ChainsApart'
  BY <1>8, ThreadsAssumption, MemoryBoundsAssumption DEF MarkLoaded, Go, ChainsApart,
     PollsMatch, AtAProvider, Object, TypeOK, Runs, Polls, Idle, Free, NotPolling,
     Threads, guard, history
<1>9. ASSUME NEW a \in Analyses, NEW ok \in BOOLEAN, ExternalAnswers(a, ok)
      PROVE ChainsApart'
  BY <1>9, ThreadsAssumption, MemoryBoundsAssumption DEF ExternalAnswers, Go,
     ChainsApart, PollsMatch, AtAProvider, Object, TypeOK, Runs, Polls, Idle, Free,
     NotPolling, Threads, guard, history
<1>10. ASSUME NEW a \in Analyses, NEW ok \in BOOLEAN, LoadEnds(a, ok)
      PROVE ChainsApart'
  BY <1>10, ThreadsAssumption, MemoryBoundsAssumption DEF LoadEnds, Go, ChainsApart,
     PollsMatch, AtAProvider, Object, TypeOK, Runs, Polls, Idle, Free, NotPolling,
     Threads, guard, history
<1>11. ASSUME NEW a \in Analyses, NEW ok \in BOOLEAN, GenerateEnds(a, ok)
      PROVE ChainsApart'
  BY <1>11, ThreadsAssumption, MemoryBoundsAssumption DEF GenerateEnds, Go,
     ChainsApart, PollsMatch, AtAProvider, Object, TypeOK, Runs, Polls, Idle, Free,
     NotPolling, Threads, guard, history
<1>12. ASSUME NEW a \in Analyses, LoadStarts(a)
      PROVE ChainsApart'
  BY <1>12, ThreadsAssumption, MemoryBoundsAssumption DEF LoadStarts, Go, ChainsApart,
     PollsMatch, AtAProvider, Object, TypeOK, Runs, Polls, Idle, Free, NotPolling,
     Threads, guard, history
<1>13. ASSUME NEW a \in Analyses, UnloadFailed(a)
      PROVE ChainsApart'
  BY <1>13, ThreadsAssumption, MemoryBoundsAssumption DEF UnloadFailed, Go, Dropped,
     ChainsApart, PollsMatch, AtAProvider, Object, TypeOK, Runs, Polls, Idle, Free,
     NotPolling, Threads, guard, history
<1>14. ASSUME NEW a \in Analyses, MarkUnloaded(a)
      PROVE ChainsApart'
  BY <1>14, ThreadsAssumption, MemoryBoundsAssumption DEF MarkUnloaded, Go,
     ChainsApart, PollsMatch, AtAProvider, Object, TypeOK, Runs, Polls, Idle, Free,
     NotPolling, Threads, guard, history
<1>15. ASSUME NEW a \in Analyses, EndRun(a)
      PROVE ChainsApart'
  BY <1>15, ThreadsAssumption, MemoryBoundsAssumption DEF EndRun, Collected,
     ChainsApart, PollsMatch, AtAProvider, Object, TypeOK, Runs, Polls, Idle, Free,
     NotPolling, Threads, guard, history
<1>16. CASE UNCHANGED vars
  BY <1>16 DEF vars, guard, history, ChainsApart, PollsMatch, AtAProvider, Object,
     TypeOK, Runs, Polls, Idle, Free, NotPolling, Threads
<1>. QED
  BY <1>1, <1>2, <1>3, <1>4, <1>5, <1>6, <1>7, <1>8, <1>9, <1>10, <1>11, <1>12, <1>13,
     <1>14, <1>15, <1>16 DEF Next, PollStep, RunStep

\* An analysis gives up what it holds before it goes on.
LEMMA HeldStep ==
    TypeOK /\ PollsMatch /\ AtAProvider /\ ChainsApart /\ HeldIsCurrent /\ [Next]_vars
        => HeldIsCurrent'
<1> SUFFICES ASSUME TypeOK /\ PollsMatch /\ AtAProvider /\ ChainsApart /\ HeldIsCurrent,
                    [Next]_vars
             PROVE  HeldIsCurrent'
  OBVIOUS
<1>1. CASE PanelBuilds
  BY <1>1, ThreadsAssumption, MemoryBoundsAssumption DEF PanelBuilds, Build,
     Collected, HeldIsCurrent, ChainsApart, PollsMatch, AtAProvider, Object, Current,
     TypeOK, Runs, Polls, Idle, Free, NotPolling, Threads, guard, history
<1>2. ASSUME NEW v \in Viewers, NEW level \in Levels, View(v, level)
      PROVE HeldIsCurrent'
  BY <1>2, ThreadsAssumption, MemoryBoundsAssumption DEF View, Probe, HeldIsCurrent,
     ChainsApart, PollsMatch, AtAProvider, Object, Current, TypeOK, Runs, Polls, Idle,
     Free, NotPolling, Threads, guard, history
<1>3. ASSUME NEW t \in Threads, PollEnter(t)
      PROVE HeldIsCurrent'
  BY <1>3, ThreadsAssumption, MemoryBoundsAssumption DEF PollEnter, PollEnds, Reason,
     ToUnload, LockFree, HeldIsCurrent, ChainsApart, PollsMatch, AtAProvider, Object,
     Current, TypeOK, Runs, Polls, Idle, Free, NotPolling, Threads, guard, history
<1>4. ASSUME NEW t \in Threads, NEW name \in Names, PollUnload(t, name)
      PROVE HeldIsCurrent'
  BY <1>4, ThreadsAssumption, MemoryBoundsAssumption DEF PollUnload, PollEnds,
     HeldIsCurrent, ChainsApart, PollsMatch, AtAProvider, Object, Current, TypeOK,
     Runs, Polls, Idle, Free, NotPolling, Threads, guard, history
<1>5. ASSUME NEW a \in Analyses, StartRun(a)
      PROVE HeldIsCurrent'
  BY <1>5, ThreadsAssumption, MemoryBoundsAssumption DEF StartRun, Build, Collected,
     HeldIsCurrent, ChainsApart, PollsMatch, AtAProvider, Object, Current, TypeOK,
     Runs, Polls, Idle, Free, NotPolling, Threads, guard, history
<1>6. ASSUME NEW a \in Analyses, NEW level \in Levels,
               run[a].pc = "polling", Probe(a, level), UNCHANGED views
      PROVE HeldIsCurrent'
  BY <1>6, ThreadsAssumption, MemoryBoundsAssumption DEF Probe, HeldIsCurrent,
     ChainsApart, PollsMatch, AtAProvider, Object, Current, TypeOK, Runs, Polls, Idle,
     Free, NotPolling, Threads, guard, history
<1>7. ASSUME NEW a \in Analyses, Defer(a)
      PROVE HeldIsCurrent'
  BY <1>7, ThreadsAssumption, MemoryBoundsAssumption DEF Defer, HeldIsCurrent,
     ChainsApart, PollsMatch, AtAProvider, Object, Current, TypeOK, Runs, Polls, Idle,
     Free, NotPolling, Threads, guard, history
<1>8. ASSUME NEW a \in Analyses, MarkLoaded(a)
      PROVE HeldIsCurrent'
  BY <1>8, ThreadsAssumption, MemoryBoundsAssumption DEF MarkLoaded, Go,
     HeldIsCurrent, ChainsApart, PollsMatch, AtAProvider, Object, Current, TypeOK,
     Runs, Polls, Idle, Free, NotPolling, Threads, guard, history
<1>9. ASSUME NEW a \in Analyses, NEW ok \in BOOLEAN, ExternalAnswers(a, ok)
      PROVE HeldIsCurrent'
  BY <1>9, ThreadsAssumption, MemoryBoundsAssumption DEF ExternalAnswers, Go,
     HeldIsCurrent, ChainsApart, PollsMatch, AtAProvider, Object, Current, TypeOK,
     Runs, Polls, Idle, Free, NotPolling, Threads, guard, history
<1>10. ASSUME NEW a \in Analyses, NEW ok \in BOOLEAN, LoadEnds(a, ok)
      PROVE HeldIsCurrent'
  BY <1>10, ThreadsAssumption, MemoryBoundsAssumption DEF LoadEnds, Go, HeldIsCurrent,
     ChainsApart, PollsMatch, AtAProvider, Object, Current, TypeOK, Runs, Polls, Idle,
     Free, NotPolling, Threads, guard, history
<1>11. ASSUME NEW a \in Analyses, NEW ok \in BOOLEAN, GenerateEnds(a, ok)
      PROVE HeldIsCurrent'
  BY <1>11, ThreadsAssumption, MemoryBoundsAssumption DEF GenerateEnds, Go,
     HeldIsCurrent, ChainsApart, PollsMatch, AtAProvider, Object, Current, TypeOK,
     Runs, Polls, Idle, Free, NotPolling, Threads, guard, history
<1>12. ASSUME NEW a \in Analyses, LoadStarts(a)
      PROVE HeldIsCurrent'
  BY <1>12, ThreadsAssumption, MemoryBoundsAssumption DEF LoadStarts, Go,
     HeldIsCurrent, ChainsApart, PollsMatch, AtAProvider, Object, Current, TypeOK,
     Runs, Polls, Idle, Free, NotPolling, Threads, guard, history
<1>13. ASSUME NEW a \in Analyses, UnloadFailed(a)
      PROVE HeldIsCurrent'
<2>1. \A object \in weights' :
        run[a].chain = object[1] => object[2] = Current(a) /\ object \in Objects
  BY <1>13 DEF UnloadFailed, HeldIsCurrent, TypeOK
<2>2. \A object \in weights' : run[a].chain # object[1]
  BY <1>13, <2>1 DEF UnloadFailed, Dropped, Object, Objects
<2>3. \A b \in Analyses : b # a => run'[b] = run[b]
  BY <1>13 DEF UnloadFailed, Go, TypeOK
<2>4. run'[a].chain = run[a].chain
  BY <1>13 DEF UnloadFailed, Go, TypeOK
<2>5. weights' \subseteq weights
  BY <1>13 DEF UnloadFailed
<2>. QED
  BY <2>2, <2>3, <2>4, <2>5 DEF HeldIsCurrent, Current
<1>14. ASSUME NEW a \in Analyses, MarkUnloaded(a)
      PROVE HeldIsCurrent'
  BY <1>14, ThreadsAssumption, MemoryBoundsAssumption DEF MarkUnloaded, Go,
     HeldIsCurrent, ChainsApart, PollsMatch, AtAProvider, Object, Current, TypeOK,
     Runs, Polls, Idle, Free, NotPolling, Threads, guard, history
<1>15. ASSUME NEW a \in Analyses, EndRun(a)
      PROVE HeldIsCurrent'
  BY <1>15, ThreadsAssumption, MemoryBoundsAssumption DEF EndRun, Collected,
     HeldIsCurrent, ChainsApart, PollsMatch, AtAProvider, Object, Current, TypeOK,
     Runs, Polls, Idle, Free, NotPolling, Threads, guard, history
<1>16. CASE UNCHANGED vars
  BY <1>16 DEF vars, guard, history, HeldIsCurrent, ChainsApart, PollsMatch,
     AtAProvider, Object, Current, TypeOK, Runs, Polls, Idle, Free, NotPolling,
     Threads
<1>. QED
  BY <1>1, <1>2, <1>3, <1>4, <1>5, <1>6, <1>7, <1>8, <1>9, <1>10, <1>11, <1>12, <1>13,
     <1>14, <1>15, <1>16 DEF Next, PollStep, RunStep

\* The gate is passed before the load.
LEMMA GateStep ==
    TypeOK /\ PollsMatch /\ GatePassed /\ [Next]_vars
        => GatePassed'
<1> SUFFICES ASSUME TypeOK /\ PollsMatch /\ GatePassed,
                    [Next]_vars
             PROVE  GatePassed'
  OBVIOUS
<1>1. CASE PanelBuilds
  BY <1>1, ThreadsAssumption DEF PanelBuilds, Build, GatePassed, PollsMatch, Current,
     Chained, TypeOK, Runs, Polls, Idle, Free, NotPolling, Threads, guard, history
<1>2. ASSUME NEW v \in Viewers, NEW level \in Levels, View(v, level)
      PROVE GatePassed'
  BY <1>2, ThreadsAssumption DEF View, Probe, GatePassed, PollsMatch, Current,
     Chained, TypeOK, Runs, Polls, Idle, Free, NotPolling, Threads, guard, history
<1>3. ASSUME NEW t \in Threads, PollEnter(t)
      PROVE GatePassed'
  BY <1>3, ThreadsAssumption DEF PollEnter, PollEnds, Reason, ToUnload, LockFree,
     GatePassed, PollsMatch, Current, Chained, TypeOK, Runs, Polls, Idle, Free,
     NotPolling, Threads, guard, history
<1>4. ASSUME NEW t \in Threads, NEW name \in Names, PollUnload(t, name)
      PROVE GatePassed'
  BY <1>4, ThreadsAssumption DEF PollUnload, PollEnds, GatePassed, PollsMatch,
     Current, Chained, TypeOK, Runs, Polls, Idle, Free, NotPolling, Threads, guard,
     history
<1>5. ASSUME NEW a \in Analyses, StartRun(a)
      PROVE GatePassed'
  BY <1>5, ThreadsAssumption DEF StartRun, Build, GatePassed, PollsMatch, Current,
     Chained, TypeOK, Runs, Polls, Idle, Free, NotPolling, Threads, guard, history
<1>6. ASSUME NEW a \in Analyses, NEW level \in Levels,
               run[a].pc = "polling", Probe(a, level), UNCHANGED views
      PROVE GatePassed'
  BY <1>6, ThreadsAssumption DEF Probe, GatePassed, PollsMatch, Current, Chained,
     TypeOK, Runs, Polls, Idle, Free, NotPolling, Threads, guard, history
<1>7. ASSUME NEW a \in Analyses, Defer(a)
      PROVE GatePassed'
  BY <1>7, ThreadsAssumption DEF Defer, GatePassed, PollsMatch, Current, Chained,
     TypeOK, Runs, Polls, Idle, Free, NotPolling, Threads, guard, history
<1>8. ASSUME NEW a \in Analyses, MarkLoaded(a)
      PROVE GatePassed'
  BY <1>8, ThreadsAssumption DEF MarkLoaded, Go, MayTry, GatePassed, PollsMatch,
     Current, Chained, TypeOK, Runs, Polls, Idle, Free, NotPolling, Threads, guard,
     history
<1>9. ASSUME NEW a \in Analyses, NEW ok \in BOOLEAN, ExternalAnswers(a, ok)
      PROVE GatePassed'
  BY <1>9, ThreadsAssumption DEF ExternalAnswers, Go, GatePassed, PollsMatch, Current,
     Chained, TypeOK, Runs, Polls, Idle, Free, NotPolling, Threads, guard, history
<1>10. ASSUME NEW a \in Analyses, NEW ok \in BOOLEAN, LoadEnds(a, ok)
      PROVE GatePassed'
  BY <1>10, ThreadsAssumption DEF LoadEnds, Go, GatePassed, PollsMatch, Current,
     Chained, TypeOK, Runs, Polls, Idle, Free, NotPolling, Threads, guard, history
<1>11. ASSUME NEW a \in Analyses, NEW ok \in BOOLEAN, GenerateEnds(a, ok)
      PROVE GatePassed'
  BY <1>11, ThreadsAssumption DEF GenerateEnds, Go, GatePassed, PollsMatch, Current,
     Chained, TypeOK, Runs, Polls, Idle, Free, NotPolling, Threads, guard, history
<1>12. ASSUME NEW a \in Analyses, LoadStarts(a)
      PROVE GatePassed'
  BY <1>12, ThreadsAssumption DEF LoadStarts, Go, GatePassed, PollsMatch, Current,
     Chained, TypeOK, Runs, Polls, Idle, Free, NotPolling, Threads, guard, history
<1>13. ASSUME NEW a \in Analyses, UnloadFailed(a)
      PROVE GatePassed'
  BY <1>13, ThreadsAssumption DEF UnloadFailed, Go, Dropped, GatePassed, PollsMatch,
     Current, Chained, TypeOK, Runs, Polls, Idle, Free, NotPolling, Threads, guard,
     history
<1>14. ASSUME NEW a \in Analyses, MarkUnloaded(a)
      PROVE GatePassed'
  BY <1>14, ThreadsAssumption DEF MarkUnloaded, Go, GatePassed, PollsMatch, Current,
     Chained, TypeOK, Runs, Polls, Idle, Free, NotPolling, Threads, guard, history
<1>15. ASSUME NEW a \in Analyses, EndRun(a)
      PROVE GatePassed'
  BY <1>15, ThreadsAssumption DEF EndRun, GatePassed, PollsMatch, Current, Chained,
     TypeOK, Runs, Polls, Idle, Free, NotPolling, Threads, guard, history
<1>16. CASE UNCHANGED vars
  BY <1>16 DEF vars, guard, history, GatePassed, PollsMatch, Current, Chained, TypeOK,
     Runs, Polls, Idle, Free, NotPolling, Threads
<1>. QED
  BY <1>1, <1>2, <1>3, <1>4, <1>5, <1>6, <1>7, <1>8, <1>9, <1>10, <1>11, <1>12, <1>13,
     <1>14, <1>15, <1>16 DEF Next, PollStep, RunStep

\* Unloading keeps up with the registrations and the loads.
LEMMA HardStep ==
    TypeOK /\ PollsMatch /\ ChainsApart /\ HardDone /\ [Next]_vars
        => HardDone'
<1> SUFFICES ASSUME TypeOK /\ PollsMatch /\ ChainsApart /\ HardDone,
                    [Next]_vars
             PROVE  HardDone'
  OBVIOUS
<1>1. CASE PanelBuilds
  BY <1>1, ThreadsAssumption, MemoryBoundsAssumption DEF PanelBuilds, Build,
     Collected, HardDone, Todo, LockFree, PollsMatch, ChainsApart, Object, TypeOK,
     Runs, Polls, Idle, Free, NotPolling, Threads, guard, history
<1>2. ASSUME NEW v \in Viewers, NEW level \in Levels, View(v, level)
      PROVE HardDone'
  BY <1>2, ThreadsAssumption, MemoryBoundsAssumption DEF View, Probe, HardDone, Todo,
     LockFree, PollsMatch, ChainsApart, Object, TypeOK, Runs, Polls, Idle, Free,
     NotPolling, Threads, guard, history
<1>3. ASSUME NEW t \in Threads, PollEnter(t)
      PROVE HardDone'
<2>1. UNCHANGED <<callbacks, weights, late>> /\ LockFree /\ state' = poll[t].level
  BY <1>3 DEF PollEnter
<2>2. ASSUME ~stale', state' = "hard" PROVE DOMAIN callbacks \ Todo' = {} \/ HardDone'
  <3>1. ~stale /\ poll[t].prev = state
    BY <1>3, <2>2 DEF PollEnter, TypeOK
  <3>2. CASE poll[t].prev = "hard"
    <4>1. holder' = Free
      BY <1>3, <2>1, <2>2, <3>2 DEF PollEnter
    <4>. QED
      BY <2>1, <2>2, <3>1, <3>2, <4>1 DEF HardDone, Todo, LockFree
  <3>3. CASE poll[t].prev # "hard"
    <4>1. ToUnload(poll[t].prev, poll[t].level) = DOMAIN callbacks
      BY <2>1, <2>2 DEF ToUnload
    <4>2. CASE DOMAIN callbacks = {}
      BY <4>2
    <4>3. CASE DOMAIN callbacks # {}
      <5>1. holder' = [thread |-> t, todo |-> DOMAIN callbacks]
        BY <1>3, <2>1, <2>2, <3>3, <4>1, <4>3 DEF PollEnter
      <5>2. holder' # Free
        BY <5>1, ThreadsAssumption DEF Free, Threads
      <5>. QED
        BY <5>1, <5>2 DEF Todo, LockFree
    <4>. QED
      BY <4>2, <4>3
  <3>. QED
    BY <3>2, <3>3
<2>. QED
  BY <2>1, <2>2 DEF HardDone
<1>4. ASSUME NEW t \in Threads, NEW name \in Names, PollUnload(t, name)
      PROVE HardDone'
  BY <1>4, ThreadsAssumption, MemoryBoundsAssumption DEF PollUnload, PollEnds,
     HardDone, Todo, LockFree, PollsMatch, ChainsApart, Object, TypeOK, Runs, Polls,
     Idle, Free, NotPolling, Threads, guard, history
<1>5. ASSUME NEW a \in Analyses, StartRun(a)
      PROVE HardDone'
  BY <1>5, ThreadsAssumption, MemoryBoundsAssumption DEF StartRun, Build, Collected,
     HardDone, Todo, LockFree, PollsMatch, ChainsApart, Object, TypeOK, Runs, Polls,
     Idle, Free, NotPolling, Threads, guard, history
<1>6. ASSUME NEW a \in Analyses, NEW level \in Levels,
               run[a].pc = "polling", Probe(a, level), UNCHANGED views
      PROVE HardDone'
  BY <1>6, ThreadsAssumption, MemoryBoundsAssumption DEF Probe, HardDone, Todo,
     LockFree, PollsMatch, ChainsApart, Object, TypeOK, Runs, Polls, Idle, Free,
     NotPolling, Threads, guard, history
<1>7. ASSUME NEW a \in Analyses, Defer(a)
      PROVE HardDone'
  BY <1>7, ThreadsAssumption, MemoryBoundsAssumption DEF Defer, HardDone, Todo,
     LockFree, PollsMatch, ChainsApart, Object, TypeOK, Runs, Polls, Idle, Free,
     NotPolling, Threads, guard, history
<1>8. ASSUME NEW a \in Analyses, MarkLoaded(a)
      PROVE HardDone'
  BY <1>8, ThreadsAssumption, MemoryBoundsAssumption DEF MarkLoaded, Go, HardDone,
     Todo, LockFree, PollsMatch, ChainsApart, Object, TypeOK, Runs, Polls, Idle, Free,
     NotPolling, Threads, guard, history
<1>9. ASSUME NEW a \in Analyses, NEW ok \in BOOLEAN, ExternalAnswers(a, ok)
      PROVE HardDone'
  BY <1>9, ThreadsAssumption, MemoryBoundsAssumption DEF ExternalAnswers, Go,
     HardDone, Todo, LockFree, PollsMatch, ChainsApart, Object, TypeOK, Runs, Polls,
     Idle, Free, NotPolling, Threads, guard, history
<1>10. ASSUME NEW a \in Analyses, NEW ok \in BOOLEAN, LoadEnds(a, ok)
      PROVE HardDone'
  BY <1>10, ThreadsAssumption, MemoryBoundsAssumption DEF LoadEnds, Go, HardDone,
     Todo, LockFree, PollsMatch, ChainsApart, Object, TypeOK, Runs, Polls, Idle, Free,
     NotPolling, Threads, guard, history
<1>11. ASSUME NEW a \in Analyses, NEW ok \in BOOLEAN, GenerateEnds(a, ok)
      PROVE HardDone'
  BY <1>11, ThreadsAssumption, MemoryBoundsAssumption DEF GenerateEnds, Go, HardDone,
     Todo, LockFree, PollsMatch, ChainsApart, Object, TypeOK, Runs, Polls, Idle, Free,
     NotPolling, Threads, guard, history
<1>12. ASSUME NEW a \in Analyses, LoadStarts(a)
      PROVE HardDone'
  BY <1>12, ThreadsAssumption, MemoryBoundsAssumption DEF LoadStarts, Go, HardDone,
     Todo, LockFree, PollsMatch, ChainsApart, Object, TypeOK, Runs, Polls, Idle, Free,
     NotPolling, Threads, guard, history
<1>13. ASSUME NEW a \in Analyses, UnloadFailed(a)
      PROVE HardDone'
  BY <1>13, ThreadsAssumption, MemoryBoundsAssumption DEF UnloadFailed, Go, Dropped,
     HardDone, Todo, LockFree, PollsMatch, ChainsApart, Object, TypeOK, Runs, Polls,
     Idle, Free, NotPolling, Threads, guard, history
<1>14. ASSUME NEW a \in Analyses, MarkUnloaded(a)
      PROVE HardDone'
  BY <1>14, ThreadsAssumption, MemoryBoundsAssumption DEF MarkUnloaded, Go, HardDone,
     Todo, LockFree, PollsMatch, ChainsApart, Object, TypeOK, Runs, Polls, Idle, Free,
     NotPolling, Threads, guard, history
<1>15. ASSUME NEW a \in Analyses, EndRun(a)
      PROVE HardDone'
  BY <1>15, ThreadsAssumption, MemoryBoundsAssumption DEF EndRun, Collected, HardDone,
     Todo, LockFree, PollsMatch, ChainsApart, Object, TypeOK, Runs, Polls, Idle, Free,
     NotPolling, Threads, guard, history
<1>16. CASE UNCHANGED vars
  BY <1>16 DEF vars, guard, history, HardDone, Todo, LockFree, PollsMatch,
     ChainsApart, Object, TypeOK, Runs, Polls, Idle, Free, NotPolling, Threads
<1>. QED
  BY <1>1, <1>2, <1>3, <1>4, <1>5, <1>6, <1>7, <1>8, <1>9, <1>10, <1>11, <1>12, <1>13,
     <1>14, <1>15, <1>16 DEF Next, PollStep, RunStep

-----------------------------------------------------------------------------
(* The theorems.                                                           *)

\* At the start nothing is loaded and nobody polls.
LEMMA Initially == Init => MemInv
<1> SUFFICES ASSUME Init PROVE MemInv
  OBVIOUS
<1>1. TypeOK
  <2>1. poll \in [Threads -> Polls] /\ run \in [Analyses -> {Idle} \union Runs]
    BY DEF Init, Polls
  <2>2. callbacks \in {[n \in {} |-> 0]} /\ weights = {} /\ late = {} /\ loaded = {}
    BY DEF Init
  <2>3. built \in 0..MaxBuilt /\ views \in 0..MaxViews
    <3>1. MaxBuilt \in Nat /\ MaxViews \in Nat
      BY MemoryBoundsAssumption
    <3>. QED
      BY <3>1 DEF Init
  <2>5. stale \in BOOLEAN
    BY DEF Init
  <2>4. /\ state \in Levels /\ reason \in {"none"} \union (Levels \ {"normal"})
        /\ holder \in {Free} \union [thread: Threads, todo: SUBSET Names]
    BY DEF Init, Levels
  <2>. QED
    BY <2>1, <2>2, <2>3, <2>4, <2>5 DEF TypeOK
<1>2. PollsMatch
  BY ThreadsAssumption DEF Init, PollsMatch, NotPolling, Free, Threads
<1>3. AtAProvider /\ ChainsApart /\ HeldIsCurrent /\ GatePassed /\ HardDone
  BY DEF Init, AtAProvider, ChainsApart, HeldIsCurrent, GatePassed, HardDone, Idle
<1>. QED
  BY <1>1, <1>2, <1>3 DEF MemInv

\* The parts are inductive together.
LEMMA Invariantly == Spec => []MemInv
<1>1. MemInv /\ [Next]_vars => MemInv'
  BY TypeStep, PollsStep, AtStep, ChainsStep, HeldStep, GateStep, HardStep DEF MemInv
<1>. QED
  BY Initially, <1>1, PTL DEF Spec

\* The state keeps its shape.
THEOREM TypeInvariant == Spec => []TypeOK
<1>1. MemInv => TypeOK
  BY DEF MemInv
<1>. QED
  BY Invariantly, <1>1, PTL

\* In a chain of several providers, none loads its weights into this process
\* for an analysis whose own poll did not find the memory normal.
THEOREM GateInvariant == ASSUME Chained PROVE Spec => []GateHeld
<1>1. MemInv => GateHeld
  BY DEF MemInv, GatePassed, GateHeld
<1>. QED
  BY Invariantly, <1>1, PTL

\* An analysis never holds the weights of two providers, nor those of one it
\* has given up, whichever way its providers fail and whoever unloads them.
THEOREM OneHeldInvariant == Spec => []OneOfAChain
<1>1. MemInv => OneOfAChain
  BY DEF MemInv, HeldIsCurrent, AtAProvider, OneOfAChain
<1>. QED
  BY Invariantly, <1>1, PTL

\* When the unloading of the hard limit is over, every registered object that
\* holds weights got them after the limit was crossed.
THEOREM HardLimitInvariant == Spec => []HardLimitUnloads
<1>1. MemInv => HardLimitUnloads
  BY DEF MemInv, HardDone, Todo, HardLimitUnloads
<1>. QED
  BY Invariantly, <1>1, PTL

=============================================================================
