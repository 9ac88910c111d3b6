---------------------------- MODULE WaitSetProofs ----------------------------
(***************************************************************************)
(* Proofs about WaitSet: what its runs check on two threads and three      *)
(* entities holds for any finite sets of entities, any threads and any     *)
(* bounds.  The invariants of WaitSet speak of a thread that sleeps; IInv  *)
(* adds what has to hold on the way there, while the wait set is being     *)
(* attached, and what a thread knows while it holds a condition mutex.     *)
(***************************************************************************)
EXTENDS WaitSet, TLAPS

\* Where the wait_set_data pointers are in each phase of rmw_wait.
PhaseInv ==
    /\ wpc = "idle" => attached = {} /\ backlog = {}
    /\ wpc = "attach" => attached = entries \ todo /\ todo \subseteq entries
    /\ wpc \in {"block", "asleep", "woken"} => attached = entries
    /\ wpc = "detach" => attached \subseteq todo
    /\ ~alive => wpc = "idle"

\* What a thread between two steps knows about the entity it works on.
ThreadInv == \A t \in Threads :
    /\ pc[t] \in {"callback", "trigger", "signal"} => target[t] \in Queued
    /\ pc[t] = "flag" => target[t] \in Guards /\ guardTriggered[target[t]]
    /\ pc[t] \in HoldsCondMutex => target[t] \in attached

\* An entity that had a message at the call is never attached by the first loop.
BacklogInv ==
    /\ backlog \subseteq entries
    /\ \A e \in backlog : queue[e] > 0
    /\ wpc = "attach" => backlog \cap attached = {}
    /\ wpc \in {"block", "asleep", "woken"} => backlog = {}

\* A message for an attached entity has flagged the wait set, or its handler will.
FlagInv ==
    wpc \in {"attach", "block", "asleep", "woken"} =>
        \A e \in attached \cap Queued : queue[e] > 0 => triggered \/ Pending(e)

\* The entries the second loop has passed and left are ready.
DetachInv == wpc = "detach" => \A e \in entries \ todo : Ready(e)

IInv == /\ TypeOK /\ PhaseInv /\ ThreadInv /\ BacklogInv /\ FlagInv /\ DetachInv
        /\ NoLostWakeup /\ OnlyGuardsLeaveSleepers

-----------------------------------------------------------------------------
\* The initial state: nothing queued, nothing attached, nobody waits.
LEMMA InitInv == Init => IInv
<1> SUFFICES ASSUME Init PROVE IInv
  OBVIOUS
<1>1. TypeOK
  <2>1. 0 \in 0..QueueMax /\ 0 \in 0..(UnreadMod - 1)
    BY BoundAssumption
  <2> QED
    BY <2>1 DEF Init, TypeOK, Modes, WaiterSteps, ThreadSteps
<1>2. PhaseInv /\ BacklogInv /\ FlagInv /\ DetachInv
  BY DEF Init, PhaseInv, BacklogInv, FlagInv, DetachInv
<1>3. ThreadInv /\ NoLostWakeup /\ OnlyGuardsLeaveSleepers
  BY DEF Init, ThreadInv, HoldsCondMutex, NoLostWakeup, OnlyGuardsLeaveSleepers
<1> QED
  BY <1>1, <1>2, <1>3 DEF IInv

\* Every step of the threads and of the executor keeps IInv.  The handlers' steps are
\* the ones FlagInv is about: a pending handler either finds its entity detached or
\* flags the wait set.  The waiter may sleep only with the flag down, so that FlagInv
\* leaves a pending handler for every message.
LEMMA StepInv == IInv /\ [Next]_vars => IInv'
<1> SUFFICES ASSUME IInv, [Next]_vars PROVE IInv'
  OBVIOUS
<1> USE EntityAssumption, BoundAssumption
<1> USE DEF IInv, TypeOK, PhaseInv, ThreadInv, BacklogInv, FlagInv, DetachInv,
            NoLostWakeup, OnlyGuardsLeaveSleepers, Pending, Ready, CondFree,
            Entities, Modes, WaiterSteps, ThreadSteps, HoldsCondMutex,
            Goto, Finish, threadVars, waiterVars
<1>1. ASSUME NEW t \in Threads, NEW e \in Queued, AppendMessage(t, e) PROVE IInv'
  BY <1>1 DEF AppendMessage
<1>2. ASSUME NEW t \in Threads, DataCallback(t) PROVE IInv'
  BY <1>2 DEF DataCallback
<1>3. ASSUME NEW t \in Threads, ConditionTrigger(t) PROVE IInv'
  <2>1. CASE target[t] \in attached
    BY <1>3, <2>1 DEF ConditionTrigger
  <2>2. CASE target[t] \notin attached
    <3>1. TypeOK' /\ PhaseInv' /\ ThreadInv' /\ BacklogInv' /\ DetachInv'
      BY <1>3, <2>2 DEF ConditionTrigger
    <3>2. \A e \in attached : Pending(e) => Pending(e)'
      BY <1>3, <2>2 DEF ConditionTrigger
    <3>3. FlagInv' /\ NoLostWakeup' /\ OnlyGuardsLeaveSleepers'
      BY <1>3, <2>2, <3>2 DEF ConditionTrigger
    <3> QED
      BY <3>1, <3>3
  <2> QED
    BY <2>1, <2>2
<1>4. ASSUME NEW t \in Threads, ConditionSignal(t) PROVE IInv'
  <2>1. triggered' /\ wpc' # "asleep"
    BY <1>4 DEF ConditionSignal, SetTriggered
  <2>2. FlagInv' /\ NoLostWakeup' /\ OnlyGuardsLeaveSleepers'
    BY <2>1
  <2>3. TypeOK' /\ PhaseInv' /\ ThreadInv' /\ BacklogInv' /\ DetachInv'
    BY <1>4 DEF ConditionSignal, SetTriggered
  <2> QED
    BY <2>2, <2>3
<1>5. ASSUME NEW t \in Threads, NEW g \in Guards, GuardTrigger(t, g) PROVE IInv'
  BY <1>5 DEF GuardTrigger
<1>6. ASSUME NEW t \in Threads, GuardFlag(t) PROVE IInv'
  \* The flagged guard condition is attached, hence the reason a sleeper may be flagged.
  <2>1. target[t] \in attached \cap Guards /\ guardTriggered[target[t]]
    BY <1>6 DEF GuardFlag, SetTriggered
  <2>2. OnlyGuardsLeaveSleepers'
    BY <1>6, <2>1 DEF GuardFlag, SetTriggered
  <2>3. NoLostWakeup' /\ FlagInv'
    BY <1>6 DEF GuardFlag, SetTriggered
  <2>4. TypeOK' /\ PhaseInv' /\ ThreadInv' /\ BacklogInv' /\ DetachInv'
    BY <1>6 DEF GuardFlag, SetTriggered
  <2> QED
    BY <2>2, <2>3, <2>4
<1>7. ASSUME NEW S \in SUBSET Entities, NEW m \in Modes, WaitCall(S, m) PROVE IInv'
  BY <1>7 DEF WaitCall
<1>8. ASSUME NEW e \in Entities, CheckAndAttach(e) PROVE IInv'
  <2>1. CASE Ready(e)
    BY <1>8, <2>1 DEF CheckAndAttach, Front
  <2>2. CASE ~Ready(e)
    <3>1. e \notin backlog /\ (e \in Queued => queue[e] = 0)
      BY <2>2
    <3>2. TypeOK'
      BY <1>8, <2>2 DEF CheckAndAttach
    <3>3. attached' = attached \cup {e} /\ e \in todo /\ wpc = "attach"
      BY <1>8, <2>2 DEF CheckAndAttach, Front
    <3>4. PhaseInv'
      BY <1>8, <2>2, <3>3 DEF CheckAndAttach
    <3>5. ThreadInv' /\ DetachInv'
      BY <1>8, <2>2, <3>3 DEF CheckAndAttach
    <3>6. BacklogInv'
      BY <1>8, <2>2, <3>1, <3>3, <3>4 DEF CheckAndAttach
    <3>7. FlagInv' /\ NoLostWakeup' /\ OnlyGuardsLeaveSleepers'
      BY <1>8, <2>2, <3>1, <3>3 DEF CheckAndAttach
    <3> QED
      BY <3>2, <3>4, <3>5, <3>6, <3>7
  <2> QED
    BY <2>1, <2>2
<1>9. ASSUME NEW e \in Entities, Detach(e) PROVE IInv'
  \* CondFree(e): no thread is left with a condition mutex of an entity not attached.
  <2>1. ThreadInv'
    BY <1>9 DEF Detach, DetachOne, Front
  <2>2. TypeOK' /\ PhaseInv' /\ BacklogInv' /\ DetachInv'
    BY <1>9 DEF Detach, DetachOne, Front
  <2>3. FlagInv' /\ NoLostWakeup' /\ OnlyGuardsLeaveSleepers'
    BY <1>9 DEF Detach, DetachOne, Front
  <2> QED
    BY <2>1, <2>2, <2>3
<1>10. CASE WaitForever
  <2>1. CASE triggered
    BY <1>10, <2>1 DEF WaitForever, WaitFrame, Resume, Sleep
  <2>2. CASE ~triggered
    <3>1. wpc' = "asleep" /\ ~triggered' /\ attached' = entries'
      BY <1>10, <2>2 DEF WaitForever, WaitFrame, Resume, Sleep
    <3>2. \A e \in entries \cap Queued : queue[e] > 0 => Pending(e)
      BY <1>10, <2>2 DEF WaitForever
    <3>3. FlagInv' /\ NoLostWakeup' /\ OnlyGuardsLeaveSleepers'
      BY <1>10, <2>2, <3>1, <3>2 DEF WaitForever, WaitFrame, Resume, Sleep
    <3>4. TypeOK' /\ PhaseInv' /\ ThreadInv' /\ BacklogInv' /\ DetachInv'
      BY <1>10, <2>2 DEF WaitForever, WaitFrame, Resume, Sleep
    <3> QED
      BY <3>3, <3>4
  <2> QED
    BY <2>1, <2>2
<1>11. CASE WaitTimed
  BY <1>11 DEF WaitTimed, WaitFrame, Resume, Sleep
<1>12. CASE Poll
  BY <1>12 DEF Poll, WaitFrame, Resume
<1>13. CASE WakeUp
  BY <1>13 DEF WakeUp
<1>14. ASSUME NEW e \in Queued, Take(e) PROVE IInv'
  BY <1>14 DEF Take, TakeUnchecked
<1>15. CASE DestroyWaitSet
  BY <1>15 DEF DestroyWaitSet
<1>16. CASE CreateWaitSet
  BY <1>16 DEF CreateWaitSet
<1>17. ASSUME NEW t \in Threads, NEW e \in Queued, StrayRequest(t, e) PROVE IInv'
  BY <1>17 DEF StrayRequest
<1>18. ASSUME NEW g \in Guards, ReplaceGuard(g) PROVE IInv'
  BY <1>18 DEF ReplaceGuard
<1>19. CASE UNCHANGED vars
  BY <1>19 DEF vars
<1> HIDE DEF IInv
<1> QED
  BY <1>1, <1>2, <1>3, <1>4, <1>5, <1>6, <1>7, <1>8, <1>9, <1>10, <1>11, <1>12,
     <1>13, <1>14, <1>15, <1>16, <1>17, <1>18, <1>19
     DEF Next, Handler, Waiting, Timeout, SpuriousWakeUp

\* So it holds in every reachable state.
LEMMA Invariance == Spec => []IInv
<1> QED
  BY InitInv, StepInv, PTL DEF Spec

-----------------------------------------------------------------------------
\* Every variable keeps its type; in particular rmw_take never counts below zero.
THEOREM TypeCorrect == Spec => []TypeOK
<1>1. IInv => TypeOK
  BY DEF IInv
<1> QED
  BY <1>1, Invariance, PTL

\* An rmw_wait without timeout never sleeps on a message whose handler has passed its
\* zenoh_pico_condition_trigger.
THEOREM NoWakeupIsLost == Spec => []NoLostWakeup
<1>1. IInv => NoLostWakeup
  BY DEF IInv
<1> QED
  BY <1>1, Invariance, PTL

\* A wait without timeout that sleeps with the flag up was flagged by a guard condition
\* of its own: guard_condition_trigger is the only one that sets it without a signal.
THEOREM SleepersAreLeftByGuards == Spec => []OnlyGuardsLeaveSleepers
<1>1. IInv => OnlyGuardsLeaveSleepers
  BY DEF IInv
<1> QED
  BY <1>1, Invariance, PTL

\* rmw_wait does not block when one of its queues held a message at the call.
THEOREM BacklogSkipsTheWait == Spec => []NeverBlocksOnBacklog
<1>1. IInv => NeverBlocksOnBacklog
  BY DEF IInv, BacklogInv, NeverBlocksOnBacklog
<1> QED
  BY <1>1, Invariance, PTL

\* rmw_destroy_wait_set never frees a wait set that a trigger is about to lock: a thread
\* that read the pointer holds the condition mutex that rmw_wait needs to detach.
THEOREM WaitSetOutlivesItsTriggers == Spec => []NoUseAfterDestroy
<1>1. IInv => NoUseAfterDestroy
  BY DEF IInv, PhaseInv, ThreadInv, NoUseAfterDestroy
<1> QED
  BY <1>1, Invariance, PTL

\* What rmw_wait leaves in the caller's arrays is ready, nothing that was ready at the
\* call is missing, and no entity keeps a pointer to the wait set.
THEOREM ReturnIsSound == Spec => ReturnsWhatIsReady
<1> DEFINE Return == wpc # "idle" /\ wpc' = "idle" =>
                       /\ \A e \in entries' : Ready(e)'
                       /\ backlog \subseteq entries'
                       /\ attached' = {}
<1>1. IInv /\ IInv' /\ [Next]_vars => [Return]_vars
  <2> SUFFICES ASSUME IInv, IInv', Next, wpc # "idle", wpc' = "idle" PROVE Return
    OBVIOUS
  <2>1. PICK e \in Entities : Detach(e)
    BY DEF Next, Handler, Waiting, Timeout, SpuriousWakeUp, AppendMessage, StrayRequest, GuardTrigger,
           DataCallback, ConditionTrigger, ConditionSignal, GuardFlag, SetTriggered,
           WaitCall, CheckAndAttach, WaitForever, WaitTimed, Poll, WakeUp, Sleep, Resume,
           Take, TakeUnchecked, ReplaceGuard, DestroyWaitSet, CreateWaitSet, waiterVars
  <2>2. todo' = {} /\ attached' = {}
    BY <2>1 DEF Detach, DetachOne, IInv, PhaseInv
  <2>3. \A f \in entries' : Ready(f) /\ Ready(f)'
    BY <2>1, <2>2 DEF Detach, DetachOne, IInv, DetachInv, Ready
  <2>4. \A f \in backlog : f \in entries /\ Ready(f)
    BY EntityAssumption DEF IInv, TypeOK, BacklogInv, Ready
  <2>5. backlog \subseteq entries'
    BY <2>1, <2>4 DEF Detach, DetachOne
  <2> QED
    BY <2>2, <2>3, <2>5
<1>2. IInv /\ [Next]_vars => IInv'
  BY StepInv
<1> QED
  BY <1>1, <1>2, Invariance, PTL DEF Spec, ReturnsWhatIsReady
=============================================================================
