------------------------------- MODULE WaitSet -------------------------------
(***************************************************************************)
(* rmw_wait and what wakes it (rmw_wait.c, zenoh_pico_condition.c,         *)
(* rmw_guard_condition.c and the handlers that queue a message and then    *)
(* trigger the entity's wait condition).                                   *)
(*                                                                         *)
(* One executor thread calls rmw_wait on one wait set, takes messages and  *)
(* calls rmw_wait again.  Threads run the zenoh-pico callbacks and         *)
(* rmw_trigger_guard_condition.  An entity is a guard condition, a         *)
(* subscription, a service or a client; all but the first have a message   *)
(* queue, of which only the length matters here (RecvMsgList has the       *)
(* list).  Events are left out: no event type passes support_event_type.   *)
(*                                                                         *)
(* Every critical section is one step, except that a thread that found a   *)
(* wait set attached keeps the entity's condition mutex while it waits     *)
(* for the wait set's mutex.  CondFree says that nobody does.              *)
(***************************************************************************)
EXTENDS Naturals, FiniteSets

CONSTANTS Guards, Subs, Services, Clients,  \* the entities, by kind
          Threads,     \* threads that run handlers and trigger guard conditions
          Nobody,      \* what an idle thread works on
          QueueMax,    \* bound of the model: the longest queue looked at
          UnreadMod    \* unread_count wraps modulo this (2^w of size_t)

\* The entities with a queue that rmw_wait looks at.  Of a client's two that is
\* response_queue; nobody looks at its request_queue.
Queued == Subs \cup Services \cup Clients
Entities == Guards \cup Queued

ASSUME EntityAssumption ==
    /\ IsFiniteSet(Entities)
    /\ Guards \cap Queued = {}
    /\ Nobody \notin Entities
ASSUME BoundAssumption == QueueMax \in Nat \ {0} /\ UnreadMod \in Nat \ {0}

VARIABLES
    queue,           \* message_queue, response_queue or request_queue: its count
    unread,          \* data_callback_mgr.unread_count
    guardTriggered,  \* ZenohPicoGuardConditionData.triggered
    attached,        \* the entities whose wait_set_data points to the wait set
    triggered,       \* ZenohPicoWaitSetData.triggered
    alive,           \* the wait set is allocated
    pc, target,      \* per thread: the next step, and the entity it is for
    wpc,             \* the next step of the executor thread; "idle" is outside rmw_wait
    mode,            \* wait_timeout: NULL, not zero, or zero
    todo,            \* entries the running loop of rmw_wait has not visited
    entries,         \* the entries of the caller's arrays that are not NULL
    backlog          \* history: entries that had a message when rmw_wait was called

threadVars == <<pc, target>>
waiterVars == <<wpc, mode, todo, entries, backlog>>
vars == <<queue, unread, guardTriggered, attached, triggered, alive,
          threadVars, waiterVars>>

Modes == {"forever", "timed", "poll"}
WaiterSteps == {"idle", "attach", "block", "asleep", "woken", "detach"}
ThreadSteps == {"idle", "callback", "trigger", "signal", "flag"}
HoldsCondMutex == {"signal", "flag"}

TypeOK ==
    /\ queue \in [Queued -> 0..QueueMax]
    /\ unread \in [Queued -> 0..(UnreadMod - 1)]
    /\ guardTriggered \in [Guards -> BOOLEAN]
    /\ attached \subseteq Entities
    /\ triggered \in BOOLEAN
    /\ alive \in BOOLEAN
    /\ pc \in [Threads -> ThreadSteps]
    /\ target \in [Threads -> Entities \cup {Nobody}]
    /\ wpc \in WaiterSteps
    /\ mode \in Modes
    /\ todo \subseteq Entities
    /\ entries \subseteq Entities
    /\ backlog \subseteq Queued

Init ==
    /\ queue = [e \in Queued |-> 0]
    /\ unread = [e \in Queued |-> 0]
    /\ guardTriggered = [g \in Guards |-> FALSE]
    /\ attached = {}
    /\ triggered = FALSE
    /\ alive = TRUE
    /\ pc = [t \in Threads |-> "idle"]
    /\ target = [t \in Threads |-> Nobody]
    /\ wpc = "idle"
    /\ mode = "forever"
    /\ todo = {} /\ entries = {} /\ backlog = {}

-----------------------------------------------------------------------------
(* Helpers.                                                                *)

\* What check_and_attach looks at: a message, or the guard condition's flag.
Ready(e) == IF e \in Guards THEN guardTriggered[e] ELSE queue[e] > 0

\* No thread holds the condition mutex of e between two of its steps.
CondFree(e) == \A t \in Threads : ~(pc[t] \in HoldsCondMutex /\ target[t] = e)

\* rmw_wait visits the kinds in this order, and each array from its start.
Rank(e) == CASE e \in Guards   -> 0
             [] e \in Subs     -> 1
             [] e \in Services -> 2
             [] OTHER          -> 3

Front(S) == {e \in S : \A f \in S : Rank(e) <= Rank(f)}

Goto(t, step) == pc' = [pc EXCEPT ![t] = step]
Finish(t) == Goto(t, "idle") /\ target' = [target EXCEPT ![t] = Nobody]

-----------------------------------------------------------------------------
(* Threads: the zenoh-pico callbacks.                                      *)

\* add_new_*_message: recv_msg_list_append, under the list's own mutex.
AppendMessage(t, e) ==
    /\ pc[t] = "idle"
    /\ queue[e] < QueueMax
    /\ queue' = [queue EXCEPT ![e] = @ + 1]
    /\ Goto(t, "callback")
    /\ target' = [target EXCEPT ![t] = e]
    /\ UNCHANGED <<unread, guardTriggered, attached, triggered, alive, waiterVars>>

\* add_new_request_message for a client, which has declared a queryable as a service does:
\* the message goes to request_queue, and the handler triggers the client all the same.
StrayRequest(t, c) ==
    /\ pc[t] = "idle"
    /\ c \in Clients
    /\ Goto(t, "callback")
    /\ target' = [target EXCEPT ![t] = c]
    /\ UNCHANGED <<queue, unread, guardTriggered, attached, triggered, alive, waiterVars>>

\* data_callback_trigger with no user callback set (DataEvent has the rest).
DataCallback(t) ==
    /\ pc[t] = "callback"
    /\ unread' = [unread EXCEPT ![target[t]] = (@ + 1) % UnreadMod]
    /\ Goto(t, "trigger")
    /\ UNCHANGED <<queue, guardTriggered, attached, triggered, alive, target, waiterVars>>

\* zenoh_pico_condition_trigger up to the wait set's mutex: done if nothing is attached.
ConditionTrigger(t) ==
    /\ pc[t] = "trigger"
    /\ CondFree(target[t])
    /\ IF target[t] \in attached
       THEN Goto(t, "signal") /\ UNCHANGED target
       ELSE Finish(t)
    /\ UNCHANGED <<queue, unread, guardTriggered, attached, triggered, alive, waiterVars>>

\* Under the wait set's mutex: triggered = true, then z_condvar_signal if `signals'; both
\* mutexes are released.  Only the executor thread ever waits on the condition variable.
SetTriggered(t, step, signals) ==
    /\ pc[t] = step
    /\ triggered' = TRUE
    /\ wpc' = IF signals /\ wpc = "asleep" THEN "woken" ELSE wpc
    /\ Finish(t)
    /\ UNCHANGED <<queue, unread, guardTriggered, attached, alive,
                   mode, todo, entries, backlog>>

\* Variants used by no specification: no signal; a signal by the first to set the flag.
ConditionFlagOnly(t) == SetTriggered(t, "signal", FALSE)
ConditionSignalFirst(t) == SetTriggered(t, "signal", ~triggered)

\* The rest of zenoh_pico_condition_trigger.
ConditionSignal(t) == SetTriggered(t, "signal", TRUE)

-----------------------------------------------------------------------------
(* Threads: rmw_trigger_guard_condition.                                   *)

GuardTrigger(t, g) ==
    /\ pc[t] = "idle"
    /\ CondFree(g)
    /\ guardTriggered' = [guardTriggered EXCEPT ![g] = TRUE]
    /\ IF g \in attached
       THEN Goto(t, "flag") /\ target' = [target EXCEPT ![t] = g]
       ELSE UNCHANGED threadVars
    /\ UNCHANGED <<queue, unread, attached, triggered, alive, waiterVars>>

\* The rest of guard_condition_trigger: it sets the flag and signals nobody.
GuardFlag(t) == SetTriggered(t, "flag", FALSE)

\* rmw_destroy_guard_condition and rmw_create_guard_condition in its place, while nobody
\* triggers it: nothing else ever resets the flag.
ReplaceGuard(g) ==
    /\ wpc = "idle"
    /\ guardTriggered' = [guardTriggered EXCEPT ![g] = FALSE]
    /\ UNCHANGED <<queue, unread, attached, triggered, alive, threadVars, waiterVars>>

-----------------------------------------------------------------------------
(* The executor thread: rmw_wait.                                          *)

\* rcl does not call rmw_wait with no entity at all.
WaitCall(S, m) ==
    /\ wpc = "idle" /\ alive
    /\ S # {}
    /\ wpc' = "attach"
    /\ mode' = m
    /\ todo' = S /\ entries' = S
    /\ backlog' = {e \in S \cap Queued : queue[e] > 0}
    /\ UNCHANGED <<queue, unread, guardTriggered, attached, triggered, alive, threadVars>>

\* Variant used by no specification: attaches without looking at the queue.
AttachUnchecked(e) ==
    /\ wpc = "attach"
    /\ e \in Front(todo)
    /\ CondFree(e)
    /\ attached' = attached \cup {e}
    /\ todo' = todo \ {e}
    /\ wpc' = IF todo' = {} THEN "block" ELSE "attach"
    /\ UNCHANGED <<queue, unread, guardTriggered, triggered, alive,
                   threadVars, mode, entries, backlog>>

\* One round of _check_and_attach_condition: a ready entity ends the loop, the wait
\* is skipped and the flag stays as it is; the entities before it stay attached.
CheckAndAttach(e) ==
    /\ wpc = "attach"
    /\ e \in Front(todo)
    /\ CondFree(e)
    /\ IF Ready(e)
       THEN wpc' = "detach" /\ todo' = entries /\ UNCHANGED attached
       ELSE /\ attached' = attached \cup {e}
            /\ todo' = todo \ {e}
            /\ wpc' = IF todo' = {} THEN "block" ELSE "attach"
    /\ UNCHANGED <<queue, unread, guardTriggered, triggered, alive,
                   threadVars, mode, entries, backlog>>

\* Under the wait set's mutex: wait on the condition variable.
Sleep == wpc' = "asleep" /\ UNCHANGED <<triggered, todo>>

\* Leaving the wait under the wait set's mutex: triggered = false, unlock.
Resume == wpc' = "detach" /\ triggered' = FALSE /\ todo' = entries

WaitFrame == UNCHANGED <<queue, unread, guardTriggered, attached, alive,
                         threadVars, mode, entries, backlog>>

\* Variant used by no specification: z_condvar_wait without the loop around it.
WaitOnce ==
    /\ mode = "forever"
    /\ (wpc = "block" /\ Sleep) \/ (wpc = "woken" /\ Resume)
    /\ WaitFrame

\* wait_timeout == NULL: while(!triggered) z_condvar_wait.
WaitForever ==
    /\ mode = "forever"
    /\ wpc \in {"block", "woken"}
    /\ (~triggered /\ Sleep) \/ (triggered /\ Resume)
    /\ WaitFrame

\* A timeout that is not zero: one z_condvar_timewait, whatever triggered says.
WaitTimed ==
    /\ mode = "timed"
    /\ (wpc = "block" /\ Sleep) \/ (wpc = "woken" /\ Resume)
    /\ WaitFrame

\* A timeout of zero: no wait.
Poll ==
    /\ mode = "poll"
    /\ wpc = "block" /\ Resume
    /\ WaitFrame

WakeUp ==
    /\ wpc = "asleep"
    /\ wpc' = "woken"
    /\ UNCHANGED <<queue, unread, guardTriggered, attached, triggered, alive,
                   threadVars, mode, todo, entries, backlog>>

\* pthread_cond_timedwait reaches the absolute time; either wait may wake spuriously.
Timeout == mode = "timed" /\ WakeUp
SpuriousWakeUp == WakeUp

\* One round of the loops after the wait, with `rest' left to visit; rmw_wait returns
\* after the last one.
DetachOne(e, rest) ==
    /\ wpc = "detach"
    /\ e \in Front(todo)
    /\ attached' = attached \ {e}
    /\ entries' = IF Ready(e) THEN entries ELSE entries \ {e}
    /\ todo' = rest
    /\ IF rest = {} THEN wpc' = "idle" /\ backlog' = {} ELSE UNCHANGED <<wpc, backlog>>
    /\ UNCHANGED <<queue, unread, guardTriggered, triggered, alive, threadVars, mode>>

\* Variants used by no specification: without the condition mutex; returning at the
\* first entity that is not ready, as the loop over the events does.
DetachUnlocked(e) == DetachOne(e, todo \ {e})
DetachReturnsEarly(e) == CondFree(e) /\ DetachOne(e, IF Ready(e) THEN todo \ {e} ELSE {})

\* *_condition_detach_and_queue_is_empty and guard_condition_detach_and_is_trigger_set.
Detach(e) == CondFree(e) /\ DetachOne(e, todo \ {e})

-----------------------------------------------------------------------------
(* The executor thread: between two calls of rmw_wait.                     *)

\* recv_msg_list_pop; a list whose top is NULL gives no message.
TakeUnchecked(e) ==
    /\ wpc = "idle"
    /\ queue' = [queue EXCEPT ![e] = @ - 1]
    /\ UNCHANGED <<unread, guardTriggered, attached, triggered, alive,
                   threadVars, waiterVars>>

\* rmw_take, rmw_take_request and rmw_take_response.
Take(e) == queue[e] > 0 /\ TakeUnchecked(e)

DestroyWaitSet ==
    /\ wpc = "idle" /\ alive
    /\ alive' = FALSE
    /\ UNCHANGED <<queue, unread, guardTriggered, attached, triggered,
                   threadVars, waiterVars>>

CreateWaitSet ==
    /\ ~alive
    /\ alive' = TRUE
    /\ triggered' = FALSE
    /\ UNCHANGED <<queue, unread, guardTriggered, attached, threadVars, waiterVars>>

-----------------------------------------------------------------------------
Handler(t) == DataCallback(t) \/ ConditionTrigger(t) \/ ConditionSignal(t) \/ GuardFlag(t)

Waiting ==
    \/ \E e \in Entities : CheckAndAttach(e) \/ Detach(e)
    \/ WaitForever \/ WaitTimed \/ Poll \/ Timeout

Next ==
    \/ \E t \in Threads : \/ \E e \in Queued : AppendMessage(t, e) \/ StrayRequest(t, e)
                          \/ \E g \in Guards : GuardTrigger(t, g)
                          \/ Handler(t)
    \/ \E S \in SUBSET Entities, m \in Modes : WaitCall(S, m)
    \/ Waiting
    \/ SpuriousWakeUp
    \/ \E e \in Queued : Take(e)
    \/ \E g \in Guards : ReplaceGuard(g)
    \/ DestroyWaitSet
    \/ CreateWaitSet

Spec == Init /\ [][Next]_vars

\* Threads are scheduled and the clock advances: a handler that has begun finishes and
\* rmw_wait goes on.  It is strong for the executor thread, which gets a condition mutex
\* in the end although rmw_trigger_guard_condition may take it again and again.  Nothing
\* makes a message arrive, a guard condition trigger or a wait begin.
FairSpec == Spec /\ SF_vars(Waiting) /\ \A t \in Threads : WF_vars(Handler(t))

-----------------------------------------------------------------------------
(* Properties.                                                             *)

\* A handler for e has queued its message and has not yet passed its trigger.
Pending(e) == \E t \in Threads : target[t] = e /\ pc[t] \in {"callback", "trigger", "signal"}

\* No lost wakeup: an rmw_wait without timeout that sleeps while one of its entities has
\* a message is about to be woken by the handler of that entity.
NoLostWakeup ==
    wpc = "asleep" /\ mode = "forever" =>
        \A e \in entries \cap Queued : queue[e] > 0 => Pending(e)

\* The only sleepers whose wait set is already flagged are those a guard condition
\* flagged: guard_condition_trigger does not signal the condition variable.
OnlyGuardsLeaveSleepers ==
    wpc = "asleep" /\ mode = "forever" /\ triggered =>
        \E g \in entries \cap Guards : guardTriggered[g]

\* rmw_wait never blocks, with or without a timeout, on a message that was in a queue of
\* its entities when it was called.
NeverBlocksOnBacklog == wpc \in {"block", "asleep", "woken"} => backlog = {}

\* Whoever is about to lock a wait set's mutex finds the wait set allocated, although
\* rmw_destroy_wait_set does not wait for handlers.
NoUseAfterDestroy == \A t \in Threads : pc[t] \in HoldsCondMutex => alive

\* What rmw_wait returns: every entry it left is ready, and every entity that had a
\* message when it was called is still there, also on the path that skips the wait.
ReturnsWhatIsReady ==
    [][wpc # "idle" /\ wpc' = "idle" =>
         /\ \A e \in entries' : Ready(e)'
         /\ backlog \subseteq entries'
         /\ attached' = {}]_vars

\* A message for an entity of a running rmw_wait makes that call return.
MessageEndsWait ==
    (wpc # "idle" /\ \E e \in entries \cap Queued : queue[e] > 0) ~> wpc = "idle"
=============================================================================
