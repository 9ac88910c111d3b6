------------------------------ MODULE DataEvent ------------------------------
(***************************************************************************)
(* DataEventManager (rmw_event.c): the callback that a program may set for *)
(* the messages of a subscription, a service or a client.  A handler       *)
(* triggers it for every message; while none is set the triggers are       *)
(* counted.  The callback runs under the manager's mutex.                  *)
(*                                                                         *)
(* One manager, several threads that run handlers, one that sets the       *)
(* callback.  The event statuses are left out: nothing changes them.       *)
(***************************************************************************)
EXTENDS Naturals, FiniteSets

CONSTANTS Threads,
          Registrations,  \* a callback with its user_data
          None,           \* no callback: NULL
          CountMod,       \* unread_count wraps modulo this (2^w of size_t)
          TriggerMax      \* bound of the model: triggers looked at

ASSUME NoneAssumption == None \notin Registrations
ASSUME CountAssumption == CountMod \in Nat \ {0} /\ TriggerMax \in Nat

VARIABLES
    callback,    \* callback and user_data
    unread,      \* unread_count
    calling,     \* per thread: what it is calling under the mutex, or None
    triggers,    \* history: calls of data_callback_trigger that have locked the mutex
    handed,      \* history: events handed to callbacks
    faulted      \* a NULL callback was called

vars == <<callback, unread, calling, triggers, handed, faulted>>

TypeOK ==
    /\ callback \in Registrations \cup {None}
    /\ unread \in 0..(CountMod - 1)
    /\ calling \in [Threads -> Registrations \cup {None}]
    /\ triggers \in 0..TriggerMax
    /\ handed \in 0..TriggerMax
    /\ faulted \in BOOLEAN

\* data_callback_init.
Init ==
    /\ callback = None
    /\ unread = 0
    /\ calling = [t \in Threads |-> None]
    /\ triggers = 0 /\ handed = 0
    /\ faulted = FALSE

\* Nobody is in a callback, so nobody holds the mutex between two steps.
MutexFree == \A t \in Threads : calling[t] = None

\* Variant used by no specification: a trigger that calls the callback is counted as well.
TriggerCounted(t) ==
    /\ MutexFree /\ ~faulted /\ triggers < TriggerMax
    /\ triggers' = triggers + 1
    /\ unread' = (unread + 1) % CountMod
    /\ calling' = [calling EXCEPT ![t] = callback]
    /\ UNCHANGED <<callback, handed, faulted>>

\* data_callback_trigger up to the call of the callback.
Trigger(t) ==
    /\ MutexFree /\ ~faulted /\ triggers < TriggerMax
    /\ triggers' = triggers + 1
    /\ IF callback # None
       THEN calling' = [calling EXCEPT ![t] = callback] /\ UNCHANGED unread
       ELSE unread' = (unread + 1) % CountMod /\ UNCHANGED calling
    /\ UNCHANGED <<callback, handed, faulted>>

\* Variant used by no specification: the callback is called again and again.
CalledAgain(t) ==
    /\ calling[t] # None
    /\ handed' = handed + 1
    /\ UNCHANGED <<callback, unread, calling, triggers, faulted>>

\* The rest of data_callback_trigger: the callback returns, the mutex is released.
Called(t) ==
    /\ calling[t] # None
    /\ calling' = [calling EXCEPT ![t] = None]
    /\ handed' = handed + 1
    /\ UNCHANGED <<callback, unread, triggers, faulted>>

\* Variants used by no specification: no mutex; unread triggers are not looked at.
SetUnlocked(c) ==
    /\ ~faulted
    /\ unread = 0 \/ c = None
    /\ callback' = c
    /\ UNCHANGED <<unread, calling, triggers, handed, faulted>>

SetOnly(c) ==
    /\ MutexFree /\ ~faulted
    /\ callback' = c
    /\ UNCHANGED <<unread, calling, triggers, handed, faulted>>

\* data_callback_set.  If triggers are unread and the new callback is not NULL, the old
\* callback, which the manager still has, is called with their number.
Set(c) ==
    /\ MutexFree /\ ~faulted
    /\ IF c # None /\ unread > 0
       THEN IF callback = None
            THEN faulted' = TRUE /\ UNCHANGED <<callback, unread, handed>>
            ELSE /\ handed' = handed + unread /\ unread' = 0
                 /\ callback' = c /\ UNCHANGED faulted
       ELSE callback' = c /\ UNCHANGED <<unread, handed, faulted>>
    /\ UNCHANGED <<calling, triggers>>

Next == \/ \E t \in Threads : Trigger(t) \/ Called(t)
        \/ \E c \in Registrations \cup {None} : Set(c)

Spec == Init /\ [][Next]_vars

-----------------------------------------------------------------------------
(* Properties.                                                             *)

\* Once rmw_*_set_on_new_*_callback has returned, the callback it replaced is not running
\* and will not: its user_data may be freed.
OnlyTheSetCallbackRuns == \A t \in Threads : calling[t] # None => calling[t] = callback

\* Every trigger was handed to a callback, is being handed to one or is unread (up to the
\* width of the count): none is lost to a change of the callback, none is counted twice.
Accounted == handed + unread + Cardinality({t \in Threads : calling[t] # None})

TriggersAreAccounted == Accounted % CountMod = triggers % CountMod

\* While a callback is set nothing is unread, so that the callback data_callback_set calls
\* for unread triggers is NULL whenever it calls one.
NothingUnreadWithCallback == callback # None => unread = 0

\* The triggers made before a callback is set are handed over when it is set.
UnreadIsHandedOver ==
    [][\A c \in Registrations : Set(c) => handed' = handed + unread]_vars
=============================================================================
