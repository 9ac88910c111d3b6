--------------------------- MODULE DataEventProofs ---------------------------
(***************************************************************************)
(* Proofs about DataEvent, for any threads, any callbacks and any width of *)
(* unread_count.                                                           *)
(***************************************************************************)
EXTENDS DataEvent, FiniteSetTheorems, TLAPS

Callers == {t \in Threads : calling[t] # None}

\* Whoever is in a callback holds the manager's mutex.
OneCaller == \A t, u \in Callers : t = u

\* What is not accounted for was lost when unread_count wrapped, CountMod triggers at a time.
LostByWrapping == \E wraps \in Nat : triggers = Accounted + wraps * CountMod

IInv == /\ TypeOK
        /\ OneCaller
        /\ OnlyTheSetCallbackRuns
        /\ NothingUnreadWithCallback
        /\ LostByWrapping

-----------------------------------------------------------------------------
(* Counting.                                                               *)

\* What unread_count becomes when it is incremented.
LEMMA Increment ==
    ASSUME NEW n \in 0..(CountMod - 1)
    PROVE  /\ (n + 1) % CountMod \in 0..(CountMod - 1)
           /\ ((n + 1) % CountMod = n + 1 \/ ((n + 1) % CountMod = 0 /\ n + 1 = CountMod))
<1> DEFINE r == (n + 1) % CountMod
<1>1. n \in Nat /\ n + 1 \in Nat /\ CountMod \in Nat \ {0}
      /\ (n + 1 < CountMod \/ n + 1 = CountMod)
  BY CountAssumption
<1>2. n + 1 < CountMod => r = n + 1
  BY <1>1
<1>3. n + 1 = CountMod => r = 0
  <2>1. CountMod % CountMod = 0
    BY <1>1
  <2> QED
    BY <2>1
<1> HIDE DEF r
<1>4. r \in 0..(CountMod - 1) /\ (r = n + 1 \/ (r = 0 /\ n + 1 = CountMod))
  BY <1>1, <1>2, <1>3
<1> QED
  BY <1>4 DEF r

\* A remainder is what is less than the divisor.
LEMMA RemainderIsUnique ==
    ASSUME NEW n \in Nat, NEW d \in Nat \ {0}, NEW q \in Nat, NEW r \in Nat,
           r < d, n = q * d + r
    PROVE  n % d = r
BY SMTT(20)

\* Whole turns of the count leave the remainder as it is.
LEMMA TurnsDoNotCount ==
    ASSUME NEW n \in Nat, NEW k \in Nat
    PROVE  (n + k * CountMod) % CountMod = n % CountMod
<1> DEFINE q == n \div CountMod
           r == n % CountMod
<1>1. q \in Nat /\ r \in Nat /\ r < CountMod /\ CountMod \in Nat \ {0}
  BY CountAssumption
<1>2. r = n - CountMod * q
  BY CountAssumption, Z3
<1> HIDE DEF q, r
<1>3. q + k \in Nat /\ n + k * CountMod \in Nat
  BY <1>1
<1>4. n + k * CountMod = (q + k) * CountMod + r
  BY <1>1, <1>2
<1> QED
  BY <1>1, <1>3, <1>4, RemainderIsUnique DEF r

\* Nobody, or one thread, is in a callback, before and after a step.
LEMMA CallersAreCounted ==
    /\ Callers = {} => Accounted = handed + unread + 0
    /\ Callers' = {} => Accounted' = handed' + unread' + 0
    /\ \A t : Callers = {t} => Accounted = handed + unread + 1
    /\ \A t : Callers' = {t} => Accounted' = handed' + unread' + 1
<1>1. /\ Accounted = handed + unread + Cardinality(Callers)
      /\ Accounted' = handed' + unread' + Cardinality(Callers')
  BY DEF Accounted, Callers
<1>2. Cardinality({}) = 0 /\ \A t : Cardinality({t}) = 1
  BY FS_EmptySet, FS_Singleton
<1> QED
  BY <1>1, <1>2

-----------------------------------------------------------------------------
(* Steps.                                                                  *)

\* data_callback_init: no callback, nothing unread, nobody in a callback.
LEMMA InitInv == Init => IInv
<1> SUFFICES ASSUME Init PROVE IInv
  OBVIOUS
<1> USE DEF Init
<1>1. Callers = {}
  BY DEF Callers
<1>2. triggers = Accounted + 0 * CountMod
  BY <1>1, CallersAreCounted, CountAssumption
<1>3. TypeOK
  <2>1. unread \in 0..(CountMod - 1) /\ triggers \in 0..TriggerMax /\ handed \in 0..TriggerMax
    BY CountAssumption
  <2> QED
    BY <2>1 DEF TypeOK
<1> QED
  BY <1>1, <1>2, <1>3 DEF IInv, OneCaller, OnlyTheSetCallbackRuns, NothingUnreadWithCallback,
                          LostByWrapping

\* Without a callback the trigger is counted as unread; when the count wraps, it and the
\* triggers counted before are lost.
LEMMA TriggerUnreadInv ==
    ASSUME IInv, NEW t \in Threads, Trigger(t), callback = None
    PROVE  IInv'
<1>1. /\ unread' = (unread + 1) % CountMod /\ triggers' = triggers + 1 /\ triggers < TriggerMax
      /\ UNCHANGED <<callback, calling, handed, faulted>> /\ Callers = {}
  BY DEF Trigger, MutexFree, Callers
<1>2. /\ unread \in 0..(CountMod - 1) /\ handed \in Nat /\ triggers \in Nat /\ CountMod \in Nat
  BY CountAssumption DEF IInv, TypeOK
<1>3. unread' \in 0..(CountMod - 1) /\ (unread' = unread + 1 \/ (unread' = 0 /\ unread + 1 = CountMod))
  BY <1>1, <1>2, Increment
<1>4. Callers' = {} /\ OneCaller'
  BY <1>1 DEF Callers, OneCaller
<1>5. PICK k \in Nat : triggers = Accounted + k * CountMod
  BY DEF IInv, LostByWrapping
<1>6. Accounted = handed + unread /\ Accounted' = handed + unread'
  <2>1. Accounted = handed + unread
    BY <1>1, <1>2, CallersAreCounted
  <2>2. Accounted' = handed' + unread' + 0
    BY <1>4, CallersAreCounted
  <2> QED
    BY <1>1, <1>2, <1>3, <2>1, <2>2
<1>7. \E j \in Nat : triggers' = Accounted' + j * CountMod
  <2>1. CASE unread' = unread + 1
    BY <1>1, <1>2, <1>5, <1>6, <2>1
  <2>2. CASE unread' = 0 /\ unread + 1 = CountMod
    <3>1. (k + 1) * CountMod = k * CountMod + CountMod /\ k * CountMod \in Nat
      BY <1>2
    <3>2. triggers' = Accounted' + (k + 1) * CountMod
      BY <1>1, <1>2, <1>5, <1>6, <2>2, <3>1
    <3> QED
      BY <3>2
  <2> QED
    BY <1>3, <2>1, <2>2
<1>8. TypeOK'
  BY <1>1, <1>2, <1>3, CountAssumption DEF IInv, TypeOK
<1>9. OnlyTheSetCallbackRuns' /\ NothingUnreadWithCallback'
  BY <1>1 DEF IInv, OnlyTheSetCallbackRuns, NothingUnreadWithCallback
<1> QED
  BY <1>4, <1>7, <1>8, <1>9 DEF IInv, LostByWrapping

\* With a callback the trigger's thread calls it and keeps the mutex.
LEMMA TriggerCallInv ==
    ASSUME IInv, NEW t \in Threads, Trigger(t), callback # None
    PROVE  IInv'
<1>1. /\ calling' = [calling EXCEPT ![t] = callback]
      /\ triggers' = triggers + 1 /\ triggers < TriggerMax
      /\ UNCHANGED <<callback, unread, handed, faulted>> /\ Callers = {}
  BY DEF Trigger, MutexFree, Callers
<1>2. /\ callback \in Registrations /\ calling \in [Threads -> Registrations \cup {None}]
      /\ unread \in Nat /\ handed \in Nat /\ triggers \in Nat /\ CountMod \in Nat
  BY CountAssumption DEF IInv, TypeOK
<1>3. Callers' = {t}
  BY <1>1, <1>2 DEF Callers
<1>4. PICK k \in Nat : triggers = Accounted + k * CountMod
  BY DEF IInv, LostByWrapping
<1>5. Accounted = handed + unread + 0 /\ Accounted' = handed' + unread' + 1
  BY <1>1, <1>3, CallersAreCounted
<1>6. k * CountMod \in Nat
  BY <1>2
<1>7. triggers' = Accounted' + k * CountMod
  BY <1>1, <1>2, <1>4, <1>5, <1>6
<1>8. TypeOK'
  BY <1>1, <1>2, CountAssumption DEF IInv, TypeOK
<1>9. OneCaller' /\ OnlyTheSetCallbackRuns' /\ NothingUnreadWithCallback'
  BY <1>1, <1>2, <1>3
  DEF IInv, OneCaller, OnlyTheSetCallbackRuns, NothingUnreadWithCallback, Callers
<1> QED
  BY <1>7, <1>8, <1>9 DEF IInv, LostByWrapping

\* The callback returns: what was being handed over is.
LEMMA CalledInv ==
    ASSUME IInv, NEW t \in Threads, Called(t)
    PROVE  IInv'
<1>1. /\ calling' = [calling EXCEPT ![t] = None] /\ handed' = handed + 1 /\ t \in Callers
      /\ UNCHANGED <<callback, unread, triggers, faulted>>
  BY DEF Called, Callers
<1>2. /\ calling \in [Threads -> Registrations \cup {None}] /\ Callers = {t}
  BY <1>1 DEF IInv, TypeOK, OneCaller
<1>3. Callers' = {}
  BY <1>1, <1>2 DEF Callers
<1>4. unread \in Nat /\ handed \in Nat /\ triggers \in 0..TriggerMax /\ CountMod \in Nat
  BY CountAssumption DEF IInv, TypeOK
<1>5. PICK k \in Nat : triggers = Accounted + k * CountMod
  BY DEF IInv, LostByWrapping
<1>6. k * CountMod \in Nat
  BY <1>4
<1>7. Accounted = handed + unread + 1 /\ Accounted' = handed' + unread' + 0
  BY <1>2, <1>3, CallersAreCounted
<1>8. Accounted' = Accounted
  BY <1>1, <1>4, <1>7
<1>9. handed' \in 0..TriggerMax
  BY <1>1, <1>4, <1>5, <1>6, <1>7, CountAssumption
<1>10. TypeOK'
  BY <1>1, <1>2, <1>9 DEF IInv, TypeOK
<1>11. OneCaller' /\ OnlyTheSetCallbackRuns' /\ NothingUnreadWithCallback'
  BY <1>1, <1>2, <1>3
  DEF IInv, OneCaller, OnlyTheSetCallbackRuns, NothingUnreadWithCallback, Callers
<1> QED
  BY <1>1, <1>5, <1>8, <1>10, <1>11 DEF IInv, LostByWrapping

\* data_callback_set never finds both a callback and unread triggers, so that it hands
\* nothing over.
LEMMA SetInv ==
    ASSUME IInv, NEW c \in Registrations \cup {None}, Set(c)
    PROVE  IInv'
<1>1. /\ UNCHANGED <<unread, handed, calling, triggers>> /\ Callers = {}
      /\ (callback' = c /\ (c # None => unread = 0)) \/ callback' = callback
      /\ faulted' \in BOOLEAN
  <2>1. unread \in Nat
    BY CountAssumption DEF IInv, TypeOK
  <2>2. CASE c # None /\ unread > 0
    <3>1. callback = None
      BY <2>1, <2>2 DEF IInv, NothingUnreadWithCallback
    <3> QED
      BY <2>2, <3>1 DEF Set, MutexFree, Callers
  <2>3. CASE ~(c # None /\ unread > 0)
    <3>1. c # None => unread = 0
      BY <2>1, <2>3
    <3>2. faulted \in BOOLEAN
      BY DEF IInv, TypeOK
    <3> QED
      BY <2>3, <3>1, <3>2 DEF Set, MutexFree, Callers
  <2> QED
    BY <2>2, <2>3
<1>2. Callers' = {} /\ Accounted' = Accounted
  BY <1>1 DEF Callers, Accounted
<1>3. TypeOK'
  BY <1>1 DEF IInv, TypeOK
<1>4. OneCaller' /\ OnlyTheSetCallbackRuns' /\ NothingUnreadWithCallback'
  BY <1>1, <1>2
  DEF IInv, OneCaller, OnlyTheSetCallbackRuns, NothingUnreadWithCallback, Callers
<1> QED
  BY <1>1, <1>2, <1>3, <1>4 DEF IInv, LostByWrapping

\* Triggers, returns from a callback and data_callback_set keep IInv.
LEMMA StepInv == IInv /\ [Next]_vars => IInv'
<1> SUFFICES ASSUME IInv, [Next]_vars PROVE IInv'
  OBVIOUS
<1>1. ASSUME NEW t \in Threads, Trigger(t) PROVE IInv'
  BY <1>1, TriggerUnreadInv, TriggerCallInv
<1>2. ASSUME NEW t \in Threads, Called(t) PROVE IInv'
  BY <1>2, CalledInv
<1>3. ASSUME NEW c \in Registrations \cup {None}, Set(c) PROVE IInv'
  BY <1>3, SetInv
<1>4. CASE UNCHANGED vars
  <2>1. Callers' = Callers /\ Accounted' = Accounted
    BY <1>4 DEF vars, Callers, Accounted
  <2> QED
    BY <1>4, <2>1
    DEF vars, IInv, TypeOK, OneCaller, OnlyTheSetCallbackRuns, NothingUnreadWithCallback,
        LostByWrapping
<1> QED
  BY <1>1, <1>2, <1>3, <1>4 DEF Next

\* So it holds in every reachable state.
LEMMA Invariance == Spec => []IInv
BY InitInv, StepInv, PTL DEF Spec

-----------------------------------------------------------------------------
(* The theorems.                                                           *)

\* The count of unread triggers stays within its width, and no more events are handed to
\* callbacks than there were triggers.
THEOREM TypeCorrect == Spec => []TypeOK
<1>1. IInv => TypeOK
  BY DEF IInv
<1> QED
  BY <1>1, Invariance, PTL

\* When data_callback_set has returned, the callback it replaced is not running in any
\* handler's thread: data_callback_trigger calls it under the mutex.
THEOREM ReplacedCallbacksAreQuiet == Spec => []OnlyTheSetCallbackRuns
<1>1. IInv => OnlyTheSetCallbackRuns
  BY DEF IInv
<1> QED
  BY <1>1, Invariance, PTL

\* Triggers are counted as unread only while no callback is set, so that the callback
\* which data_callback_set calls for them is always NULL.
THEOREM UnreadOnlyWithoutCallback == Spec => []NothingUnreadWithCallback
<1>1. IInv => NothingUnreadWithCallback
  BY DEF IInv
<1> QED
  BY <1>1, Invariance, PTL

\* Each trigger is handed over, being handed over or counted as unread, up to whole turns
\* of unread_count, whatever its width: none is lost to a change of the callback and none
\* is counted twice.
THEOREM NoTriggerIsLost == Spec => []TriggersAreAccounted
<1>1. IInv => TriggersAreAccounted
  <2> SUFFICES ASSUME IInv PROVE TriggersAreAccounted
    OBVIOUS
  <2>1. Accounted \in Nat
    <3>1. Callers = {} \/ \E t : Callers = {t}
      BY DEF IInv, OneCaller
    <3>2. handed \in Nat /\ unread \in Nat
      BY CountAssumption DEF IInv, TypeOK
    <3> QED
      BY <3>1, <3>2, CallersAreCounted
  <2>2. PICK k \in Nat : triggers = Accounted + k * CountMod
    BY DEF IInv, LostByWrapping
  <2> QED
    BY <2>1, <2>2, TurnsDoNotCount DEF TriggersAreAccounted
<1> QED
  BY <1>1, Invariance, PTL
=============================================================================
