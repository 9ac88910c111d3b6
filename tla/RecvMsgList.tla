----------------------------- MODULE RecvMsgList -----------------------------
(***************************************************************************)
(* ReceiveMessageDataList (zenoh_pico_rosMessage.c): a singly linked list  *)
(* with a pointer to its first and its last message, and a count.          *)
(* Handlers append, the executor pops, and rmw_send_response picks up the  *)
(* first message that matches a request id.  Each list has a mutex.  The   *)
(* operations that do not loop are one step; recv_msg_list_pickup walks    *)
(* the list one message a step and keeps the mutex meanwhile.              *)
(*                                                                         *)
(* order is a history variable: the messages of a list, oldest first, as   *)
(* the operations that took effect so far left it.  No guard of the code   *)
(* reads it; that the pointers agree with it is what has to be shown.      *)
(* recv_msg_list_destroy is left out: nothing calls it.                    *)
(***************************************************************************)
EXTENDS Integers, Sequences, SequencesExt

CONSTANTS Lists, Msgs, Keys, Null

ASSUME NullAssumption == Null \notin Msgs \cup Keys

VARIABLES top, bottom, count,  \* per list: que_top, que_bottom, count
          next,                \* per message: ReceiveMessageData.next
          key,                 \* per message: its attachment, as func compares it
          before,              \* per list: before_msg of a running pickup, or Null
          wanted,              \* per list: what that pickup looks for
          returned,            \* per list: the result of the last pop or pickup
          order                \* history: per list, its messages, oldest first

vars == <<top, bottom, count, next, key, before, wanted, returned, order>>

MsgOrNull == Msgs \cup {Null}

TypeOK ==
    /\ top \in [Lists -> MsgOrNull]
    /\ bottom \in [Lists -> MsgOrNull]
    /\ count \in [Lists -> Nat]
    /\ next \in [Msgs -> MsgOrNull]
    /\ key \in [Msgs -> Keys \cup {Null}]
    /\ before \in [Lists -> MsgOrNull]
    /\ wanted \in [Lists -> Keys \cup {Null}]
    /\ returned \in [Lists -> MsgOrNull]
    /\ order \in [Lists -> Seq(Msgs)]

\* recv_msg_list_init.
Init ==
    /\ top = [l \in Lists |-> Null]
    /\ bottom = [l \in Lists |-> Null]
    /\ count = [l \in Lists |-> 0]
    /\ next = [m \in Msgs |-> Null]
    /\ key = [m \in Msgs |-> Null]
    /\ before = [l \in Lists |-> Null]
    /\ wanted = [l \in Lists |-> Null]
    /\ returned = [l \in Lists |-> Null]
    /\ order = [l \in Lists |-> <<>>]

-----------------------------------------------------------------------------
\* A sequence of different messages without one of them.
Positions(s, m) == {i \in DOMAIN s : s[i] = m}
Without(s, m) == IF Positions(s, m) = {} THEN s
                 ELSE RemoveAt(s, CHOOSE i \in Positions(s, m) : TRUE)

Unlocked(l) == before[l] = Null

\* A message just generated, or popped from another list.
Unlinked(m) == \A l \in Lists : \A i \in DOMAIN order[l] : order[l][i] # m

AppendMsg(l, m, k) ==
    /\ Unlocked(l)
    /\ Unlinked(m)
    /\ key' = [key EXCEPT ![m] = k]
    /\ next' = [n \in Msgs |-> IF n = bottom[l] THEN m
                               ELSE IF n = m THEN Null ELSE next[n]]
    /\ bottom' = [bottom EXCEPT ![l] = m]
    /\ count' = [count EXCEPT ![l] = @ + 1]
    /\ top' = [top EXCEPT ![l] = IF @ = Null THEN m ELSE @]
    /\ order' = [order EXCEPT ![l] = Append(@, m)]
    /\ UNCHANGED <<before, wanted, returned>>

\* Variant used by no specification: que_bottom keeps pointing to a popped message.
UnlinkTopOnly(l) ==
    /\ top' = [top EXCEPT ![l] = next[top[l]]]
    /\ count' = [count EXCEPT ![l] = @ - 1]
    /\ next' = [next EXCEPT ![top[l]] = Null]
    /\ returned' = [returned EXCEPT ![l] = top[l]]
    /\ order' = [order EXCEPT ![l] = RemoveAt(@, 1)]
    /\ UNCHANGED <<bottom, key, before, wanted>>

\* The first message leaves the list; pop and the first round of pickup do the same.
UnlinkTop(l) ==
    /\ top' = [top EXCEPT ![l] = next[top[l]]]
    /\ count' = [count EXCEPT ![l] = @ - 1]
    /\ bottom' = [bottom EXCEPT ![l] = IF @ = top[l] THEN Null ELSE @]
    /\ next' = [next EXCEPT ![top[l]] = Null]
    /\ returned' = [returned EXCEPT ![l] = top[l]]
    /\ order' = [order EXCEPT ![l] = RemoveAt(@, 1)]
    /\ UNCHANGED <<key, before, wanted>>

\* Variant used by no specification: counts a message that was not there.
ReturnNullCounted(l) ==
    /\ returned' = [returned EXCEPT ![l] = Null]
    /\ before' = [before EXCEPT ![l] = Null]
    /\ wanted' = [wanted EXCEPT ![l] = Null]
    /\ count' = [count EXCEPT ![l] = @ - 1]
    /\ UNCHANGED <<top, bottom, next, key, order>>

ReturnNull(l) ==
    /\ returned' = [returned EXCEPT ![l] = Null]
    /\ before' = [before EXCEPT ![l] = Null]
    /\ wanted' = [wanted EXCEPT ![l] = Null]
    /\ UNCHANGED <<top, bottom, count, next, key, order>>

\* Variant used by no specification: recv_msg_list_pop without the list's mutex.
PopUnlocked(l) == top[l] # Null /\ UnlinkTop(l)

Pop(l) ==
    /\ Unlocked(l)
    /\ IF top[l] = Null THEN ReturnNull(l) ELSE UnlinkTop(l)

-----------------------------------------------------------------------------
(* recv_msg_list_pickup: the first message, then one more each step.       *)

PickupFirst(l, k) ==
    /\ Unlocked(l)
    /\ CASE top[l] = Null   -> ReturnNull(l)
         [] top[l] # Null /\ key[top[l]] = k -> UnlinkTop(l)
         [] OTHER ->
              /\ before' = [before EXCEPT ![l] = top[l]]
              /\ wanted' = [wanted EXCEPT ![l] = k]
              /\ UNCHANGED <<top, bottom, count, next, key, returned, order>>

\* Variant used by no specification: que_bottom keeps pointing to a picked up message.
UnlinkNextOnly(l, m) ==
    /\ next' = [next EXCEPT ![before[l]] = next[m], ![m] = Null]
    /\ count' = [count EXCEPT ![l] = @ - 1]
    /\ returned' = [returned EXCEPT ![l] = m]
    /\ order' = [order EXCEPT ![l] = Without(@, m)]
    /\ before' = [before EXCEPT ![l] = Null]
    /\ wanted' = [wanted EXCEPT ![l] = Null]
    /\ UNCHANGED <<top, bottom, key>>

\* The message after before_msg leaves the list.
UnlinkNext(l, m) ==
    /\ next' = [next EXCEPT ![before[l]] = next[m], ![m] = Null]
    /\ count' = [count EXCEPT ![l] = @ - 1]
    /\ bottom' = [bottom EXCEPT ![l] = IF @ = m THEN before[l] ELSE @]
    /\ returned' = [returned EXCEPT ![l] = m]
    /\ order' = [order EXCEPT ![l] = Without(@, m)]
    /\ before' = [before EXCEPT ![l] = Null]
    /\ wanted' = [wanted EXCEPT ![l] = Null]
    /\ UNCHANGED <<top, key>>

\* Variant used by no specification: goes on after a match, to the last one.
PickupNextUnordered(l) ==
    /\ ~Unlocked(l)
    /\ LET m == next[before[l]] IN
       CASE m = Null -> ReturnNull(l)
         [] m # Null /\ key[m] = wanted[l] /\ next[m] = Null -> UnlinkNext(l, m)
         [] OTHER ->
              /\ before' = [before EXCEPT ![l] = m]
              /\ UNCHANGED <<top, bottom, count, next, key, wanted, returned, order>>

PickupNext(l) ==
    /\ ~Unlocked(l)
    /\ LET m == next[before[l]] IN
       CASE m = Null -> ReturnNull(l)
         [] m # Null /\ key[m] = wanted[l] -> UnlinkNext(l, m)
         [] OTHER ->
              /\ before' = [before EXCEPT ![l] = m]
              /\ UNCHANGED <<top, bottom, count, next, key, wanted, returned, order>>

Next == \E l \in Lists :
    \/ \E m \in Msgs, k \in Keys : AppendMsg(l, m, k)
    \/ Pop(l)
    \/ \E k \in Keys : PickupFirst(l, k)
    \/ PickupNext(l)

Spec == Init /\ [][Next]_vars

\* The thread that walks a list is scheduled.
FairSpec == Spec /\ \A l \in Lists : WF_vars(PickupNext(l))

-----------------------------------------------------------------------------
(* Properties.                                                             *)

\* The pointers and the count describe the messages of the list, in order: rmw_wait,
\* which reads the count, and rmw_take, which follows que_top, see the same queue.
Linked(l) ==
    LET s == order[l] IN
    /\ count[l] = Len(s)
    /\ s = <<>> => top[l] = Null /\ bottom[l] = Null
    /\ s # <<>> => top[l] = s[1] /\ bottom[l] = s[Len(s)]
    /\ \A i \in 1..Len(s) : next[s[i]] = IF i = Len(s) THEN Null ELSE s[i + 1]

ListLinked == \A l \in Lists : Linked(l)

\* before_msg of a running pickup is still in the list, and nothing up to it matches.
Scanned(l) ==
    ~Unlocked(l) => \E i \in DOMAIN order[l] :
                        /\ order[l][i] = before[l]
                        /\ \A j \in 1..i : key[order[l][j]] # wanted[l]

ScanSound == \A l \in Lists : Scanned(l)

\* Each list is a queue with removal of the first match (MsgQueue), whatever the
\* interleaving of handlers, rmw_take_request and rmw_send_response.
Items(l) == [i \in DOMAIN order[l] |-> [msg |-> order[l][i], key |-> key[order[l][i]]]]

Queue == INSTANCE MsgQueue WITH queue <- [l \in Lists |-> Items(l)]

IsMsgQueue == Queue!Spec

\* The loop of recv_msg_list_pickup ends, and with it the hold on the list's mutex.
PickupEnds == \A l \in Lists : ~Unlocked(l) ~> Unlocked(l)
=============================================================================
