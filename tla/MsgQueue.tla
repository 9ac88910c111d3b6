------------------------------ MODULE MsgQueue ------------------------------
(***************************************************************************)
(* What a ReceiveMessageDataList promises its users, the message queues of *)
(* subscriptions, services and clients: messages leave in the order they   *)
(* came, and recv_msg_list_pickup removes the oldest one that matches.     *)
(* An item is [msg, key]; the key is what the match function compares.     *)
(***************************************************************************)
EXTENDS Naturals, Sequences, SequencesExt

CONSTANTS Lists, Msgs, Keys,
          Null            \* what an operation that finds nothing returns

VARIABLES queue,          \* per list: its items, oldest first
          returned        \* per list: what the last pop or pickup returned

vars == <<queue, returned>>

Init == /\ queue = [l \in Lists |-> <<>>]
        /\ returned = [l \in Lists |-> Null]

Absent(m) == \A l \in Lists : \A i \in DOMAIN queue[l] : queue[l][i].msg # m

Enqueue(l, m, k) ==
    /\ Absent(m)
    /\ queue' = [queue EXCEPT ![l] = Append(@, [msg |-> m, key |-> k])]
    /\ UNCHANGED returned

\* Position i of list l leaves the list and is the result.
TakeAt(l, i) ==
    /\ queue' = [queue EXCEPT ![l] = RemoveAt(@, i)]
    /\ returned' = [returned EXCEPT ![l] = queue[l][i].msg]

Nothing(l) == returned' = [returned EXCEPT ![l] = Null] /\ UNCHANGED queue

Dequeue(l) == IF queue[l] = <<>> THEN Nothing(l) ELSE TakeAt(l, 1)

Matches(l, k) == {i \in DOMAIN queue[l] : queue[l][i].key = k}

TakeMatch(l, k) ==
    \/ Matches(l, k) = {} /\ Nothing(l)
    \/ \E i \in Matches(l, k) : (\A j \in Matches(l, k) : i <= j) /\ TakeAt(l, i)

Next == \E l \in Lists :
    \/ \E m \in Msgs, k \in Keys : Enqueue(l, m, k)
    \/ Dequeue(l)
    \/ \E k \in Keys : TakeMatch(l, k)

Spec == Init /\ [][Next]_vars
=============================================================================
