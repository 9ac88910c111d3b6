---------------------------- MODULE TopicChannel ----------------------------
(***************************************************************************)
(* What publishers promise subscriptions: a subscription takes samples     *)
(* that were published, those of one publisher in the order in which they  *)
(* were published and each at most once.  Any of them may be missing.      *)
(***************************************************************************)
EXTENDS Naturals, Sequences

CONSTANTS Publishers, Subscriptions

VARIABLES published,    \* per publisher: the number of its newest sample
          taken         \* per subscription: the samples it took, [from, number]

Last(s, p) ==
    LET numbers == {taken[s][i].number : i \in {j \in DOMAIN taken[s] : taken[s][j].from = p}}
    IN IF numbers = {} THEN 0 ELSE CHOOSE n \in numbers : \A m \in numbers : m <= n

Init ==
    /\ published = [p \in Publishers |-> 0]
    /\ taken = [s \in Subscriptions |-> <<>>]

\* rmw_publish takes the next number.
Publish(p) ==
    /\ published' = [published EXCEPT ![p] = @ + 1]
    /\ UNCHANGED taken

\* rmw_take hands out a sample that is newer than all before.
Take(s, p, n) ==
    /\ Last(s, p) < n /\ n <= published[p]
    /\ taken' = [taken EXCEPT ![s] = Append(@, [from |-> p, number |-> n])]
    /\ UNCHANGED published

Next ==
    \/ \E p \in Publishers : Publish(p)
    \/ \E s \in Subscriptions, p \in Publishers : \E n \in 1..published[p] : Take(s, p, n)

Spec == Init /\ [][Next]_<<published, taken>>

=============================================================================
