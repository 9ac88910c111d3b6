------------------------------ MODULE RpcCalls ------------------------------
(***************************************************************************)
(* What the callers of a service are promised about a request, whatever    *)
(* the network, the allocator and the decoders do: it is replied to at     *)
(* most once, and only while it is open; it may also be dropped.           *)
(***************************************************************************)
CONSTANT Requests

VARIABLES asked,    \* the requests rmw_send_request has numbered
          open,     \* those that are still to be replied to
          replied,  \* those whose reply is under way
          done      \* those whose reply rmw_take_response has handed over

vars == <<asked, open, replied, done>>

Init == asked = {} /\ open = {} /\ replied = {} /\ done = {}

\* A request may be lost at once.
Ask(r) == /\ r \notin asked
          /\ asked' = asked \cup {r}
          /\ open' \in {open, open \cup {r}}
          /\ UNCHANGED <<replied, done>>

Reply(r) == /\ r \in open
            /\ open' = open \ {r}
            /\ replied' = replied \cup {r}
            /\ UNCHANGED <<asked, done>>

Deliver(r) == /\ r \in replied
              /\ replied' = replied \ {r}
              /\ done' = done \cup {r}
              /\ UNCHANGED <<asked, open>>

Drop(r) == /\ r \in open \cup replied
           /\ open' = open \ {r}
           /\ replied' = replied \ {r}
           /\ UNCHANGED <<asked, done>>

Next == \E r \in Requests : Ask(r) \/ Reply(r) \/ Deliver(r) \/ Drop(r)

Spec == Init /\ [][Next]_vars
=============================================================================
