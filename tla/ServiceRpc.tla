----------------------------- MODULE ServiceRpc -----------------------------
(***************************************************************************)
(* Services and clients (rmw_service.c, rmw_client.c).  A client numbers   *)
(* its requests and sends each as a zenoh query; the service queues what   *)
(* arrives, rmw_take_request moves a request from request_queue to         *)
(* response_queue, and rmw_send_response finds it there again by the       *)
(* writer's gid and the sequence number, and replies to its query.         *)
(*                                                                         *)
(* All clients and the service here are of one topic key.  The queues are  *)
(* sequences and each operation on one is atomic, which is what            *)
(* RecvMsgList shows of ReceiveMessageDataList.  What wakes rmw_wait when  *)
(* a message is queued is in WaitSet.  A query and a reply may be lost or  *)
(* overtaken; neither is duplicated.  One executor thread serves each      *)
(* side.  Creation and destruction are left out.                           *)
(***************************************************************************)
EXTENDS Naturals, Sequences, SequencesExt, FiniteSets

CONSTANTS Clients,
          Service,     \* the service's queryable, as a destination of queries
          SeqMax,      \* bound of the model: requests per client
          RequestMax,  \* bound of the model: requests of all clients
          HoldMax      \* requests the service's program takes before it responds; rclc: 1

ASSUME ServiceAssumption == Service \notin Clients
ASSUME BoundAssumption == SeqMax \in Nat /\ RequestMax \in Nat /\ HoldMax \in Nat \ {0}

VARIABLES
    sequenceNum,    \* per client: attachment.sequence_num
    queries,        \* queries under way, as [request, to]
    strays,         \* per client: messages in its own request_queue
    requestQueue,   \* the service's request_queue
    responseQueue,  \* the service's response_queue: requests taken, not responded to
    held,           \* what the service's program has taken and will respond to
    responded,      \* history: what it has responded to
    replies,        \* replies under way, as [query, answers]
    responses,      \* per client: its response_queue
    delivered,      \* history: replies that rmw_take_response handed over
    arrived,        \* history: requests in the order request_handler queued them
    together,       \* history: keys of which the program has held two requests at once
    faulted         \* rmw_send_response has used a NULL message

vars == <<sequenceNum, queries, strays, requestQueue, responseQueue, held,
          responded, replies, responses, delivered, arrived, together, faulted>>

\* A request is known by its client and its number; only the histories use the client.
Requests == [client : Clients, seq : 1..SeqMax]
\* The query a reply went to, and the request whose header the program passed.
Replies == [query : Requests, answers : Requests]
\* The requests that were given a number.
Asked == {r \in Requests : r.seq <= sequenceNum[r.client]}

TypeOK ==
    /\ sequenceNum \in [Clients -> 0..SeqMax]
    /\ queries \subseteq [request : Asked, to : Clients \cup {Service}]
    /\ strays \in [Clients -> Nat]
    /\ requestQueue \in Seq(Requests)
    /\ responseQueue \in Seq(Requests)
    /\ held \subseteq Requests
    /\ responded \subseteq Requests
    /\ replies \subseteq Replies
    /\ responses \in [Clients -> Seq(Replies)]
    /\ delivered \subseteq Replies
    /\ arrived \in Seq(Requests)
    /\ together \subseteq 1..SeqMax
    /\ faulted \in BOOLEAN

Init ==
    /\ sequenceNum = [c \in Clients |-> 0]
    /\ queries = {}
    /\ strays = [c \in Clients |-> 0]
    /\ requestQueue = <<>> /\ responseQueue = <<>>
    /\ held = {} /\ responded = {}
    /\ replies = {}
    /\ responses = [c \in Clients |-> <<>>]
    /\ delivered = {}
    /\ arrived = <<>>
    /\ together = {}
    /\ faulted = FALSE

-----------------------------------------------------------------------------
(* Clients.                                                                *)

\* attachment.gid is a hash of the topic key alone, so that every client of a service
\* has the same one and the key of a request is its number.
Key(r) == r.seq

\* zenoh takes a query of c to any of the other queryables of the topic key, those that
\* the clients declare included, or to none.
Destinations(c) == SUBSET ((Clients \cup {Service}) \ {c})

\* Variant used by no specification: the number is not incremented.
SendRequestSameNumber(c, to) ==
    LET r == [client |-> c, seq |-> 1] IN
    /\ queries' = queries \cup {[request |-> r, to |-> d] : d \in to}
    /\ UNCHANGED <<sequenceNum, strays, requestQueue, responseQueue, held, responded, replies,
                   responses, delivered, arrived, together, faulted>>

\* rmw_send_request after rmw_zenoh_pico_serialize.  The caller gets the number before the
\* increment, the attachment has the one after it.  With no destination the attachment or
\* z_get failed, or the query is lost.
SendRequest(c, to) ==
    LET r == [client |-> c, seq |-> sequenceNum[c] + 1] IN
    /\ sequenceNum[c] < SeqMax /\ Cardinality(Asked) < RequestMax
    /\ sequenceNum' = [sequenceNum EXCEPT ![c] = @ + 1]
    /\ queries' = queries \cup {[request |-> r, to |-> d] : d \in to}
    /\ UNCHANGED <<strays, requestQueue, responseQueue, held, responded, replies,
                   responses, delivered, arrived, together, faulted>>

\* _reply_handler; a reply whose message cannot be generated, or that is lost, is gone.
ReplyHandler(p, ok) ==
    /\ p \in replies
    /\ replies' = replies \ {p}
    /\ responses' = IF ok THEN [responses EXCEPT ![p.query.client] = Append(@, p)]
                    ELSE responses
    /\ UNCHANGED <<sequenceNum, queries, strays, requestQueue, responseQueue,
                   held, responded, delivered, arrived, together, faulted>>

\* rmw_take_response; a response that cannot be deserialized is gone too.
TakeResponse(c, ok) ==
    /\ responses[c] # <<>>
    /\ responses' = [responses EXCEPT ![c] = Tail(@)]
    /\ delivered' = IF ok THEN delivered \cup {Head(responses[c])} ELSE delivered
    /\ UNCHANGED <<sequenceNum, queries, strays, requestQueue, responseQueue,
                   held, responded, replies, arrived, together, faulted>>

-----------------------------------------------------------------------------
(* The service.                                                            *)

\* request_handler; without memory or attachment it replies with an error instead.
RequestHandler(q, ok) ==
    /\ q \in queries /\ q.to = Service
    /\ queries' = queries \ {q}
    /\ requestQueue' = IF ok THEN Append(requestQueue, q.request) ELSE requestQueue
    /\ arrived' = IF ok THEN Append(arrived, q.request) ELSE arrived
    /\ UNCHANGED <<sequenceNum, strays, responseQueue, held, responded, replies,
                   responses, delivered, together, faulted>>

\* The same handler for the queryable that rmw_create_client declares: nothing takes
\* from the request_queue of a client.  Without memory or attachment it has nothing to queue.
StrayRequestHandler(q, ok) ==
    /\ q \in queries /\ q.to # Service
    /\ queries' = queries \ {q}
    /\ strays' = IF ok THEN [strays EXCEPT ![q.to] = @ + 1] ELSE strays
    /\ UNCHANGED <<sequenceNum, requestQueue, responseQueue, held, responded,
                   replies, responses, delivered, arrived, together, faulted>>

\* The program takes one more request.
Hold(r) ==
    /\ held' = held \cup {r}
    /\ together' = together \cup {Key(h) : h \in {x \in held : Key(x) = Key(r)}}

\* Variants used by no specification: a request that cannot be deserialized is all the
\* program gets; the newest request in front.
TakeRequestDropped(ok) ==
    /\ requestQueue # <<>> /\ Cardinality(held) < HoldMax
    /\ requestQueue' = Tail(requestQueue)
    /\ responseQueue' = IF ok THEN responseQueue ELSE Append(responseQueue, Head(requestQueue))
    /\ Hold(Head(requestQueue))
    /\ UNCHANGED <<sequenceNum, queries, strays, responded, replies, responses,
                   delivered, arrived, faulted>>

TakeRequestInFront(ok) ==
    /\ requestQueue # <<>> /\ Cardinality(held) < HoldMax
    /\ requestQueue' = Tail(requestQueue)
    /\ responseQueue' = <<Head(requestQueue)>> \o responseQueue
    /\ IF ok THEN Hold(Head(requestQueue)) ELSE UNCHANGED <<held, together>>
    /\ UNCHANGED <<sequenceNum, queries, strays, responded, replies, responses,
                   delivered, arrived, faulted>>

\* rmw_take_request.  A request that cannot be deserialized is not taken, but it is
\* kept for a response all the same, and the call returns RMW_RET_OK.
TakeRequest(ok) ==
    /\ requestQueue # <<>> /\ Cardinality(held) < HoldMax
    /\ requestQueue' = Tail(requestQueue)
    /\ responseQueue' = Append(responseQueue, Head(requestQueue))
    /\ IF ok THEN Hold(Head(requestQueue)) ELSE UNCHANGED <<held, together>>
    /\ UNCHANGED <<sequenceNum, queries, strays, responded, replies, responses,
                   delivered, arrived, faulted>>

\* Variant used by no specification: every message matches.
MatchesAny(r) == DOMAIN responseQueue

\* recv_msg_list_pickup with _compare_responce_msg: the positions that match.
Matches(r) == {i \in DOMAIN responseQueue : Key(responseQueue[i]) = Key(r)}

\* Variant used by no specification: leaves the message in the list.
RespondKeeping(r, ok) ==
    /\ \E i \in Matches(r) :
          /\ \A j \in Matches(r) : i <= j
          /\ replies' = IF ok THEN replies \cup {[query |-> responseQueue[i], answers |-> r]}
                        ELSE replies
    /\ UNCHANGED <<responseQueue, faulted>>

\* The body of rmw_send_response.  Without a match the check for NULL sets an error and
\* goes on: a response that is serialized has the NULL message used.  If the response cannot
\* be serialized, or the reply fails, the message is gone and nothing is sent.
Respond(r, ok) ==
    IF Matches(r) = {}
    THEN faulted' = ok /\ UNCHANGED <<responseQueue, replies>>
    ELSE /\ \E i \in Matches(r) :
               /\ \A j \in Matches(r) : i <= j
               /\ responseQueue' = RemoveAt(responseQueue, i)
               /\ replies' = IF ok
                             THEN replies \cup {[query |-> responseQueue[i], answers |-> r]}
                             ELSE replies
         /\ UNCHANGED faulted

SendResponse(r, ok) ==
    /\ ~faulted
    /\ r \in held
    /\ Respond(r, ok)
    /\ held' = held \ {r}
    /\ responded' = responded \cup {r}
    /\ UNCHANGED <<sequenceNum, queries, strays, requestQueue, responses, delivered,
                   arrived, together>>

\* A program that responds to one request twice.
SendResponseAgain(r, ok) ==
    /\ ~faulted
    /\ r \in responded
    /\ Respond(r, ok)
    /\ UNCHANGED <<sequenceNum, queries, strays, requestQueue, held, responded,
                   responses, delivered, arrived, together>>

-----------------------------------------------------------------------------
Next ==
    \/ \E c \in Clients : \E to \in Destinations(c) : SendRequest(c, to)
    \/ \E ok \in BOOLEAN :
         \/ \E q \in queries : RequestHandler(q, ok) \/ StrayRequestHandler(q, ok)
         \/ TakeRequest(ok)
         \/ \E r \in held : SendResponse(r, ok)
         \/ \E p \in replies : ReplyHandler(p, ok)
         \/ \E c \in Clients : TakeResponse(c, ok)

Spec == Init /\ [][Next]_vars

\* The same with a program that may respond more than once.
SpecRespondingTwice ==
    Init /\ [][Next \/ \E r \in responded, ok \in BOOLEAN : SendResponseAgain(r, ok)]_vars

-----------------------------------------------------------------------------
(* Properties.                                                             *)

AllReplies == replies \cup delivered \cup UNION {ToSet(responses[c]) : c \in Clients}

\* Every request the program holds has a message in response_queue, so that
\* rmw_send_response finds one; also when another client's request of the same number
\* was picked up in its place.
HeldAreKept ==
    \A r \in held : Cardinality({h \in held : Key(h) = Key(r)}) <= Cardinality(Matches(r))

\* A response goes to the request it is for, unless the program has held another request of
\* that number at the same time, or one of that number could not be deserialized: one more of
\* the number than the program knows of then stays in response_queue for good, and responses
\* of the number find each other's messages (rmw_service.c:517).  A program that responds
\* before it takes the next request, as rclc's executor does, holds no two at once.
ResponsesArrive ==
    \A p \in AllReplies : p.query # p.answers =>
        \/ Key(p.answers) \in together
        \/ \E r \in ToSet(responseQueue) \ held : Key(r) = Key(p.answers)

\* The two queues together keep the requests in the order they arrived.
ArrivalOrder ==
    LET s == responseQueue \o requestQueue IN
    \A i, j \in DOMAIN s : i < j =>
        \E a, b \in DOMAIN arrived : a < b /\ arrived[a] = s[i] /\ arrived[b] = s[j]

\* Nobody is replied to twice, and no reply reaches a request that is not open (RpcCalls).
Open == {q.request : q \in {x \in queries : x.to = Service}}
            \cup ToSet(requestQueue) \cup ToSet(responseQueue)
Replied == {p.query : p \in replies \cup UNION {ToSet(responses[c]) : c \in Clients}}
Done == {p.query : p \in delivered}

Calls == INSTANCE RpcCalls WITH asked <- Asked, open <- Open,
                              replied <- Replied, done <- Done

IsRpcCalls == Calls!Spec

\* rmw_send_response refuses a response to a request it does not have.
UnknownIsRefused == ~faulted
=============================================================================
