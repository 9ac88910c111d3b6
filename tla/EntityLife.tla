----------------------------- MODULE EntityLife -----------------------------
(***************************************************************************)
(* The lives of nodes, publishers, subscriptions, services and clients     *)
(* (rmw_node.c, rmw_publisher.c, rmw_subscription.c, rmw_service.c,        *)
(* rmw_client.c) and the counted objects they share (zenoh_pico_data.c,    *)
(* zenoh_pico_entity.c, zenoh_pico_nodeInfo.c, zenoh_pico_topicInfo.c).    *)
(*                                                                         *)
(* One application thread creates and destroys; zenoh's read task runs the *)
(* callbacks that were declared with a pointer to an endpoint's data.  Any *)
(* allocation or declaration may fail.  Two objects are shared: a node's   *)
(* data and its node information.  An entity and its topic information     *)
(* have one holder each and live as long as that holder.                   *)
(*                                                                         *)
(* The model ends where the behaviour of the C program does (Sound).       *)
(***************************************************************************)
EXTENDS Naturals, FiniteSets

CONSTANTS Nodes, Endpoints,
          Kind,         \* of each endpoint
          NoOne,        \* no callback is running; no node
          QueueMax,     \* bound of the model: messages in a queue
          QueryMax,     \* bound of the model: queries a client has open
          FailureMax    \* bound of the model: creations that fail

Kinds == {"Publisher", "Subscription", "Service", "Client"}
\* The entities that take a reference to their node, and those that do not.
Counted == {"Publisher", "Subscription"}
Uncounted == {"Service", "Client"}

ASSUME EndpointAssumption == Kind \in [Endpoints -> Kinds] /\ IsFiniteSet(Endpoints)
ASSUME NoOneAssumption == NoOne \notin Endpoints \cup Nodes
ASSUME BoundAssumption == QueueMax \in Nat /\ QueryMax \in Nat /\ FailureMax \in Nat

VARIABLES
    handle,     \* the nodes whose rmw_node_t the application has
    mem,        \* per node: ref of its ZenohPicoNodeData and of its ZenohPicoNodeInfo (0: freed),
                \* whether its token is declared, and ok: no freed object was used
    life,       \* per endpoint: where its data is between creation and destruction
    owner,      \* per endpoint: data->node, or NoOne
    declared,   \* the endpoints with a callback (or publisher) in the session
    announced,  \* the endpoints whose liveliness token is declared
    queue,      \* per endpoint: messages in its queues
    lost,       \* history: the endpoints that left messages nobody can free any more
    queries,    \* per client: open z_get
    running,    \* the endpoint whose callback runs, or NoOne
    broken,     \* an endpoint's freed data or an indeterminate pointer was used
    failures,   \* creations that failed
    clones,     \* history, per node: references that failed creations did not give back
    surplus,    \* history, per node: references given back without having been taken
    doubled,    \* history, per node: the same of its node information
    slips       \* history: the steps after which the behaviour may become undefined

vars == <<handle, mem, life, owner, declared, announced, queue, lost, queries,
          running, broken, failures, clones, surplus, doubled, slips>>
nodeVars == <<handle, mem, clones, surplus, doubled>>
dataVars == <<life, owner, declared, announced>>
messageVars == <<queue, lost, queries>>

Phases == {"none", "declaring", "open", "undeclared"}
Slips == {"serviceGone", "doubleRelease", "indeterminate", "noTopic", "nodeFailed",
          "overlap", "openQuery", "queryableLeft"}
NodeMemory == [ref : Nat, info : Nat, announced : BOOLEAN, ok : BOOLEAN]

TypeOK ==
    /\ handle \subseteq Nodes
    /\ mem \in [Nodes -> NodeMemory]
    /\ life \in [Endpoints -> Phases]
    /\ owner \in [Endpoints -> Nodes \cup {NoOne}]
    /\ declared \subseteq Endpoints /\ announced \subseteq Endpoints
    /\ queue \in [Endpoints -> Nat] /\ lost \subseteq Endpoints
    /\ queries \in [Endpoints -> Nat]
    /\ running \in Endpoints \cup {NoOne}
    /\ broken \in BOOLEAN
    /\ failures \in 0..FailureMax
    /\ clones \in [Nodes -> Nat] /\ surplus \in [Nodes -> Nat] /\ doubled \in [Nodes -> Nat]
    /\ slips \subseteq Slips

Init ==
    /\ handle = {}
    /\ mem = [n \in Nodes |-> [ref |-> 0, info |-> 0, announced |-> FALSE, ok |-> TRUE]]
    /\ life = [e \in Endpoints |-> "none"]
    /\ owner = [e \in Endpoints |-> NoOne]
    /\ declared = {} /\ announced = {}
    /\ queue = [e \in Endpoints |-> 0]
    /\ lost = {}
    /\ queries = [e \in Endpoints |-> 0]
    /\ running = NoOne
    /\ broken = FALSE
    /\ failures = 0
    /\ clones = [n \in Nodes |-> 0]
    /\ surplus = [n \in Nodes |-> 0]
    /\ doubled = [n \in Nodes |-> 0]
    /\ slips = {}

-----------------------------------------------------------------------------
(* Counted objects.                                                        *)

\* Everything so far had a defined behaviour.
Sound == ~broken /\ \A n \in Nodes : mem[n].ok

Live(e) == life[e] # "none"
\* The endpoints that hold the node information of n, and those that hold n as well.
Members(n) == {e \in Endpoints : Live(e) /\ owner[e] = n}
Holders(n) == {e \in Members(n) : Kind[e] \in Counted}

\* zenoh_pico_destroy_node_info.
ReleaseInfo(m) ==
    IF m.info = 0 THEN [m EXCEPT !.ok = FALSE] ELSE [m EXCEPT !.info = @ - 1]

\* Variant used by no specification: the token is not withdrawn.
ReleaseNodeSilently(m) ==
    IF m.ref = 0 THEN [m EXCEPT !.ok = FALSE]
    ELSE IF m.ref > 1 THEN [m EXCEPT !.ref = @ - 1]
    ELSE ReleaseInfo([m EXCEPT !.ref = 0])

\* zenoh_pico_destroy_node_data: the last reference takes the token and the entity along,
\* and the entity its share of the node information.
ReleaseNode(m) ==
    IF m.ref = 0 THEN [m EXCEPT !.ok = FALSE]
    ELSE IF m.ref > 1 THEN [m EXCEPT !.ref = @ - 1]
    ELSE ReleaseInfo([m EXCEPT !.ref = 0, !.announced = FALSE])

\* ZenohPicoDataRefClone of the node, which a publisher and a subscription make, and of the
\* node information, which every endpoint makes.
CloneNode(m, kind) ==
    IF kind \notin Counted THEN m
    ELSE IF m.ref = 0 THEN [m EXCEPT !.ok = FALSE] ELSE [m EXCEPT !.ref = @ + 1]

CloneInfo(m) ==
    IF m.ref = 0 \/ m.info = 0 THEN [m EXCEPT !.ok = FALSE] ELSE [m EXCEPT !.info = @ + 1]

\* zenoh_pico_generate_*_data up to the entity.
TakeReferences(m, kind) == CloneInfo(CloneNode(m, kind))

\* Variant used by no specification: the entity keeps the node information.
GiveNodeOnly(m) == ReleaseNode(m)

\* The end of zenoh_pico_destroy_*_data: the node first, then the entity with its
\* node information.  A service gives back a node it never took.
GiveReferences(m) == ReleaseInfo(ReleaseNode(m))

-----------------------------------------------------------------------------
(* Nodes.                                                                  *)

\* The application is between two calls.
Idle == \A e \in Endpoints : life[e] \in {"none", "open"}

Unused(n) ==
    /\ n \notin handle
    /\ mem[n].ref = 0 /\ mem[n].info = 0
    /\ Members(n) = {}

\* What rmw_create_node makes: node information that its data holds, and a token.
NewNode == [ref |-> 1, info |-> 1, announced |-> TRUE, ok |-> TRUE]

\* rmw_create_node on a connected session.
CreateNode(n) ==
    /\ Idle /\ Unused(n)
    /\ handle' = handle \cup {n}
    /\ mem' = [mem EXCEPT ![n] = NewNode]
    /\ clones' = [clones EXCEPT ![n] = 0]
    /\ surplus' = [surplus EXCEPT ![n] = 0]
    /\ doubled' = [doubled EXCEPT ![n] = 0]
    /\ UNCHANGED <<dataVars, messageVars, running, broken, failures, slips>>

\* rmw_create_node that fails.  Without the rmw_node_t or the token everything is given back.
\* In zenoh_pico_generate_node_data, without node information or entity node_data is
\* indeterminate at the label error; later the node information is given back there and once
\* more with the entity.
CreateNodeFails(n, stage, garbage) ==
    /\ Idle /\ Unused(n) /\ failures < FailureMax
    /\ failures' = failures + 1
    /\ \/ /\ stage \in {"handle", "token"} /\ ~garbage
          /\ UNCHANGED <<broken, slips>>
       \/ /\ stage \in {"info", "entity"}
          /\ broken' = garbage
          /\ slips' = slips \cup {"indeterminate"}
       \/ /\ stage \in {"data", "key"} /\ ~garbage
          /\ broken' = TRUE
          /\ slips' = slips \cup {"nodeFailed"}
    /\ UNCHANGED <<nodeVars, dataVars, messageVars, running>>

\* rmw_destroy_node.  The node's data stays while others hold it.
DestroyNode(n) ==
    /\ Idle /\ n \in handle
    /\ handle' = handle \ {n}
    /\ mem' = [mem EXCEPT ![n] = ReleaseNode(@)]
    /\ UNCHANGED <<clones, surplus, doubled, dataVars, messageVars, running, broken,
                   failures, slips>>

-----------------------------------------------------------------------------
(* Endpoints: creation.                                                    *)

\* A name stands for one object at a time, its callbacks under way included.
Fresh(e) ==
    /\ life[e] = "none" /\ e \notin declared /\ queries[e] = 0 /\ running # e

\* Variant used by no specification: a publisher takes no reference to its node.
DeclareUncounted(e, n) ==
    /\ Idle /\ Fresh(e) /\ n \in handle
    /\ mem' = [mem EXCEPT ![n] = CloneInfo(@)]
    /\ life' = [life EXCEPT ![e] = "declaring"]
    /\ owner' = [owner EXCEPT ![e] = n]
    /\ declared' = declared \cup {e}
    /\ UNCHANGED <<handle, clones, surplus, doubled, announced, messageVars, running, broken,
                   failures, slips>>

\* zenoh_pico_generate_*_data and the declaration of the subscriber, queryable or publisher.
Declare(e, n) ==
    /\ Idle /\ Fresh(e) /\ n \in handle
    /\ mem' = [mem EXCEPT ![n] = TakeReferences(@, Kind[e])]
    /\ life' = [life EXCEPT ![e] = "declaring"]
    /\ owner' = [owner EXCEPT ![e] = n]
    /\ declared' = declared \cup {e}
    /\ UNCHANGED <<handle, clones, surplus, doubled, announced, messageVars, running, broken,
                   failures, slips>>

\* The token is declared and the handle returned.
FinishCreate(e) ==
    /\ life[e] = "declaring"
    /\ life' = [life EXCEPT ![e] = "open"]
    /\ announced' = announced \cup {e}
    /\ UNCHANGED <<nodeVars, owner, declared, messageVars, running, broken, failures, slips>>

\* zenoh_pico_generate_publisher_data or _subscription_data fails before there is an entity:
\* node_info is given back, the clone of the node is not.  At the label error sub_data and
\* topic_info are indeterminate.
GenerateFailsEarly(e, n, garbage) ==
    /\ Kind[e] \in Counted
    /\ Idle /\ Fresh(e) /\ n \in handle /\ failures < FailureMax
    /\ failures' = failures + 1
    /\ mem' = [mem EXCEPT ![n] = ReleaseInfo(TakeReferences(@, Kind[e]))]
    /\ clones' = [clones EXCEPT ![n] = @ + 1]
    /\ broken' = garbage
    /\ slips' = slips \cup {"indeterminate"}
    /\ UNCHANGED <<handle, surplus, doubled, dataVars, messageVars, running>>

\* zenoh_pico_generate_service_data fails before there is an entity.  It goes on without topic
\* information and uses it.
ServiceGenerateFailsEarly(e, n, noTopic) ==
    /\ Kind[e] \in Uncounted
    /\ Idle /\ Fresh(e) /\ n \in handle /\ failures < FailureMax
    /\ failures' = failures + 1
    /\ mem' = [mem EXCEPT ![n] = ReleaseInfo(TakeReferences(@, Kind[e]))]
    /\ broken' = noTopic
    /\ slips' = IF noTopic THEN slips \cup {"noTopic"} ELSE slips
    /\ UNCHANGED <<handle, clones, surplus, doubled, dataVars, messageVars, running>>

\* generate_*_data fails with an entity: node_info is given back twice, once through the
\* entity.  A publisher does the same to its topic information, or follows a pointer
\* that is indeterminate.
GenerateFailsLate(e, n, garbage) ==
    /\ Idle /\ Fresh(e) /\ n \in handle /\ failures < FailureMax
    /\ garbage => Kind[e] = "Publisher"
    /\ failures' = failures + 1
    /\ mem' = [mem EXCEPT ![n] = ReleaseInfo(ReleaseInfo(TakeReferences(@, Kind[e])))]
    /\ clones' = [clones EXCEPT ![n] = IF Kind[e] \in Counted THEN @ + 1 ELSE @]
    /\ doubled' = [doubled EXCEPT ![n] = @ + 1]
    /\ broken' = garbage
    /\ slips' = slips \cup {"doubleRelease"}
    /\ UNCHANGED <<handle, surplus, dataVars, messageVars, running>>

\* rmw_create_publisher, rmw_create_subscription: without the rmw handle or the declaration, the
\* data is destroyed.
CreateFails(e, n) ==
    /\ Kind[e] \in Counted
    /\ Idle /\ Fresh(e) /\ n \in handle /\ failures < FailureMax
    /\ failures' = failures + 1
    /\ mem' = [mem EXCEPT ![n] = GiveReferences(TakeReferences(@, Kind[e]))]
    /\ UNCHANGED <<handle, clones, surplus, doubled, dataVars, messageVars, running, broken, slips>>

\* The same in rmw_create_service and rmw_create_client, which gives back too much.
ServiceCreateFails(e, n) ==
    /\ Kind[e] \in Uncounted
    /\ Idle /\ Fresh(e) /\ n \in handle /\ failures < FailureMax
    /\ failures' = failures + 1
    /\ mem' = [mem EXCEPT ![n] = GiveReferences(TakeReferences(@, Kind[e]))]
    /\ surplus' = [surplus EXCEPT ![n] = @ + 1]
    /\ slips' = slips \cup {"serviceGone"}
    /\ UNCHANGED <<handle, clones, doubled, dataVars, messageVars, running, broken>>

\* A callback that runs is not waited for.
Overlap(e) == IF running = e THEN {"overlap"} ELSE {}

\* The token of a publisher or a subscription cannot be declared: it is undeclared.
TokenFails(e) ==
    /\ Kind[e] \in Counted /\ life[e] = "declaring" /\ failures < FailureMax
    /\ failures' = failures + 1
    /\ life' = [life EXCEPT ![e] = "undeclared"]
    /\ declared' = declared \ {e}
    /\ slips' = slips \cup Overlap(e)
    /\ UNCHANGED <<nodeVars, owner, announced, messageVars, running, broken>>

\* The token of a service or a client cannot be declared: its queryable stays.
ServiceTokenFails(e) ==
    /\ Kind[e] \in Uncounted /\ life[e] = "declaring" /\ failures < FailureMax
    /\ failures' = failures + 1
    /\ life' = [life EXCEPT ![e] = "undeclared"]
    /\ slips' = slips \cup {"queryableLeft"} \cup Overlap(e)
    /\ UNCHANGED <<nodeVars, owner, declared, announced, messageVars, running, broken>>

-----------------------------------------------------------------------------
(* Endpoints: destruction.                                                 *)

\* rmw_destroy_* is passed a node to check.
Destroyable(e) == Idle /\ life[e] = "open" /\ handle # {}

\* undeclaration_*_data: the subscriber, publisher or queryable, and the token.
Withdrawn(e) == declared' = declared \ {e} /\ announced' = announced \ {e}

\* Variant used by no specification: the subscriber is not undeclared.
UndeclareTokenOnly(e) ==
    /\ Kind[e] \in Counted /\ Destroyable(e)
    /\ life' = [life EXCEPT ![e] = "undeclared"]
    /\ announced' = announced \ {e}
    /\ slips' = slips \cup Overlap(e)
    /\ UNCHANGED <<nodeVars, owner, declared, messageVars, running, broken, failures>>

\* rmw_destroy_publisher, rmw_destroy_subscription, up to and including the undeclaration.
Undeclare(e) ==
    /\ Kind[e] \in Counted /\ Destroyable(e)
    /\ life' = [life EXCEPT ![e] = "undeclared"]
    /\ Withdrawn(e)
    /\ slips' = slips \cup Overlap(e)
    /\ UNCHANGED <<nodeVars, owner, messageVars, running, broken, failures>>

\* rmw_destroy_service, rmw_destroy_client.  The queries of a client stay open.
ServiceUndeclare(e) ==
    /\ Kind[e] \in Uncounted /\ Destroyable(e)
    /\ life' = [life EXCEPT ![e] = "undeclared"]
    /\ Withdrawn(e)
    /\ slips' = slips \cup Overlap(e) \cup (IF queries[e] > 0 THEN {"openQuery"} ELSE {})
    /\ UNCHANGED <<nodeVars, owner, messageVars, running, broken, failures>>

\* The end of a destruction.
DataGone(e) ==
    /\ life[e] = "undeclared"
    /\ life' = [life EXCEPT ![e] = "none"]
    /\ owner' = [owner EXCEPT ![e] = NoOne]
    /\ mem' = [mem EXCEPT ![owner[e]] = GiveReferences(@)]
    /\ UNCHANGED <<handle, clones, doubled, declared, announced, queries, running, broken,
                   failures>>

\* zenoh_pico_delete_recv_msg_data for all but so many messages of e.
DeleteMessages(e, left) == queue' = [queue EXCEPT ![e] = left]

\* zenoh_pico_destroy_publisher_data.
DestroyPublisherData(e) ==
    /\ Kind[e] = "Publisher" /\ DataGone(e)
    /\ UNCHANGED <<queue, lost, surplus, slips>>

\* zenoh_pico_destroy_subscription_data.  Messages are popped with ZenohPicoDataDestroy, which
\* does nothing to an object with a reference, so that the loop that would delete them finds
\* the queue empty.
DestroySubscriptionData(e) ==
    /\ Kind[e] = "Subscription" /\ DataGone(e)
    /\ queue' = [queue EXCEPT ![e] = 0]
    /\ lost' = IF queue[e] > 0 THEN lost \cup {e} ELSE lost
    /\ UNCHANGED <<surplus, slips>>

\* zenoh_pico_destroy_service_data, which deletes the messages.
DestroyServiceData(e) ==
    /\ Kind[e] \in Uncounted /\ DataGone(e)
    /\ DeleteMessages(e, 0)
    /\ surplus' = [surplus EXCEPT ![owner[e]] = @ + 1]
    /\ slips' = slips \cup {"serviceGone"}
    /\ UNCHANGED lost

-----------------------------------------------------------------------------
(* Endpoints: use.                                                         *)

\* zenoh's read task enters _subscription_data_handler.
SubscriptionHandlerStart(e) ==
    /\ running = NoOne /\ e \in declared /\ Kind[e] = "Subscription"
    /\ running' = e
    /\ UNCHANGED <<nodeVars, dataVars, messageVars, broken, failures, slips>>

\* It enters request_handler, which a client has declared too.
RequestHandlerStart(e) ==
    /\ running = NoOne /\ e \in declared /\ Kind[e] \in Uncounted
    /\ running' = e
    /\ UNCHANGED <<nodeVars, dataVars, messageVars, broken, failures, slips>>

\* It enters _reply_handler, as long as the query is open.
ReplyStart(e) ==
    /\ running = NoOne /\ queries[e] > 0
    /\ running' = e
    /\ UNCHANGED <<nodeVars, dataVars, messageVars, broken, failures, slips>>

\* The handler has the message and uses its context: it queues the message.
HandlerEnd(e) ==
    /\ running = e
    /\ running' = NoOne
    /\ IF Live(e) THEN /\ queue[e] < QueueMax
                       /\ queue' = [queue EXCEPT ![e] = @ + 1]
                       /\ UNCHANGED broken
                  ELSE broken' = TRUE /\ UNCHANGED queue
    /\ UNCHANGED <<nodeVars, dataVars, lost, queries, failures, slips>>

\* The handler could not generate the message and does not use its context.
HandlerGivesUp(e) ==
    /\ running = e
    /\ running' = NoOne
    /\ UNCHANGED <<nodeVars, dataVars, messageVars, broken, failures, slips>>

\* rmw_take*, with a message that can be decoded.
Take(e) ==
    /\ Idle /\ life[e] = "open" /\ queue[e] > 0
    /\ DeleteMessages(e, queue[e] - 1)
    /\ UNCHANGED <<nodeVars, dataVars, lost, queries, running, broken, failures, slips>>

\* rmw_send_request opens a query that has no timeout.
SendRequest(e) ==
    /\ Idle /\ life[e] = "open" /\ Kind[e] = "Client" /\ queries[e] < QueryMax
    /\ queries' = [queries EXCEPT ![e] = @ + 1]
    /\ UNCHANGED <<nodeVars, dataVars, queue, lost, running, broken, failures, slips>>

\* The last answer to a query: _reply_dropper, which does not use its context.
ReplyDropper(e) ==
    /\ queries[e] > 0
    /\ queries' = [queries EXCEPT ![e] = @ - 1]
    /\ UNCHANGED <<nodeVars, dataVars, queue, lost, running, broken, failures, slips>>

-----------------------------------------------------------------------------

NodeStep(n) ==
    \/ CreateNode(n) \/ DestroyNode(n)
    \/ \E garbage \in BOOLEAN, stage \in {"info", "entity", "data", "key", "handle", "token"} :
           CreateNodeFails(n, stage, garbage)

CreationStep(e, n) ==
    \/ Declare(e, n) \/ CreateFails(e, n) \/ ServiceCreateFails(e, n)
    \/ \E garbage \in BOOLEAN : GenerateFailsLate(e, n, garbage) \/ GenerateFailsEarly(e, n, garbage)
    \/ \E noTopic \in BOOLEAN : ServiceGenerateFailsEarly(e, n, noTopic)

EndpointStep(e) ==
    \/ FinishCreate(e) \/ TokenFails(e) \/ ServiceTokenFails(e)
    \/ Undeclare(e) \/ ServiceUndeclare(e)
    \/ DestroyPublisherData(e) \/ DestroySubscriptionData(e) \/ DestroyServiceData(e)
    \/ SubscriptionHandlerStart(e) \/ RequestHandlerStart(e) \/ ReplyStart(e)
    \/ HandlerEnd(e) \/ HandlerGivesUp(e)
    \/ Take(e) \/ SendRequest(e) \/ ReplyDropper(e)

Next ==
    /\ Sound
    /\ \/ \E n \in Nodes : NodeStep(n)
       \/ \E e \in Endpoints, n \in Nodes : CreationStep(e, n)
       \/ \E e \in Endpoints : EndpointStep(e)

Spec == Init /\ [][Next]_vars

-----------------------------------------------------------------------------
(* Properties.                                                             *)

\* The count of a node's data is its handle, the publishers and subscriptions that are
\* alive and what failed creations kept, less what services and clients gave back without
\* having taken it (rmw_service.c:168); the count of its information is the data and every
\* endpoint that is alive, less what error paths gave back twice (rmw_publisher.c:102-106).
ReferencesAreCounted ==
    Sound => \A n \in Nodes :
        /\ mem[n].ref + surplus[n] = (IF n \in handle THEN 1 ELSE 0)
                                     + Cardinality(Holders(n)) + clones[n]
        /\ mem[n].info + doubled[n] = (IF mem[n].ref > 0 THEN 1 ELSE 0) + Cardinality(Members(n))

\* A program that destroys no service and no client, waits for its callbacks before it
\* destroys, and has no allocation fail inside generate_*_data, uses no freed object in
\* any order of creations, destructions, failures of declarations and messages.
UndefinedOnlyAfterSlip == ~Sound => slips # {}

\* A callback stays declared as long as its data lives and no longer, other than the
\* queryable that rmw_create_service leaves behind when the token fails (rmw_service.c:400).
CallbacksHaveContext ==
    \A e \in declared : life[e] \in {"declaring", "open"} \/ "queryableLeft" \in slips

\* The graph shows what exists: an endpoint's token only while it is open, a node's token
\* exactly as long as its data, and so at least as long as a publisher or a subscription.
TokensFollowData ==
    /\ \A e \in announced : life[e] = "open" /\ e \in declared
    /\ Sound => \A n \in Nodes : mem[n].announced <=> mem[n].ref > 0

\* When all is destroyed without a slip nothing is left: no counted object, no callback, no
\* token, and no message other than those a subscription had in its queue (rmw_subscription.c:125).
AllGivenBack ==
    (handle = {} /\ slips = {} /\ \A e \in Endpoints : ~Live(e)) =>
        /\ \A n \in Nodes : mem[n].ref = 0 /\ mem[n].info = 0
        /\ declared = {} /\ announced = {}
        /\ \A e \in Endpoints : queue[e] = 0 /\ (e \in lost => Kind[e] = "Subscription")

=============================================================================
