------------------------------- MODULE PubSub -------------------------------
(***************************************************************************)
(* Publishing and taking (rmw_publish with rmw_zenoh_pico_publish, the     *)
(* handler of a subscription, rmw_take.c).  Several threads may publish    *)
(* with one publisher; each session has a read task that runs the handlers *)
(* of its subscriptions; one thread takes from a subscription.  zenoh      *)
(* keeps the samples of a publisher in order and may lose some of them.    *)
(*                                                                         *)
(* A sample is the publisher and the number that its attachment carries.   *)
(***************************************************************************)
EXTENDS KeyExpr, FiniteSets

CONSTANTS Publishers, Subscriptions,
          Services, Clients,    \* of which only the keys are here
          Threads,      \* that publish
          Topics,       \* per endpoint: the topics it may be created with
          Node,         \* of each endpoint: domain, zid, nid, enclave, ns and name
          KeepAll, Reliable,    \* the publishers with these policies
          None,
          NumberMax,    \* bound of the model: numbers of a publisher
          CountMax      \* bound of the model: the count of rmw_take_sequence

Endpoints == Publishers \cup Subscriptions \cup Services \cup Clients
Zids == {Node[e].zid.text : e \in Endpoints}

ASSUME DisjointAssumption ==
    /\ Publishers \cap Subscriptions = {} /\ Services \cap Clients = {}
    /\ (Publishers \cup Subscriptions) \cap (Services \cup Clients) = {}
ASSUME BoundAssumption == NumberMax \in Nat /\ CountMax \in Nat
\* An empty name is refused (rmw_publisher.c:248, rmw_subscription.c:325 and the like).
ASSUME NameAssumption ==
    \A e \in Endpoints : \A t \in Topics[e] :
        /\ DOMAIN t = {"name", "type"}
        /\ t.name.len # 0
        /\ t.name.parts \in Seq({t.name.parts[i] : i \in DOMAIN t.name.parts})

\* The topics that an endpoint may have: that of a service or client is made of the service.
TopicsOf(e) ==
    IF e \in Publishers \cup Subscriptions THEN Topics[e]
    ELSE {[t EXCEPT !.type = ServiceType(t.type)] : t \in Topics[e]}

\* rcl refuses names of more than 247 characters (RMW_TOPIC_MAX_NAME_LENGTH), so that in front
\* of a name stands a domain of up to eight digits before left_size is negative.  The code
\* itself does not see to that (zenoh_pico_topicInfo.c:136, :144).
ASSUME RoomAssumption ==
    \A e \in Endpoints : \A t \in Topics[e] : Room(Node[e].domain, t.name) >= -1
\* What is told apart by a printed number fits an int.
ASSUME IntAssumption ==
    /\ \A e \in Endpoints : Node[e].domain \in 0..IntMax
    /\ Cardinality(Endpoints) <= IntMax
\* The hash (RIHS01) is a SHA-256 of the description of the type, its name included.
ASSUME HashAssumption ==
    LET types == {t.type : t \in UNION {TopicsOf(e) : e \in Endpoints}}
    IN \A x, y \in types : x.hash # "cut" /\ (x.hash = y.hash => x = y)
ASSUME NoneAssumption == None \notin [id : Nat, topic : UNION {TopicsOf(e) : e \in Endpoints}]
\* The prefix, the domain, a zid of at most 32 digits and two numbers fit the buffer of a token.
ASSUME HeadAssumption ==
    /\ IsFiniteSet(Endpoints)
    /\ \A e \in Endpoints, id \in 0..Cardinality(Endpoints), kind \in {"NN", "MP", "MS", "SS", "SC"} :
          Length(SubSeq(NodeFields(Node[e], id, kind), 1, 5)) <= KeyMax

VARIABLES
    entity,     \* per endpoint: its id and topic, or None before it is created
    nextId,     \* per session: zenoh_pico_get_next_entity_id
    seq,        \* per publisher: attachment.sequence_num
    thread,     \* per thread: where it is in rmw_zenoh_pico_publish
    link,       \* per subscription and publisher: numbers that zenoh carries
    queue,      \* per subscription: its message_queue
    call,       \* per subscription: the last call of rmw_take_sequence
    taken,      \* history, per subscription: samples handed to the program
    missed      \* history, per subscription: samples it will never take

vars == <<entity, nextId, seq, thread, link, queue, call, taken, missed>>

Sample == [from : Publishers, number : Nat \ {0}]
Sent(p, n) == [from |-> p, number |-> n]
Idle == [at |-> "idle", pub |-> None, number |-> 0]
ThreadState == {Idle} \cup [at : {"serialized"}, pub : Publishers, number : {0}]
                      \cup [at : {"numbered"}, pub : Publishers, number : Nat \ {0}]
\* first is where the samples of the call begin in taken.
NoCall == [want |-> 0, have |-> 0, ret |-> "none", first |-> 0]

Created(e) == entity[e] # None

TypeOK ==
    /\ \A e \in Endpoints : Created(e) =>
           entity[e].id < nextId[Node[e].zid.text] /\ entity[e].topic.name \in {t.name : t \in Topics[e]}
    /\ nextId \in [Zids -> Nat]
    /\ seq \in [Publishers -> Nat]
    /\ thread \in [Threads -> ThreadState]
    /\ link \in [Subscriptions -> [Publishers -> Seq(Nat \ {0})]]
    /\ queue \in [Subscriptions -> Seq(Sample)]
    /\ call \in [Subscriptions -> [want : Nat, have : Nat, first : Nat,
                                   ret : {"none", "running", "ok", "error"}]]
    /\ taken \in [Subscriptions -> Seq(Sample)]
    /\ missed \in [Subscriptions -> SUBSET Sample]

\* Each session has a node, whose entity has taken the first id.
Init ==
    /\ entity = [e \in Endpoints |-> None]
    /\ nextId = [z \in Zids |-> 1]
    /\ seq = [p \in Publishers |-> 0]
    /\ thread = [t \in Threads |-> Idle]
    /\ link = [s \in Subscriptions |-> [p \in Publishers |-> <<>>]]
    /\ queue = [s \in Subscriptions |-> <<>>]
    /\ call = [s \in Subscriptions |-> NoCall]
    /\ taken = [s \in Subscriptions |-> <<>>]
    /\ missed = [s \in Subscriptions |-> {}]

-----------------------------------------------------------------------------
(* Creation.                                                               *)

\* zenoh_pico_generate_entity for an endpoint.
Generate(e, topic) ==
    LET zid == Node[e].zid.text IN
    /\ ~Created(e)
    /\ entity' = [entity EXCEPT ![e] = [id |-> nextId[zid], topic |-> topic]]
    /\ nextId' = [nextId EXCEPT ![zid] = @ + 1]
    /\ UNCHANGED <<seq, thread, link, queue, call, taken, missed>>

\* rmw_create_publisher, rmw_create_subscription: the entity and its keys.
Create(e, topic) == e \in Publishers \cup Subscriptions /\ Generate(e, topic)

\* rmw_create_service, rmw_create_client.
CreateService(e, topic) ==
    /\ e \in Services \cup Clients
    /\ Generate(e, [topic EXCEPT !.type = ServiceType(@)])

KeyOf(e) == TopicKey(Node[e].domain, entity[e].topic)
Whole(e) == KeyFits(Node[e].domain, entity[e].topic)
GidOf(p) == Gid(Node[p].domain, entity[p].topic)
EntityKind(e) == CASE e \in Publishers -> "MP"
                   [] e \in Subscriptions -> "MS"
                   [] e \in Services -> "SS"
                   [] e \in Clients -> "SC"
TokenOf(e) == Token(Node[e], entity[e].id, EntityKind(e), entity[e].topic)

\* zenoh routes by key.
Matching(p) == {s \in Subscriptions : Created(s) /\ KeyOf(s) = KeyOf(p)}

\* declaration_publisher_data: the congestion control.
Blocks(p) == p \in KeepAll \cap Reliable

-----------------------------------------------------------------------------
(* rmw_publish.                                                            *)

Pending(p) == {t \in Threads : thread[t].at = "serialized" /\ thread[t].pub = p}
Locked(p) == \E t \in Threads : thread[t].at = "numbered" /\ thread[t].pub = p

\* The message is serialized; when there is no memory for that, rmw_publish ends.
Serialize(t, p) ==
    /\ thread[t] = Idle /\ Created(p)
    /\ seq[p] + Cardinality(Pending(p)) < NumberMax
    /\ thread' = [thread EXCEPT ![t] = [at |-> "serialized", pub |-> p, number |-> 0]]
    /\ UNCHANGED <<entity, nextId, seq, link, queue, call, taken, missed>>

Numbered(t, number) ==
    thread' = [thread EXCEPT ![t].at = "numbered", ![t].number = number]

\* Variant used by no specification: the lock is not taken.
TakeNumberUnlocked(t) ==
    LET p == thread[t].pub IN
    /\ thread[t].at = "serialized"
    /\ seq' = [seq EXCEPT ![p] = @ + 1]
    /\ Numbered(t, seq[p] + 1)
    /\ UNCHANGED <<entity, nextId, link, queue, call, taken, missed>>

\* Under the lock the sample gets the next number.  When the attachment cannot be made,
\* the call ends and the number is used up.
TakeNumber(t) ==
    LET p == thread[t].pub IN
    /\ thread[t].at = "serialized" /\ ~Locked(p)
    /\ seq' = [seq EXCEPT ![p] = @ + 1]
    /\ \/ Numbered(t, seq[p] + 1) /\ UNCHANGED missed
       \/ /\ thread' = [thread EXCEPT ![t] = Idle]
          /\ missed' = [s \in Subscriptions |-> missed[s] \cup {Sent(p, seq[p] + 1)}]
    /\ UNCHANGED <<entity, nextId, link, queue, call, taken>>

\* z_publisher_put, and the unlock: the sample is on its way to the subscriptions in reached.
\* An error reaches none; congestion drops it unless the publisher blocks.
Put(t, reached) ==
    LET p == thread[t].pub
        n == thread[t].number IN
    /\ thread[t].at = "numbered"
    /\ reached \subseteq Matching(p)
    /\ Blocks(p) => reached \in {{}, Matching(p)}
    /\ link' = [s \in Subscriptions |->
                   IF s \in reached THEN [link[s] EXCEPT ![p] = Append(@, n)] ELSE link[s]]
    /\ missed' = [s \in Subscriptions |->
                     IF s \in reached THEN missed[s] ELSE missed[s] \cup {Sent(p, n)}]
    /\ thread' = [thread EXCEPT ![t] = Idle]
    /\ UNCHANGED <<entity, nextId, seq, queue, call, taken>>

-----------------------------------------------------------------------------
(* The handler of a subscription.                                          *)

\* _subscription_data_handler.  A sample for which there is no memory or whose attachment
\* cannot be read is dropped.
Handler(s, p) ==
    LET sample == Sent(p, Head(link[s][p])) IN
    /\ link[s][p] # <<>>
    /\ link' = [link EXCEPT ![s][p] = Tail(@)]
    /\ \/ queue' = [queue EXCEPT ![s] = Append(@, sample)] /\ UNCHANGED missed
       \/ missed' = [missed EXCEPT ![s] = @ \cup {sample}] /\ UNCHANGED queue
    /\ UNCHANGED <<entity, nextId, seq, thread, call, taken>>

-----------------------------------------------------------------------------
(* rmw_take.                                                               *)

\* Variants used by no specification: a message that cannot be deserialized stays in the
\* queue; a message that is handed out does.
TakeOneKeeping(s, decoded) ==
    /\ queue[s] # <<>>
    /\ UNCHANGED missed
    /\ IF decoded
       THEN /\ queue' = [queue EXCEPT ![s] = Tail(@)]
            /\ taken' = [taken EXCEPT ![s] = Append(@, Head(queue[s]))]
       ELSE UNCHANGED <<queue, taken>>

TakeOnePeeking(s, decoded) ==
    /\ queue[s] # <<>> /\ decoded
    /\ taken' = [taken EXCEPT ![s] = Append(@, Head(queue[s]))]
    /\ UNCHANGED <<queue, missed>>

\* rmw_zenoh_pico_take_one with a message in the queue: it leaves the queue also when it
\* cannot be deserialized.
TakeOne(s, decoded) ==
    /\ queue[s] # <<>>
    /\ queue' = [queue EXCEPT ![s] = Tail(@)]
    /\ IF decoded
       THEN taken' = [taken EXCEPT ![s] = Append(@, Head(queue[s]))] /\ UNCHANGED missed
       ELSE missed' = [missed EXCEPT ![s] = @ \cup {Head(queue[s])}] /\ UNCHANGED taken

\* rmw_take, rmw_take_with_info.  With an empty queue that is an error, and nothing changes.
RmwTake(s, decoded) ==
    /\ call[s].ret # "running" /\ Created(s)
    /\ TakeOne(s, decoded)
    /\ UNCHANGED <<entity, nextId, seq, thread, link, call>>

\* rmw_take_sequence, up to its loop.
TakeSequence(s, count) ==
    /\ call[s].ret # "running" /\ Created(s)
    /\ call' = [call EXCEPT ![s] = [want |-> count, have |-> 0, ret |-> "running",
                                    first |-> Len(taken[s])]]
    /\ UNCHANGED <<entity, nextId, seq, thread, link, queue, taken, missed>>

\* Variant used by no specification: what could not be deserialized is counted.
TakeNextCounted(s, decoded) ==
    /\ call[s].ret = "running"
    /\ TakeOne(s, decoded)
    /\ call' = [call EXCEPT ![s].have = @ + 1,
                            ![s].ret = IF call[s].have + 1 = call[s].want THEN "ok" ELSE @]
    /\ UNCHANGED <<entity, nextId, seq, thread, link>>

\* A turn of the loop with a message.  Between turns the handler may add more.
TakeNext(s, decoded) ==
    /\ call[s].ret = "running"
    /\ TakeOne(s, decoded)
    /\ call' = IF decoded
               THEN [call EXCEPT ![s].have = @ + 1,
                                 ![s].ret = IF call[s].have + 1 = call[s].want THEN "ok" ELSE @]
               ELSE [call EXCEPT ![s].ret = "error"]
    /\ UNCHANGED <<entity, nextId, seq, thread, link>>

\* A turn with an empty queue, which ends the call with an error.
TakeNothing(s) ==
    /\ call[s].ret = "running" /\ queue[s] = <<>>
    /\ call' = [call EXCEPT ![s].ret = "error"]
    /\ UNCHANGED <<entity, nextId, seq, thread, link, queue, taken, missed>>

-----------------------------------------------------------------------------

ReadTask(s) == \E p \in Publishers : Handler(s, p)
Taker(s) == TakeNothing(s) \/ \E decoded \in BOOLEAN : RmwTake(s, decoded) \/ TakeNext(s, decoded)

Next ==
    \/ \E e \in Endpoints : \E topic \in Topics[e] : Create(e, topic) \/ CreateService(e, topic)
    \/ \E t \in Threads : \/ \E p \in Publishers : Serialize(t, p)
                          \/ TakeNumber(t)
                          \/ \E reached \in SUBSET Subscriptions : Put(t, reached)
    \/ \E s \in Subscriptions : \/ ReadTask(s) \/ Taker(s)
                                \/ \E count \in 1..CountMax : TakeSequence(s, count)

Spec == Init /\ [][Next]_vars

\* zenoh's read task goes on, and so does an executor that finds its subscription ready.
FairSpec == Spec /\ \A s \in Subscriptions : WF_vars(ReadTask(s)) /\ WF_vars(Taker(s))

-----------------------------------------------------------------------------
(* Properties.                                                             *)

\* Every number a publisher used is, for each subscription, in exactly one place: with the
\* thread that publishes it, in the network, in the queue, taken, or missed; whichever
\* allocation, put or deserialization failed (zenoh_pico_rosMessage.c:477, rmw_take.c:26).
EverySampleIsSomewhere ==
    \A s \in Subscriptions, p \in Publishers : \A n \in 1..seq[p] :
        Cardinality({t \in Threads : thread[t] = [at |-> "numbered", pub |-> p, number |-> n]})
        + Cardinality({i \in DOMAIN link[s][p] : link[s][p][i] = n})
        + Cardinality({i \in DOMAIN queue[s] : queue[s][i] = Sent(p, n)})
        + Cardinality({i \in DOMAIN taken[s] : taken[s][i] = Sent(p, n)})
        + Cardinality({Sent(p, n)} \cap missed[s]) = 1

\* Keys that fit their buffer meet exactly when the endpoints have one domain, one version of
\* one type and names that differ in slashes at their ends at most; a subscription with such a
\* key takes from a publisher only of these, although the keys of others are cut where the
\* buffer ends (zenoh_pico_topicInfo.c:115).
OnlySameTopics ==
    LET what(e) == <<Node[e].domain, entity[e].topic.name.parts, entity[e].topic.type>>
        whole == {e \in Endpoints : Created(e) /\ Whole(e)}
        keys == {<<KeyOf(e), what(e)>> : e \in whole}
    IN /\ \A x, y \in keys : x[1] = y[1] <=> x[2] = y[2]
       /\ \A s \in Subscriptions \cap whole : \A i \in DOMAIN taken[s] :
              what(taken[s][i].from) = what(s)

\* The key of a topic has the format that the comment at zenoh_pico_topicInfo.c:120 gives, type
\* and hash included, so that no subscription takes a message of another type than its own.
TypesStayApart ==
    \A s \in Subscriptions : \A i \in DOMAIN taken[s] :
        entity[taken[s][i].from].topic.type = entity[s].topic.type

\* No two entities have the same liveliness token, also when names are so long that the key
\* is cut off (zenoh_pico_liveliness.c:149): the graph would take them for one.
TokensAreDistinct ==
    LET created == {e \in Endpoints : Created(e)}
        tokens == {TokenOf(e) : e \in created}
    IN /\ Cardinality(tokens) = Cardinality(created)
       /\ \A e \in created : NodeToken(Node[e], 0) \notin tokens

\* rmw_take_sequence reports in its sizes exactly the messages it handed out since it began,
\* and takes none beyond the count: it goes on, or fails, only with fewer (rmw_take.c:149-176).
SequenceReports ==
    \A s \in Subscriptions : call[s].ret # "none" =>
        /\ call[s].ret # "ok" => call[s].have < call[s].want
        /\ call[s].have <= call[s].want
        /\ call[s].ret = "running" => Len(taken[s]) = call[s].first + call[s].have
        /\ Len(taken[s]) >= call[s].first + call[s].have

\* "No error, but there was nothing left to be taken, so break out of the loop" (rmw_take.c:166):
\* an empty queue does not make rmw_take_sequence fail.
NothingLeftIsNoError ==
    [][\A s \in Subscriptions : queue[s] = <<>> /\ call[s].ret = "running"
                                => call'[s].ret # "error"]_vars

\* Publishing and taking implement a channel that may lose samples but neither reorders nor
\* repeats nor makes up those of a publisher, with any number of threads that publish.
Channel == INSTANCE TopicChannel WITH published <- seq
IsTopicChannel == Channel!Spec

\* What zenoh has accepted is taken or given up in the end.
SentIsSettled ==
    \A s \in Subscriptions, p \in Publishers : \A n \in 1..NumberMax :
        (\E i \in DOMAIN link[s][p] : link[s][p][i] = n)
        ~> (Sent(p, n) \in missed[s] \/ \E i \in DOMAIN taken[s] : taken[s][i] = Sent(p, n))

=============================================================================
