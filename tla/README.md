# TLA+ verification of rmw_zenoh_pico

`rmw_zenoh_pico` is a ROS 2 middleware layer (RMW) in C on top of zenoh-pico, for
micro-ROS. An executor (rclc) calls it from one thread; zenoh-pico's read task calls it
back from another when a sample, a query or a reply comes in. What lies between the two,
message queues, a wait set, guard conditions, request and response bookkeeping, callbacks
and reference counts under a dozen mutexes, is what these modules are about. All paths
below are relative to `src/rmw_zenoh_pico/` unless they say otherwise.

## 1. Inventory

| component | state it keeps | operations | interacts with |
|---|---|---|---|
| message queues, `src/zenoh_pico/zenoh_pico_rosMessage.c` | `que_top`, `que_bottom`, `count`, `next` of each message, a mutex per list | `recv_msg_list_append`, `_pop`, `_pickup`, `_count`, `_empty`, `_destroy` (never called) | filled by handlers, emptied by `rmw_take*`, searched by `rmw_send_response`, counted by `rmw_wait` |
| wait sets, `src/rmw_wait.c`, `src/zenoh_pico/zenoh_pico_condition.c` | `triggered`, a mutex and a condition variable per wait set; `wait_set_data` and a mutex per entity | `rmw_wait`, `rmw_create_wait_set`, `rmw_destroy_wait_set`, attach, detach, `zenoh_pico_condition_trigger` | reads the queues and the guard conditions; triggered by the handlers |
| guard conditions, `src/rmw_guard_condition.c` | `triggered`, `wait_set_data`, a mutex | create, destroy, `rmw_trigger_guard_condition`, attach, detach | wait sets |
| new-data callbacks, `src/rmw_event.c` | `callback`, `user_data`, `unread_count`, a mutex per subscription, service and client | `data_callback_set`, `data_callback_trigger` | triggered by handlers between queueing and waking |
| events, `src/rmw_event.c` | status counters per event type | `rmw_*_event_init`, `rmw_take_event` | none reachable: `support_event_type` refuses every type |
| services, `src/rmw_service.c` | `request_queue`, `response_queue`, attachment, queryable, token | create, destroy, `request_handler`, `rmw_take_request`, `rmw_send_response` | clients, through zenoh queries |
| clients, `src/rmw_client.c` | the same structure; `sequence_num` of the attachment; its own queryable | create, destroy, `rmw_send_request`, `_reply_handler`, `rmw_take_response` | services |
| attachments, `src/zenoh_pico/zenoh_pico_attach.c` | sequence number, time stamp, gid | encode, decode, generate | ride on every sample, query and reply |
| subscriptions, `src/rmw_subscription.c`, `src/rmw_take.c` | `message_queue`, subscriber, token | create, destroy, `_subscription_data_handler`, `rmw_take*` | publishers, wait sets |
| publishers, `src/rmw_publisher.c` | attachment with the sequence number | create, destroy, `rmw_publish*` | subscriptions |
| nodes, `src/rmw_node.c` | token, session, reference count | create, destroy, graph guard condition | own every entity |
| reference counts, `src/zenoh_pico/zenoh_pico_data.c` | `ref`, a mutex per object | `ZenohPicoDataRefClone`, `ZenohPicoDataRefDec`, `ZenohPicoDataDestroy` | every object above |
| entities, node and topic information, `src/zenoh_pico/zenoh_pico_{entity,nodeInfo,topicInfo}.c` | cloned strings, reference counts | generate, clone, destroy | nodes and endpoints |
| session, `src/zenoh_pico/zenoh_pico_session.c` | zenoh session, configuration, graph guard condition | generate, connect with retries, destroy | `rmw_init`, nodes |
| initialization and shutdown, `src/rmw_init.c` | context, options | `rmw_init_options_*`, `rmw_init`, `rmw_shutdown`, `rmw_context_fini` | session |
| liveliness tokens, key expressions, gids | none | name mangling, token and topic keys | every create |
| names, type support, serialization | none | string handling, calls of generated CDR code | publish, take |
| example applications, `src/examples/microros/app` | one node, one endpoint each | init, spin, fini in one order, `RCCHECK` | everything, through rclc and rcl |
| stubs and getters, xxhash | none | return a constant; vendored | |

What is hard, and what makes each part correct:

* **Waiting.** A handler queues a message under one mutex and wakes under two others;
  `rmw_wait` looks at the queue under a third order of them. Correct: no wakeup is lost, a
  message that is already there never makes `rmw_wait` block, what it returns is ready,
  and nobody touches a wait set that was destroyed.
* **Queues.** Four operations change two ends, links and a count; one walks the list.
  Correct: the pointers and the count always describe one sequence, operations take effect
  in the order of a queue, the walk never stands on a message that left.
* **Requests.** A request moves through two queues, its key is weaker than its identity,
  decoding may fail in the middle. Correct: at most one reply per request, order of
  arrival is kept, a response finds its request.
* **Callbacks.** Set and triggered from different threads. Correct: a replaced callback
  is quiet, no trigger is lost or counted twice.
* **Lifecycles.** Creation and destruction are long sequences with many failure exits and
  shared, counted objects, while callbacks run. Correct: nothing is freed twice, used when
  freed or leaked, and what the graph shows exists.
* **Session.** Static settings, options, contexts and one shared session, used in any order
  of calls; connecting retries over an interface that takes its arguments away. Correct: the
  session is counted, its flag is true, it is opened as configured and closed once.
* **Publishing.** Several threads share a publisher; samples get lost at several places.
  Correct: what a subscription takes was published, is in order, and comes once.
* **Keys.** Names are mangled, numbers are printed as `int`, and both are cut where a buffer ends.
  Correct: endpoints meet exactly when their topics are the same, and tokens tell all entities apart.

`PROJECT.json` lists the hazards line by line, with the properties that cover each one.

## 2. Plan

In order of importance. "Done" is in this directory.

| | module(s) | content | runs | theorems |
|---|---|---|---|---|
| A | `WaitSet` | `rmw_wait` and everything that wakes it | one run (2 threads, 3 entities), safety and liveness | all safety properties: done |
| B | `RecvMsgList` over `MsgQueue` | the linked list implements a queue with removal of the first match | one run, refinement included | pointers, scan, refinement: done |
| C | `ServiceRpc` over `RpcCalls` | requests and responses end to end | two runs | all invariants, refinement: done |
| D | `DataEvent` | new-data callbacks | two runs | all invariants: done |
| E | `EntityLife` | reference counts; creation and destruction of nodes, publishers, subscriptions, services, clients with every failure exit; handlers and replies that come late | one run | all its invariants and the type invariant: done |
| E' | `ExampleApps` over `EntityLife` | the four example programs | one run, a violation | none |
| F | `InitSession` | settings, options, `rmw_init`, connecting, retries, shutdown | one run | all its invariants and the type invariant: done. `OpenUntilLastRelease`: done |
| G | `PubSub` over `TopicChannel` | `rmw_publish`, the handler, `rmw_take`, `rmw_take_sequence` | two runs, refinement and liveness included | all invariants, refinement: done |
| H | `KeyExpr`, used by `PubSub` | topic keys, gids and liveliness tokens as operators, with the sizes of their buffers | with G, and one with long names | with G |

Every invariant, action property and refinement that a run checks and finds to hold is proved;
what the runs alone show is liveness.

`WaitSet` takes the length of the queues only; that a queue's length, contents and
pointers agree is `RecvMsgList`. `ServiceRpc` and `PubSub` use sequences with atomic
operations; that they may be taken so is `IsMsgQueue`, which `ListsAreQueues` proves. `EntityLife` counts messages and
shared objects; `ExampleApps` composes it with the programs.

## 3. The modules

### WaitSet

One executor thread and any number of handler threads; entities are guard conditions,
subscriptions, services and clients.

| variable | code |
|---|---|
| `queue[e]` | `count` of `message_queue`, `request_queue` or `response_queue` |
| `unread[e]` | `data_callback_mgr.unread_count` |
| `guardTriggered[g]` | `ZenohPicoGuardConditionData.triggered` |
| `attached` | the entities whose `wait_set_data` is the wait set |
| `triggered`, `alive` | `ZenohPicoWaitSetData.triggered`; whether it is allocated |
| `pc`, `target` | where a handler thread is, and for which entity |
| `wpc`, `mode`, `todo`, `entries` | where `rmw_wait` is, its timeout, what its loop still visits, the array entries not NULL |
| `backlog` | history: the entries that had a message at the call |

A handler is `AppendMessage`, `DataCallback`, `ConditionTrigger`, `ConditionSignal`: one
step per critical section. `zenoh_pico_condition_trigger` keeps the entity's condition
mutex while it waits for the wait set's, so it is two steps and `CondFree` guards
everybody else who takes that mutex. `rmw_trigger_guard_condition` is `GuardTrigger` and
`GuardFlag`; it sets the flag without signalling, as the code does. `rmw_wait` is
`WaitCall`, then `CheckAndAttach` per entity in the order of the code's loops, one of
`WaitForever` (a loop), `WaitTimed` (one wait, which does not look at the flag first) and
`Poll`, then `Detach` per entity. A ready entity ends the first loop, skips the wait and
leaves the flag as it is. `Timeout` and `SpuriousWakeUp` are the ways out of a wait that
no signal explains. `Take` stands for the three `rmw_take*`; `DestroyWaitSet` and
`CreateWaitSet` happen between calls, and handlers may be anywhere.

`StrayRequest` is a request that zenoh takes to a client's queryable: it is queued where
`rmw_wait` does not look, but triggers. `ReplaceGuard` is a guard condition destroyed and
made again between calls.

Facts of the code that the model keeps because they are easy to overlook: the flag of a
guard condition is never reset by a wait; a wait with a timeout may sleep although a trigger came
between the attach and the lock; the order of guard conditions before subscriptions
before services before clients decides what stays attached when the wait is skipped.

### MsgQueue and RecvMsgList

`MsgQueue` is the promise: per list a sequence of items, append at the end, take the
first, take the first with a given key. `RecvMsgList` is the code: `top`, `bottom`,
`count`, `next`. `AppendMsg`, `Pop` are one step each under the list's mutex; pickup is
`PickupFirst` and then one `PickupNext` per message, keeping the mutex (`Unlocked`). A
message is in one list at most, but moves between lists, as requests do, so stale `next`
pointers would show. `order` is a history variable no guard of the code reads.
`recv_msg_list_destroy` is left out because nothing calls it. The refinement mapping is
`queue <- Items`, from `order` and the keys; `returned` maps to itself.

### RpcCalls and ServiceRpc

`RpcCalls` is what callers are promised: a request is replied to at most once and only
while open; it may be dropped. `ServiceRpc` has the clients' `SendRequest`,
`ReplyHandler`, `TakeResponse` and the service's `RequestHandler`, `TakeRequest`,
`SendResponse`. The boolean `ok` of an action is whether the fallible step in the middle
(allocation, attachment, decoding, encoding) succeeds; each action says what is left
behind when it does not. A request is `[client, seq]` for the histories, but the code sees
`Key(r)`, its number: the gid in the attachment is a hash of the topic key, the same for
every client of a service (`zenoh_pico_generate_service_data`, `src/rmw_service.c:130-134`).
Each client also declares a queryable of the same key, so zenoh may take a copy of a
query to other clients: `StrayRequestHandler`. zenoh is external: a query or a reply may
be lost or overtaken, and neither is duplicated.

What a program may rely on is `ResponsesArrive`. `rmw_send_response` takes the first message of
the header's number, whichever client it is from. A response then goes astray only if the program
has held two requests of one number at once (`together`, a history), or if one of that number that it
does not hold is in `response_queue`: one that could not be decoded, which
`rmw_take_request` queues all the same, or its fellow after the two were exchanged.

### DataEvent

One `DataEventManager`: `Trigger` and `Called` are `data_callback_trigger` before and
after the program's callback runs (under the mutex), `Set` is `data_callback_set`. The
call of a NULL callback is `faulted`, after which nothing is claimed.

### EntityLife and ExampleApps

One application thread creates and destroys, zenoh's read task runs callbacks beside it.

| variable | code |
|---|---|
| `handle` | nodes whose `rmw_node_t` the application has |
| `mem[n]` | `ref` of `ZenohPicoNodeData` and of `ZenohPicoNodeInfo`, the token, and whether a freed one was used (`ok`) |
| `life[e]`, `owner[e]` | where an endpoint's data is between creation and destruction; `data->node` |
| `declared`, `announced` | the subscriber, publisher or queryable, and the token |
| `queue[e]`, `queries[e]`, `running` | messages queued, open `z_get`, the callback that runs |
| `broken` | an endpoint's freed data or an indeterminate pointer was used |
| `clones`, `surplus`, `doubled`, `lost`, `slips` | history: what error paths and destructions miscounted, and by which kind of step |

Creation is two steps, `Declare` (all of `zenoh_pico_generate_*_data` and the declaration)
and `FinishCreate` (the token), because callbacks may run from the first on; destruction is
`Undeclare` and `Destroy*Data`. Every exit of the creation functions is an action of its own:
`GenerateFailsEarly` and `GenerateFailsLate` (before and after there is an entity), for
services `ServiceGenerateFailsEarly`, `CreateFails`, `TokenFails`, and `CreateNodeFails` by
stage. A service and a client take no reference to their node and give one back
(`src/rmw_service.c:74-80` and `:168`): `GiveReferences` is the same for all, `CloneNode` is not.
`slips` names the steps after which C gives no guarantee; the model goes on until a freed
object is used (`Sound` is false) and ends there.

zenoh is external: undeclaring does not wait for a callback that runs, and a query stays
open until it is answered. An entity and its topic information have one holder and are
not counted apart.

`ExampleApps` adds a program counter, `rest`, the calls a program has still to make: each
step is a call's actions of `EntityLife`, `Failed` is `RCCHECK`. rclc and rcl are taken to call
the rmw function of the same name and to create no endpoint of their own on the node.

### InitSession

| variable | code |
|---|---|
| `setting` | the static mode and addresses that the `rmw_zenoh_pico_set_*` functions change |
| `options[o]` | `implementation_identifier` and `impl` of `rmw_init_options_t` |
| `params` | the `ZenohPicoTransportParams` that are allocated, with what they say |
| `context[c]` | the same of `rmw_context_t` |
| `session` | the static `_zenohSession`: `ref`, `config`, `enable_session`, and what zenoh has it open with |
| `sound`, `chosen`, `abandoned`, `slips` | undefined behaviour; history |

The options' lives are `OptionsInit`, `OptionsCopy`, `OptionsFini`, `OptionsZero`; a context's are
`RmwInit`, `Shutdown`, `ContextFini`, `Abandon` (an initialized context is zeroed and
initialized again, as the talker does at `main.c:82-108`); `Connect` is `session_connect`, which
the first `rmw_create_node` calls and a later one repeats after an error. `z_open` moves the
configuration away also when it fails, so that the retry has none: it may fail or open with
zenoh's default. Two slips are known: `rmw_init_options_copy` that fails between the copy of
the structure and that of the parameters, and the last release, which frees the graph
guard condition of the session although that pointer is the address of a function
(`src/zenoh_pico/zenoh_pico_session.c:46`). Modes and addresses are all a configuration says here.

### PubSub, TopicChannel and KeyExpr

`TopicChannel` is the promise: a subscription takes samples that were published, those of one
publisher in order and each once. `PubSub` is the code: `Serialize`, `TakeNumber` (the lock and
`attachment_sequence_num_inc`) and `Put` (`z_publisher_put` and the unlock) of
`rmw_zenoh_pico_publish` in any number of threads; `Handler`; `RmwTake`, and
`TakeSequence` with `TakeNext` and `TakeNothing`, a step for each turn of its loop. Each has
its failure: no memory, an attachment that cannot be made or read, a put that fails or is
dropped by congestion (not when the publisher is reliable and keeps all), a message that
cannot be deserialized. `missed` and `taken` are histories. zenoh keeps the samples of a
publisher in order (`link`) and routes by key: `Matching`.

Endpoints are created with a topic and take the next id of their session (`Generate`). Their keys are
operators of `KeyExpr`: `TopicKey`, `Gid`, `NodeToken`, `Token`, made from names, types,
numbers and the fixed QoS the code uses, with the cuts of its buffers. A text is what it says
and its length, since that is all that the properties tell apart; what is left of a text that is
cut is taken to say nothing, which is the worst case for telling tokens apart; for topic keys, where it
could make keys meet that in truth differ behind the cut, `long_names` uses two types that begin alike. The hash behind
the gid is taken to be free of collisions.

`TopicKey` has the buffer of `ros_topic_name_to_zenoh_key`: `Ahead` is what stands in front of the
type, `Room` what is left for it, and `TypeInKey` loses the hash, or type and hash, where they do
not fit, since nothing looks at the results of `snprintf`. `OnlySameTopics` is about endpoints
whose keys fit (`Whole`), and says that no cut key reaches their subscriptions; what becomes of the
others is finding 4. `left_size` may also become negative, and the next part is then written
behind the buffer: that is undefined and not in the model. `RoomAssumption` excludes it, which
holds for the names that rcl admits (up to 247 characters) and domains of up to eight digits, but is
nothing the code itself sees to. `AsInt` is the conversion of a `size_t` for printing
(`src/zenoh_pico/zenoh_pico_liveliness.c:73`, `:222`).

## 4. The runs

| run | bounds | properties | what it shows |
|---|---|---|---|
| `wait_set` | guard condition, subscription, client; 2 handler threads; queue up to 2 | `TypeOK`, `NoLostWakeup`, `OnlyGuardsLeaveSleepers`, `NeverBlocksOnBacklog`, `NoUseAfterDestroy`, `ReturnsWhatIsReady`, `MessageEndsWait` | safety of waiting, that it never deadlocks, and that a message for an entity of a running `rmw_wait` ends that call |
| `recv_msg_list` | 2 lists, 3 messages, 2 keys | `TypeOK`, `ListLinked`, `ScanSound`, `IsMsgQueue`, `PickupEnds` | the list is a queue with removal of the first match |
| `service_rpc` | 2 clients, 2 requests each, 3 in all; the program holds up to 2 | `TypeOK`, `HeldAreKept`, `ResponsesArrive`, `ArrivalOrder`, `IsRpcCalls` | at most one reply each; what has to happen before a response goes astray |
| `service_responds_twice` | the same; the program may respond again | `UnknownIsRefused` is violated | finding 1 below |
| `data_event` | 3 threads, 2 callbacks, 9 triggers, count modulo 4 | `TypeOK`, `OnlyTheSetCallbackRuns`, `TriggersAreAccounted`, `NothingUnreadWithCallback` | callbacks and counts, the wrap of the count included |
| `data_event_unread` | the same | `UnreadIsHandedOver` is violated | finding 2 below |
| `entity_life` | 2 nodes; a publisher, a subscription, a client; a message per queue, an open query, a failure | `ReferencesAreCounted`, `UndefinedOnlyAfterSlip`, `CallbacksHaveContext`, `TokensFollowData`, `AllGivenBack` | which exits miscount the shared objects; that without one of them nothing freed is used and nothing is left |
| `examples` | 1 node, the four programs | `NodeFiniFindsItsNode` is violated | finding 3 below |
| `init_session` | 2 options objects, 2 contexts, 2 parameters, 3 addresses (one too long), unicast, 1 overwritten context | `ContextsAreCounted`, `EnabledIsOpen`, `OpensAsFirstConfigured`, `ParamsHaveOneOwner`, `UndefinedOnlyAfterSlip`, `OpenUntilLastRelease` | the session is counted and opened as first configured; the two ways to undefined behaviour |
| `pub_sub` | 2 publishers, 2 threads, a subscription, a service, a client; 2 numbers each; sequences up to 2; five topics | `EverySampleIsSomewhere`, `OnlySameTopics`, `TokensAreDistinct`, `SequenceReports`, `IsTopicChannel`, `SentIsSettled` | no sample is repeated, reordered, made up or vanishes uncounted; keys and tokens keep endpoints apart |
| `long_names` | a publisher and a subscription with one name of 247 characters and two types | `TypesStayApart` is violated | finding 4 below |
| `take_empty` | a publisher and a subscription, one number | `NothingLeftIsNoError` is violated | finding 5 below |

Why the bounds are enough. In `WaitSet` an entity's handlers meet only in that entity's
condition mutex and in the wait set's: two threads give two handlers of one entity, and
handlers of two; three entities of different rank give a loop with something before and
after the entity that ends it; a queue of two distinguishes "became empty" from "was
taken from"; a service would be one more client without stray requests;
`unread` is kept modulo 1, since nothing in `WaitSet` reads it (its wrap is checked in
`DataEvent`); the mode, the set of entities, and so the position at which a loop ends, are
chosen anew by each call. The proofs below remove these bounds for safety. In
`RecvMsgList` three messages are the first, the last and one between, two lists are those
of a service, two keys are match and no match. In `ServiceRpc` two clients with one
number in common and one of them with a second number make the collisions and the orders
there are; `RequestMax` 3 keeps the run short. `DataEvent`: the count wraps twice within nine
triggers. `CHECK_DEADLOCK FALSE` is set where a bounded number of requests or triggers
ends the behaviour, or a fault does (`entity_life`, `init_session`, `examples`); the others are
checked for deadlock. In `EntityLife` two nodes show what one node's failures do to another,
and three endpoints are the two that count their node and one that does not (a service
differs from a client by its queries only, which the run has). One endpoint
keeps a node alive after `rmw_destroy_node`; two can each give up the last reference. One failure at any exit, followed by
anything, shows what each exit leaves behind; the proofs allow any number. In `InitSession` the
two options are a source and its copy, each with session parameters of its own, and the
two contexts are one that is initialized and one that is next. In `PubSub` two numbers can be swapped, repeated or lost, one
publisher never drops and the other may, and `p2` may be created under the other
name of the topic, under a topic whose name has more parts, with another version of the
type, or with a type one character longer, whose hash is cut; lengths are chosen so that the key of the first topic
just fits its buffer, and so that tokens exceed `KeyMax` and are cut. Sizes are those of the build:
`KeyMax` is 256 less the two that a token may not use, `IntMax` is that of 32 bits.

Symmetry (of threads, clients, nodes, options, contexts, parameters) is used in runs without
liveness only, so not in `wait_set`.

### Fairness

`WaitSet!FairSpec` has weak fairness for every handler that has begun: the read task is a
thread that the system schedules, and each of its steps takes a mutex whose holder goes
on. The executor has strong fairness, since `rmw_trigger_guard_condition` may take and
release a guard condition's mutex again and again and weak fairness would let it miss
every gap; the mutexes of the supported systems do not starve a waiter for ever. The
timeout of a timed wait is part of it: the clock advances. Nothing makes a message
arrive, a guard condition trigger, a wakeup be spurious or `rmw_wait` be called.
`RecvMsgList!FairSpec` has weak fairness for `PickupNext`, the loop of one thread that
holds the mutex it needs. `PubSub!FairSpec` has weak fairness for zenoh's read task, which runs
the handlers of what has arrived, and for the taker: an executor whose `rmw_wait` returns a
subscription takes from it, and a call of `rmw_take_sequence` goes on. Nothing makes the
program publish, nor zenoh deliver what `z_publisher_put` has not accepted.

### Findings

1. `rmw_send_response` checks the message it picked up with
   `RMW_CHECK_FOR_NULL_WITH_MSG(msg_data, ..., RMW_RET_INVALID_ARGUMENT)`
   (`src/rmw_service.c:570`). The third argument of that macro is a statement; without
   `return` it does nothing, and the call goes on with a NULL message. `HeldAreKept`
   shows, and `OneResponseIsSafe` proves, that a program that responds once to each
   request it took never gets there;
   `service_responds_twice` shows that one that responds twice does.
2. `data_callback_set` hands unread triggers to the callback that is still registered
   (`src/rmw_event.c:311`). `NothingUnreadWithCallback`, proved, says that this callback is
   NULL whenever there is something unread, so the call goes to NULL, whereas
   `include/rmw_zenoh_pico/rmw_zenoh_pico_event.h:65` describes the count as the triggers
   made before the callback was set, to be passed on.
3. A service or client keeps its node without `RefClone` but releases it
   (`src/rmw_service.c:168`). All four examples destroy their endpoint and then their node;
   `examples` shows the server doing so: `rcl_service_fini` frees the data of the node, and
   `rcl_node_fini`, the next line (`src/examples/microros/app/server/main.c:134-135`), uses it.
   `EntityLife` has the step as the slip `serviceGone`.
4. The comment at `src/zenoh_pico/zenoh_pico_topicInfo.c:120` gives the format of a topic key,
   `<ros_domain_id>/<topic_name>/<topic_type>/<topic_hash>`. It is written into 256 characters, and
   nothing notices when it is cut. A name of the 247 characters that rcl allows leaves six for the
   type: in `long_names` a subscription of `String` takes what a publisher of `WString`
   sends. `OnlyOneTopicMeets` proves that keys that fit are neither mistaken for one another nor met by one that is cut.
5. `rmw_take_sequence` has a branch with the comment "No error, but there was nothing left to be
   taken" (`src/rmw_take.c:166`). It is never reached with an empty queue, since
   `rmw_zenoh_pico_take_one` answers that with `RMW_RET_ERROR` (line 29): `take_empty` shows the
   call failing. `SequenceReports`, which is proved, says nothing about the value that is returned then, only
   that what was handed out is reported.

## 5. What is proved

| theorem | says, for every value of the constants |
|---|---|
| `WaitSetProofs!TypeCorrect`, `NoWakeupIsLost`, `SleepersAreLeftByGuards`, `BacklogSkipsTheWait`, `WaitSetOutlivesItsTriggers`, `ReturnIsSound` | all safety properties of `wait_set` |
| `RecvMsgListProofs!TypeCorrect`, `ListsAreLinked`, `PickupsAreSound`, `ListsAreQueues`, `SearchesMoveOn` | the invariants of `recv_msg_list`; the list implements `MsgQueue`; a search goes on to the next message with each round |
| `ServiceRpcProofs!TypeCorrect`, `HeldRequestsAreKept`, `OneResponseIsSafe`, `StraysAreExplained`, `PromptResponsesAreRight`, `ArrivalOrderIsKept`, `CallsAreAnsweredOnce` | the invariants of `service_rpc`; that a program that responds once never reaches the NULL message of finding 1; that responses of one that responds before it takes the next request arrive where they belong, but for requests of the number that could not be decoded; services and clients implement `RpcCalls` |
| `DataEventProofs!TypeCorrect`, `ReplacedCallbacksAreQuiet`, `UnreadOnlyWithoutCallback`, `NoTriggerIsLost` | the invariants of `data_event` |
| `EntityLifeProofs!TypeCorrect`, `CountsAreReferences`, `SoundWithoutSlip`, `ContextsLive`, `TokensAreTrue`, `NothingIsLeft` | types and all invariants of `entity_life` |
| `InitSessionProofs!TypeCorrect`, `SessionIsCounted`, `FlagIsTrue`, `FirstConfigurationWins`, `ParamsAreOwned`, `SoundWithoutSlip`, `OthersKeepItOpen` | types and all properties of `init_session` |
| `PubSubProofs!TypeCorrect`, `SequencesAreReported`, `NoSampleIsLost`, `PublishingIsAChannel`, `OnlyOneTopicMeets`, `TokensTellEntities` | types and all invariants of `pub_sub`; publishing and taking implement `TopicChannel` |

**Assumptions**: `EntityAssumption` (the entities are finitely many, guard conditions have
no queue, and the value for "nobody" is none of them), `BoundAssumption`,
`NullAssumption`, `NoneAssumption`, `CountAssumption`, `EndpointAssumption` (each endpoint has one
kind; they are finitely many), `NoOneAssumption`, `TransportAssumption`, `AddressAssumption`,
`SetsAssumption` (contexts are finitely many), `DisjointAssumption`, `WidthAssumption`, and five
on names and numbers; nothing else. The five are: `NameAssumption`, a topic has a name, a
sequence of words that is not empty, and a type; `RoomAssumption`, a topic key is not written past its buffer (see
`KeyExpr` above; no proof uses it, it says which names the model of the key is right for);
`IntAssumption`, domains and the ids of a session's entities fit an `int`, since they are printed as
such and two that differ by 2^32 would look alike; `HashAssumption`, two types of one RIHS01 hash are one type, since
the hash is a SHA-256 of the type's description, its name included, and no hash is what a cut
leaves; `HeadAssumption`, endpoints are
finitely many and the first five fields of a token fit its buffer. The code justifies the last:
the prefix has 8 characters, the domain, node id and entity id are printed as `int` (at most 11
characters each), a zid has at most 32, and there are four slashes, 77 characters in a buffer of more
than three times as many. TLC evaluates all of them on the instances of the runs.

**WaitSet.** The invariants speak of a thread that sleeps. They are not inductive: whether
a sleeper is safe was decided when it attached. `IInv` adds

* `PhaseInv`: which entities are attached in each phase (those visited; all; at most those
  not yet detached; none),
* `ThreadInv`: a thread that holds a condition mutex found its entity attached, and it
  still is, since `Detach` needs that mutex. With `PhaseInv` this is `NoUseAfterDestroy`:
  the wait set is destroyed only outside `rmw_wait`, when nothing is attached,
* `FlagInv`: for every attached entity with a message, the wait set is flagged or the
  handler is still on its way. This is `NoLostWakeup` before the sleep,
* `BacklogInv`: an entity with a message at the call is never attached by the first loop,
* `DetachInv`: what the second loop left in the arrays is ready, and stays ready, since
  only the executor takes messages. This gives `ReturnsWhatIsReady`.

**RecvMsgList.** `ListLinked` needs `Unshared`: a message is in at most one list and at
one place. Without it the link that one list changes could belong to another. The lemmas
on `RemoveAt` (in `SeqRemoval`) and `Without` say how the sequence closes its gap, one lemma per operation
(`AppendStep`, `UnlinkTopStep`, `UnlinkNextStep`, ...) follows the pointers, and `StepInv`
collects them. For the refinement, the steps of a pickup that
have not found a match yet stutter, and the one that ends it takes the first match of `MsgQueue`,
or finds that there is none, because `ScanSound` says that
nothing before the scan matches; `WantedIsKnown` says that what is looked for is a key while a scan
runs. `SearchesMoveOn` is what `PickupEnds` rests on besides fairness: each round stands on the next
message and nobody moves the end of the list away meanwhile.

**ServiceRpc.** `HeldAreKept` counts: for every number, the program holds at most as many
requests as `response_queue` has messages of it. It is inductive given finiteness:
`rmw_take_request` adds one message and at most one held request of its number, and
`rmw_send_response` takes away one of each, whichever client they are of. `SeqRemoval`
counts the places of a sequence after an append and a removal, by a bijection that closes
the gap. That the NULL message is never used by a program that responds once
(`UnknownIsRefused`) follows, and is part of `IInv` because `SendResponse` stops at a fault.
`ArrivalOrder` is strengthened to `OrderInv`: what waits also has arrived. The two queues,
one after the other, do not change when `rmw_take_request` moves a message across
(`MoveAcross`), and lose one element when a response takes it (`RemovalInFront`).
The refinement needs that each request is in one place (`PlaceInv`): on its way to the service or
in one of the queues (`OpenOnce`), with at most one reply (`RepliedOnce`), and never both
(`Apart`); otherwise a request that leaves one place would still be open in another, and the step
`ResponsesArrive` is inductive with `ArriveInv`, which counts on: as long as a number is not in
`together`, the program holds at most one request of it, and that one is in `response_queue`; when
the first match is another message, the held one stays behind and is the one to point at from then
on. With `HoldMax` 1 nothing ever is in `together`, which gives `PromptResponsesAreRight`.

**DataEvent.** The callback in progress is the registered one because the mutex is held
while it runs; unread is zero with a callback because only `Trigger` raises it, and only
without one. `TriggersAreAccounted` is a statement modulo the width of the count, which is not
inductive next to the others: `LostByWrapping` states it exactly, the triggers are those accounted
for and a whole number of turns of the count, and `OneCaller` that at most one thread is in a
callback, so that a trigger adds one to what is accounted for and a return moves it.

**EntityLife.** `ReferencesAreCounted` says how many, which is not inductive beside the
other parts: that an endpoint's release finds a count to take down follows from the
endpoint being among the holders counted, that a callback finds its data from what was declared
when it started. `IInv` is `TypeOK` with

* `CountInv`: the counts of every node (`NodeRefs`, the node information less the data's
  share, and the token), while the behaviour is defined; without a slip the
  corrections `surplus`, `doubled` and `clones` are zero,
* `DeclaredInv`: declared callbacks belong to endpoints being created or open (or to the
  queryable left behind), and these are all declared,
* `RunningInv`: without a slip the callback that runs and the open queries have their
  endpoint, so that `HandlerEnd` uses live data,
* `QueueInv` and `OwnerInv`.

Lemmas about `ReleaseInfo`, `ReleaseNode`, `CloneNode`, `CloneInfo`, `TakeReferences` and `GiveReferences`
say what each does to the counts; `Failure` is the one argument for all creations that fail;
`Join` and `Leave` count an endpoint in and out of its node.

**InitSession.** `ContextsAreCounted` needs that a context with the session has the identifier
(`ContextInv`: `rmw_init` refuses it, so it is not counted twice), `EnabledIsOpen` and
`OpensAsFirstConfigured` that a session nobody has is closed (`ClosedInv`), and ownership of
the parameters that what options have is allocated (`AllocInv`) and that no two have the same
(`OwnerInv`), both until a copy fails half way.

**PubSub.** `SequenceReports` is inductive with the types: between two turns of the loop only
the handler runs, which does not touch what was handed out.
The other results need to know where every number of a publisher is. `FlowInv` has three
parts: `LockInv` (one thread at most holds the publisher's mutex with a number, and that is the
newest), `OrderOf` (what a subscription took, and then what is in its queue, is in the order of each
publisher's numbers) and `FlowOf` (so is what is under way, which comes after; and every number
up to the newest one that was put is in one of these places or missed, never both). A strictly increasing
sequence has a number once, so that `FlowOf` gives the sum in `EverySampleIsSomewhere`; and what is
taken next is newer than all that was taken, which is the guard of `TopicChannel` (the newest
taken sample exists by `GreatestNumber`, well-foundedness in place of an induction).
`OnlySameTopics` needs that entities have topics of their endpoints (`TopicInv`) and that samples
travel only between endpoints with one key (`RouteInv`); `KeysTellTopics` is the fact about
`TopicKey`, first field domain, last field hash, name between, for keys that fit; and
`CutKeysMissWholeOnes` that a key that is cut is none of those, since its last field is not a hash.
`TokensAreDistinct` rests on `IdInv`: the ids of a session's entities differ, begin after its
node's and are no more than the endpoints; `FieldsAreKept` says that a buffer that takes the
first five fields keeps them, so that a token tells session and id however it is cut.

What `IInv` adds was checked by TLC on small instances before it was proved.

The type invariants of `EntityLife`, `InitSession` and `PubSub` are proved and need no run.

Only model-checked is liveness (`MessageEndsWait`, `PickupEnds`, `SentIsSettled`): TLAPS does not
reason about fairness and ENABLED (of `PickupEnds` the step that comes closer to the end is proved,
`SearchesMoveOn`). What a recursive function computes is not proved either: the
lengths of numbers and keys (`Digits`, `Length`, `QosText`) appear in the proofs only through
`HeadAssumption`, which says what is needed of them.

## 6. What is not modelled

* Events: the loop of `support_event_type` is compiled only without `EVENT_TABLE_SIZE`, which its header
  defines, so that it refuses every type, no `rmw_event_t` exists and
  the events loop of `rmw_wait` is never entered.
* The user's callback in `WaitSet` (`DataEvent` has it) and the contents of messages.
* Memory exhaustion in `rmw_wait` and in the queues; `ServiceRpc` has it where a handler
  or a call has an exit for it.
* Several executor threads: rclc has one.
* What `rmw_send_request` returns as the sequence id (the number before the increment)
  has no use in the repository to compare with.
* `recv_msg_list_destroy`, which nothing calls.
* Memory that is left behind without another effect: buffers of serialized messages, a message
  whose attachment cannot be read, a guard condition's handle on error paths.
* A topic key that is written past its buffer (`RoomAssumption` in `PubSub`).
* Reference counts taken and given by two threads at a time: `ZenohPicoDataDestroy` reads the count
  again after the mutex is released, but only the application thread holds counted objects.
* Entities and topic information with more than one holder: the code makes none.
* Sessions on several processes: `PubSub` has one session per node and no restart of a peer; what
  zenoh does when a router comes and goes is not visible to this code.
* Names, type support, serialization, getters and the vendored hash: no state, or not this
  project's logic.
