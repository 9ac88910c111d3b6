---------------------------- MODULE ExampleApps -----------------------------
(***************************************************************************)
(* The programs of src/examples/microros: each creates a node and one      *)
(* endpoint, spins, destroys the endpoint and then the node, and ends at   *)
(* the first call that fails (RCCHECK).  zenoh's read task goes on beside  *)
(* the program.  rclc and rcl are taken to call the rmw function of the    *)
(* same name and nothing else of this module.                              *)
(***************************************************************************)
EXTENDS EntityLife, Sequences

VARIABLES app,      \* the endpoint that the program creates
          rest      \* the calls it has still to make

appVars == <<app, rest>>

Talker == <<"node_init", "publisher_init", "spin", "publisher_fini", "node_fini">>
Listener == <<"node_init", "subscription_init", "spin", "subscription_fini", "node_fini">>
Server == <<"node_init", "service_init", "spin", "service_fini", "node_fini">>
Client == <<"node_init", "client_init", "spin", "client_fini", "node_fini">>

Program(e) == CASE Kind[e] = "Publisher" -> Talker
                [] Kind[e] = "Subscription" -> Listener
                [] Kind[e] = "Service" -> Server
                [] Kind[e] = "Client" -> Client

AppInit ==
    /\ Init
    /\ app \in Endpoints
    /\ rest = Program(app)

-----------------------------------------------------------------------------

Calls(names) == rest # <<>> /\ Head(rest) \in names
Returned == rest' = Tail(rest)
\* RCCHECK prints the line and ends the program.
Failed == rest' = <<>>

NodeInit(n) ==
    /\ Calls({"node_init"})
    /\ \/ CreateNode(n) /\ Returned
       \/ /\ \E stage \in {"handle", "token"} : CreateNodeFails(n, stage, FALSE)
          /\ Failed

\* The call takes two steps, between which messages may arrive already.
EndpointInit(n) ==
    /\ Calls({"publisher_init", "subscription_init", "service_init", "client_init"})
    /\ \/ Declare(app, n) /\ UNCHANGED rest
       \/ FinishCreate(app) /\ Returned
       \/ (CreateFails(app, n) \/ ServiceCreateFails(app, n)) /\ Failed

\* The executor takes a message and runs the callback of the program, which only prints and
\* adds.  The timer of the client sends requests, that of the talker publishes.
SubscriptionCallback == Kind[app] = "Subscription" /\ Take(app)
ServiceCallback == Kind[app] = "Service" /\ Take(app)
ClientCallback == Kind[app] = "Client" /\ Take(app)
TimerCallback == SendRequest(app)

SpinOnce ==
    /\ Calls({"spin"})
    /\ SubscriptionCallback \/ ServiceCallback \/ ClientCallback \/ TimerCallback
    /\ UNCHANGED rest

SpinEnds == Calls({"spin"}) /\ Returned /\ UNCHANGED vars

EndpointFini ==
    /\ Calls({"publisher_fini", "subscription_fini", "service_fini", "client_fini"})
    /\ \/ (Undeclare(app) \/ ServiceUndeclare(app)) /\ UNCHANGED rest
       \/ /\ \/ DestroyPublisherData(app) \/ DestroySubscriptionData(app)
             \/ DestroyServiceData(app)
          /\ Returned

NodeFini(n) == Calls({"node_fini"}) /\ DestroyNode(n) /\ Returned

ReadTask ==
    /\ \/ SubscriptionHandlerStart(app) \/ RequestHandlerStart(app) \/ ReplyStart(app)
       \/ HandlerEnd(app) \/ HandlerGivesUp(app) \/ ReplyDropper(app)
    /\ UNCHANGED rest

AppNext ==
    /\ Sound
    /\ UNCHANGED app
    /\ \/ \E n \in Nodes : NodeInit(n) \/ EndpointInit(n) \/ NodeFini(n)
       \/ SpinOnce \/ SpinEnds \/ EndpointFini \/ ReadTask

AppSpec == AppInit /\ [][AppNext]_<<vars, appVars>>

-----------------------------------------------------------------------------

\* A program that spun until its executor stopped may call rcl_node_fini last, as all four
\* do (server/main.c:134-135): the data that rmw_destroy_node looks at is still there.
NodeFiniFindsItsNode ==
    Calls({"node_fini"}) => \A n \in handle : mem[n].ref > 0

=============================================================================
