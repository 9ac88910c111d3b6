--------------------------- MODULE MCExampleApps ----------------------------
EXTENDS ExampleApps, TLC
CONSTANTS n1, publisher, subscriber, service, client, none
MCKind == publisher :> "Publisher" @@ subscriber :> "Subscription"
          @@ service :> "Service" @@ client :> "Client"
=============================================================================
