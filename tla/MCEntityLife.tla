---------------------------- MODULE MCEntityLife ----------------------------
EXTENDS EntityLife, TLC
CONSTANTS n1, n2, pub, sub, cli, none
MCKind == pub :> "Publisher" @@ sub :> "Subscription" @@ cli :> "Client"
NodeSymmetry == Permutations({n1, n2})
=============================================================================
