-------------------------- MODULE ServiceRpcProofs --------------------------
(***************************************************************************)
(* Proofs about ServiceRpc, for any clients, any number of requests and    *)
(* any number of requests that the program holds: a response finds a       *)
(* message to answer, and goes astray for one of two reasons only.         *)
(***************************************************************************)
EXTENDS ServiceRpc, SeqRemoval

\* The requests that rmw_send_response cannot tell from r.
Alike(r) == {x \in Requests : Key(x) = Key(r)}

IInv == /\ TypeOK
        /\ IsFiniteSet(held)
        /\ HeldAreKept
        /\ UnknownIsRefused

-----------------------------------------------------------------------------
(* What pickup finds.                                                      *)

\* The matches of r are the places of the requests like it.
LEMMA MatchesArePlaces ==
    ASSUME TypeOK, NEW r
    PROVE  /\ Matches(r) = Places(responseQueue, Alike(r))
           /\ IsFiniteSet(Matches(r)) /\ Cardinality(Matches(r)) \in Nat
<1>1. \A i \in DOMAIN responseQueue : responseQueue[i] \in Requests
  BY DEF TypeOK
<1>2. Matches(r) = Places(responseQueue, Alike(r))
  BY <1>1 DEF Matches, Places, Alike
<1> QED
  BY <1>2, PlacesAreFinite DEF TypeOK

\* A request the program holds has a match.
LEMMA HeldHasMatch ==
    ASSUME IInv, NEW r \in held
    PROVE  Matches(r) # {}
<1> DEFINE G == {h \in held : Key(h) = Key(r)}
<1>1. IsFiniteSet(G) /\ Cardinality(G) \in Nat /\ Cardinality(G) # 0
  <2>1. IsFiniteSet(G)
    BY FS_Subset DEF IInv
  <2>2. r \in G
    OBVIOUS
  <2> QED
    BY <2>1, <2>2, FS_EmptySet, FS_CardinalityType
<1>2. Cardinality(G) <= Cardinality(Matches(r))
  BY DEF IInv, HeldAreKept
<1>3. Cardinality(Matches(r)) \in Nat
  BY MatchesArePlaces DEF IInv
<1>4. Cardinality(Matches(r)) # 0
  <2> HIDE DEF G
  <2> QED
    BY <1>1, <1>2, <1>3
<1> QED
  BY <1>4, FS_EmptySet

-----------------------------------------------------------------------------
\* No requests, empty queues, nothing held.
LEMMA InitInv == Init => IInv
<1> SUFFICES ASSUME Init PROVE IInv
  OBVIOUS
<1> USE DEF Init
<1>1. TypeOK
  <2>1. sequenceNum \in [Clients -> 0..SeqMax]
    BY BoundAssumption
  <2>2. requestQueue \in Seq(Requests) /\ responseQueue \in Seq(Requests) /\ arrived \in Seq(Requests)
    OBVIOUS
  <2>3. responses \in [Clients -> Seq(Replies)]
    OBVIOUS
  <2> QED
    BY <2>1, <2>2, <2>3 DEF TypeOK
<1>3. IsFiniteSet(held) /\ HeldAreKept /\ UnknownIsRefused
  BY FS_EmptySet DEF HeldAreKept, UnknownIsRefused
<1> QED
  BY <1>1, <1>3 DEF IInv

-----------------------------------------------------------------------------
(* Types.                                                                  *)

\* rmw_send_response, with a message or without.
LEMMA RespondTypes ==
    ASSUME TypeOK, NEW r \in Requests, NEW ok \in BOOLEAN, Respond(r, ok)
    PROVE  /\ responseQueue' \in Seq(Requests)
           /\ replies' \subseteq Replies
           /\ faulted' \in BOOLEAN
<1> USE DEF TypeOK
<1>1. CASE Matches(r) = {}
  BY <1>1 DEF Respond
<1>2. CASE Matches(r) # {}
  <2>1. PICK i \in Matches(r) :
           /\ responseQueue' = RemoveAt(responseQueue, i)
           /\ replies' = IF ok
                         THEN replies \cup {[query |-> responseQueue[i], answers |-> r]}
                         ELSE replies
           /\ faulted' = faulted
    BY <1>2 DEF Respond
  <2>2. i \in 1..Len(responseQueue) /\ responseQueue[i] \in Requests
    BY DEF Matches
  <2>3. responseQueue' \in Seq(Requests)
    BY <2>1, <2>2, RemoveAtProperties
  <2>4. [query |-> responseQueue[i], answers |-> r] \in Replies
    BY <2>2 DEF Replies
  <2> QED
    BY <2>1, <2>3, <2>4
<1> QED
  BY <1>1, <1>2

\* Every step keeps the types.
LEMMA StepTypes == TypeOK /\ [Next]_vars => TypeOK'
<1> SUFFICES ASSUME TypeOK, [Next]_vars PROVE TypeOK'
  OBVIOUS
<1> USE DEF TypeOK
<1>1. ASSUME NEW c \in Clients, NEW to \in Destinations(c), SendRequest(c, to)
      PROVE  TypeOK'
  <2> DEFINE r == [client |-> c, seq |-> sequenceNum[c] + 1]
  <2>1. sequenceNum' \in [Clients -> 0..SeqMax] /\ sequenceNum'[c] = sequenceNum[c] + 1
    BY <1>1, BoundAssumption DEF SendRequest
  <2>2. \A d \in Clients : sequenceNum[d] <= sequenceNum'[d]
    BY <1>1, <2>1, BoundAssumption DEF SendRequest
  <2>3. Asked \subseteq Asked'
    <3> SUFFICES ASSUME NEW x \in Asked PROVE x \in Asked'
      OBVIOUS
    <3>1. x.client \in Clients /\ x.seq \in 1..SeqMax /\ x.seq <= sequenceNum[x.client]
      BY DEF Asked, Requests
    <3>2. x.seq <= sequenceNum'[x.client]
      BY <3>1, <2>1, <2>2, BoundAssumption
    <3> QED
      BY <3>2 DEF Asked
  <2>4. r \in Asked'
    <3>1. sequenceNum[c] + 1 \in 1..SeqMax
      BY <1>1, BoundAssumption DEF SendRequest
    <3>2. r \in Requests
      BY <3>1 DEF Requests
    <3> QED
      BY <3>1, <3>2, <2>1 DEF Asked
  <2>5. queries' \subseteq [request : Asked', to : Clients \cup {Service}]
    BY <1>1, <2>3, <2>4 DEF SendRequest, Destinations
  <2> QED
    BY <1>1, <2>1, <2>5 DEF SendRequest
<1>2. ASSUME NEW q \in queries, NEW ok \in BOOLEAN, StrayRequestHandler(q, ok) PROVE TypeOK'
  <2>1. q.to \in Clients
    BY <1>2 DEF StrayRequestHandler
  <2> QED
    BY <1>2, <2>1 DEF StrayRequestHandler, Asked
<1>3. ASSUME NEW q \in queries, NEW ok \in BOOLEAN, RequestHandler(q, ok) PROVE TypeOK'
  <2>1. q.request \in Requests
    BY DEF Asked
  <2> QED
    BY <1>3, <2>1 DEF RequestHandler, Asked
<1>4. ASSUME NEW ok \in BOOLEAN, TakeRequest(ok) PROVE TypeOK'
  <2>1. Head(requestQueue) \in Requests /\ Tail(requestQueue) \in Seq(Requests)
    BY <1>4 DEF TakeRequest
  <2>2. held' \subseteq Requests
    BY <1>4, <2>1 DEF TakeRequest, Hold
  <2>3. \A h \in Requests : Key(h) \in 1..SeqMax
    BY DEF Key, Requests
  <2>4. together' \subseteq 1..SeqMax
    <3>1. together' = together
             \/ \A k \in together' : k \in together \/ \E h \in held : k = Key(h)
      BY <1>4 DEF TakeRequest, Hold
    <3> QED
      BY <3>1, <2>3
  <2> QED
    BY <1>4, <2>1, <2>2, <2>4 DEF TakeRequest, Asked
<1>5. ASSUME NEW r \in held, NEW ok \in BOOLEAN, SendResponse(r, ok) PROVE TypeOK'
  <2>1. r \in Requests
    OBVIOUS
  <2>2. responseQueue' \in Seq(Requests) /\ replies' \subseteq Replies /\ faulted' \in BOOLEAN
    BY <1>5, <2>1, RespondTypes DEF SendResponse
  <2> QED
    BY <1>5, <2>1, <2>2 DEF SendResponse, Asked
<1>6. ASSUME NEW p \in replies, NEW ok \in BOOLEAN, ReplyHandler(p, ok) PROVE TypeOK'
  <2>1. p \in Replies /\ p.query.client \in Clients
    BY DEF Replies, Requests
  <2>2. responses' \in [Clients -> Seq(Replies)]
    BY <1>6, <2>1 DEF ReplyHandler
  <2> QED
    BY <1>6, <2>2 DEF ReplyHandler, Asked
<1>7. ASSUME NEW c \in Clients, NEW ok \in BOOLEAN, TakeResponse(c, ok) PROVE TypeOK'
  <2>1. Head(responses[c]) \in Replies /\ Tail(responses[c]) \in Seq(Replies)
    BY <1>7 DEF TakeResponse
  <2>2. responses' \in [Clients -> Seq(Replies)]
    BY <1>7, <2>1 DEF TakeResponse
  <2> QED
    BY <1>7, <2>1, <2>2 DEF TakeResponse, Asked
<1>8. CASE UNCHANGED vars
  BY <1>8 DEF vars, Asked
<1> QED
  BY <1>1, <1>2, <1>3, <1>4, <1>5, <1>6, <1>7, <1>8 DEF Next

-----------------------------------------------------------------------------
(* Where responses go.                                                     *)

\* A new reply is to the request that pickup found; the others only move.
LEMMA RepliesOnlyMove ==
    ASSUME TypeOK, [Next]_vars, NEW p \in AllReplies', p \notin AllReplies
    PROVE  \E r \in held, ok \in BOOLEAN : \E i \in Matches(r) :
              /\ SendResponse(r, ok)
              /\ p = [query |-> responseQueue[i], answers |-> r]
              /\ responseQueue' = RemoveAt(responseQueue, i)
<1> USE DEF TypeOK
<1>1. \A c \in Clients : \A x \in ToSet(responses[c]) : x \in AllReplies
  BY DEF AllReplies
<1>2. p \in replies' \/ p \in delivered' \/ \E c \in Clients : p \in ToSet(responses'[c])
  BY DEF AllReplies
<1>3. ASSUME UNCHANGED <<replies, delivered, responses>> PROVE FALSE
  BY <1>3, <1>2, <1>1 DEF AllReplies
<1>4. ASSUME NEW r \in held, NEW ok \in BOOLEAN, SendResponse(r, ok)
      PROVE  \E i \in Matches(r) : /\ p = [query |-> responseQueue[i], answers |-> r]
                                   /\ responseQueue' = RemoveAt(responseQueue, i)
  <2>1. UNCHANGED <<delivered, responses>> /\ Respond(r, ok)
    BY <1>4 DEF SendResponse
  <2>2. p \in replies' /\ p \notin replies
    BY <2>1, <1>2, <1>1 DEF AllReplies
  <2> QED
    BY <2>1, <2>2 DEF Respond
<1>5. ASSUME NEW q \in replies, NEW ok \in BOOLEAN, ReplyHandler(q, ok) PROVE FALSE
  <2>1. \A c \in Clients : ToSet(responses'[c]) \subseteq ToSet(responses[c]) \cup {q}
    <3> SUFFICES ASSUME NEW c \in Clients
                 PROVE  ToSet(responses'[c]) \subseteq ToSet(responses[c]) \cup {q}
      OBVIOUS
    <3>1. q \in Replies
      OBVIOUS
    <3>2. responses'[c] = responses[c] \/ responses'[c] = Append(responses[c], q)
      BY <1>5 DEF ReplyHandler
    <3> QED
      BY <3>1, <3>2, ElementsAfterAppend, ZenonT(40)
  <2>2. replies' \subseteq replies /\ delivered' = delivered
    BY <1>5 DEF ReplyHandler
  <2> QED
    BY <2>1, <2>2, <1>1, <1>2 DEF AllReplies
<1>6. ASSUME NEW c \in Clients, NEW ok \in BOOLEAN, TakeResponse(c, ok) PROVE FALSE
  <2>1. Head(responses[c]) \in ToSet(responses[c])
    BY <1>6 DEF TakeResponse, ToSet
  <2>2. \A d \in Clients : ToSet(responses'[d]) \subseteq ToSet(responses[d])
    <3> SUFFICES ASSUME NEW d \in Clients
                 PROVE  ToSet(responses'[d]) \subseteq ToSet(responses[d])
      OBVIOUS
    <3>1. responses[c] # <<>>
      BY <1>6 DEF TakeResponse
    <3>2. responses'[d] = responses[d] \/ (d = c /\ responses'[d] = Tail(responses[d]))
      BY <1>6 DEF TakeResponse
    <3> QED
      BY <3>1, <3>2, ElementsAfterTail
  <2>3. replies' = replies /\ delivered' \subseteq delivered \cup {Head(responses[c])}
    BY <1>6 DEF TakeResponse
  <2> QED
    BY <2>1, <2>2, <2>3, <1>1, <1>2 DEF AllReplies
<1> QED
  BY <1>3, <1>4, <1>5, <1>6
     DEF Next, SendRequest, StrayRequestHandler, RequestHandler, TakeRequest, vars

-----------------------------------------------------------------------------
(* What the program holds.                                                 *)

\* The requests like r that the program holds.
HeldAlike(r) == {h \in held : Key(h) = Key(r)}

\* HeldAreKept speaks of the requests that are held; it then holds of all.
LEMMA EnoughMatches ==
    ASSUME TypeOK, IsFiniteSet(held), HeldAreKept, NEW r \in Requests
    PROVE  /\ IsFiniteSet(HeldAlike(r)) /\ Cardinality(HeldAlike(r)) \in Nat
           /\ Cardinality(Matches(r)) \in Nat
           /\ Cardinality(HeldAlike(r)) <= Cardinality(Matches(r))
<1>1. IsFiniteSet(HeldAlike(r)) /\ Cardinality(HeldAlike(r)) \in Nat
  <2>1. IsFiniteSet(HeldAlike(r))
    BY FS_Subset DEF HeldAlike
  <2> QED
    BY <2>1, FS_CardinalityType
<1>2. Cardinality(Matches(r)) \in Nat
  BY MatchesArePlaces
<1>3. CASE HeldAlike(r) = {}
  BY <1>1, <1>2, <1>3, FS_EmptySet
<1>4. ASSUME NEW h \in HeldAlike(r)
      PROVE  Cardinality(HeldAlike(r)) <= Cardinality(Matches(r))
  <2>1. h \in held /\ Key(h) = Key(r)
    BY DEF HeldAlike
  <2>2. HeldAlike(h) = HeldAlike(r) /\ Matches(h) = Matches(r)
    BY <2>1 DEF HeldAlike, Matches
  <2> QED
    BY <2>1, <2>2 DEF HeldAreKept, HeldAlike
<1> QED
  BY <1>1, <1>2, <1>3, <1>4

\* rmw_take_request: the message goes to response_queue, whether it is held or not.
LEMMA TakeRequestKeeps ==
    ASSUME TypeOK, TypeOK', IsFiniteSet(held), HeldAreKept, NEW ok, TakeRequest(ok)
    PROVE  IsFiniteSet(held)' /\ HeldAreKept'
<1> DEFINE e == Head(requestQueue)
<1>1. /\ e \in Requests /\ responseQueue \in Seq(Requests)
      /\ responseQueue' = Append(responseQueue, e)
      /\ held' = held \/ held' = held \cup {e}
  BY DEF TakeRequest, Hold, TypeOK
<1> HIDE DEF e
<1>2. IsFiniteSet(held)'
  BY <1>1, FS_AddElement
<1>3. ASSUME NEW r \in held'
      PROVE  Cardinality(HeldAlike(r)') <= Cardinality(Matches(r)')
  <2>1. r \in Requests
    BY <1>1 DEF TypeOK
  <2>2. /\ Cardinality(HeldAlike(r)) <= Cardinality(Matches(r))
        /\ IsFiniteSet(HeldAlike(r)) /\ Cardinality(HeldAlike(r)) \in Nat
        /\ Cardinality(Matches(r)) \in Nat
    BY <2>1, EnoughMatches
  <2>3. Matches(r) = Places(responseQueue, Alike(r))
    BY MatchesArePlaces
  <2>4. Matches(r)' = Places(responseQueue', Alike(r))
    BY MatchesArePlaces DEF Matches, Places, Alike, TypeOK
  <2>5. Cardinality(Matches(r)') =
           Cardinality(Matches(r)) + (IF e \in Alike(r) THEN 1 ELSE 0)
    BY <1>1, <2>3, <2>4, PlacesAfterAppend
  <2>6. CASE e \in Alike(r)
    <3>1. HeldAlike(r)' = HeldAlike(r) \/ HeldAlike(r)' = HeldAlike(r) \cup {e}
      BY <1>1, <2>6 DEF HeldAlike, Alike
    <3>2. Cardinality(HeldAlike(r) \cup {e}) =
             IF e \in HeldAlike(r) THEN Cardinality(HeldAlike(r))
             ELSE Cardinality(HeldAlike(r)) + 1
      BY <2>2, FS_AddElement
    <3>3. \/ Cardinality(HeldAlike(r)') = Cardinality(HeldAlike(r))
          \/ Cardinality(HeldAlike(r)') = Cardinality(HeldAlike(r)) + 1
      <4>1. CASE HeldAlike(r)' = HeldAlike(r)
        BY <4>1
      <4>2. CASE HeldAlike(r)' = HeldAlike(r) \cup {e}
        BY <4>2, <3>2
      <4> QED
        BY <3>1, <4>1, <4>2
    <3> QED
      BY <2>2, <2>5, <2>6, <3>3
  <2>7. CASE e \notin Alike(r)
    <3>1. HeldAlike(r)' = HeldAlike(r)
      BY <1>1, <2>7 DEF HeldAlike, Alike
    <3> QED
      BY <2>2, <2>5, <2>7, <3>1
  <2> QED
    BY <2>6, <2>7
<1> QED
  BY <1>2, <1>3 DEF HeldAreKept, HeldAlike

\* rmw_send_response: one request like r is no longer held, and one match is gone.
LEMMA SendResponseKeeps ==
    ASSUME TypeOK, TypeOK', IsFiniteSet(held), HeldAreKept,
           NEW r \in held, NEW ok, SendResponse(r, ok), Matches(r) # {}
    PROVE  IsFiniteSet(held)' /\ HeldAreKept'
<1>1. PICK i \in Matches(r) : responseQueue' = RemoveAt(responseQueue, i)
  BY DEF SendResponse, Respond
<1>2. /\ i \in 1..Len(responseQueue) /\ responseQueue \in Seq(Requests)
      /\ responseQueue[i] \in Requests /\ Key(responseQueue[i]) = Key(r)
      /\ held' = held \ {r}
  BY DEF Matches, TypeOK, SendResponse
<1>3. IsFiniteSet(held)'
  BY <1>2, FS_RemoveElement
<1>4. ASSUME NEW x \in held'
      PROVE  Cardinality(HeldAlike(x)') <= Cardinality(Matches(x)')
  <2>1. x \in Requests
    BY <1>2 DEF TypeOK
  <2>2. /\ Cardinality(HeldAlike(x)) <= Cardinality(Matches(x))
        /\ IsFiniteSet(HeldAlike(x)) /\ Cardinality(HeldAlike(x)) \in Nat
        /\ Cardinality(Matches(x)) \in Nat
    BY <2>1, EnoughMatches
  <2>3. Matches(x) = Places(responseQueue, Alike(x))
    BY MatchesArePlaces
  <2>4. Matches(x)' = Places(responseQueue', Alike(x))
    BY MatchesArePlaces DEF Matches, Places, Alike, TypeOK
  <2>5. Cardinality(Matches(x)') =
           Cardinality(Matches(x)) - (IF responseQueue[i] \in Alike(x) THEN 1 ELSE 0)
    BY <1>1, <1>2, <2>3, <2>4, PlacesAfterRemoval
  <2>6. CASE Key(x) = Key(r)
    <3>1. HeldAlike(x)' = HeldAlike(x) \ {r} /\ r \in HeldAlike(x)
      BY <1>2, <2>6 DEF HeldAlike
    <3>2. Cardinality(HeldAlike(x)') = Cardinality(HeldAlike(x)) - 1
      BY <2>2, <3>1, FS_RemoveElement
    <3>3. responseQueue[i] \in Alike(x)
      BY <1>2, <2>6 DEF Alike
    <3> QED
      BY <2>2, <2>5, <3>2, <3>3
  <2>7. CASE Key(x) # Key(r)
    <3>1. HeldAlike(x)' = HeldAlike(x)
      BY <1>2, <2>7 DEF HeldAlike
    <3>2. responseQueue[i] \notin Alike(x)
      BY <1>2, <2>7 DEF Alike
    <3> QED
      BY <2>2, <2>5, <3>1, <3>2
  <2> QED
    BY <2>6, <2>7
<1> QED
  BY <1>3, <1>4 DEF HeldAreKept, HeldAlike

-----------------------------------------------------------------------------
(* The order of arrival.                                                   *)

\* The elements of s stand in t in the same order.
OrderedIn(s, t) ==
    /\ \A i \in DOMAIN s : \E a \in DOMAIN t : t[a] = s[i]
    /\ \A i, j \in DOMAIN s : i < j =>
          \E a, b \in DOMAIN t : a < b /\ t[a] = s[i] /\ t[b] = s[j]

Waiting == responseQueue \o requestQueue
OrderInv == OrderedIn(Waiting, arrived)

\* What arrives last goes to the end of both.
LEMMA OrderedAppend ==
    ASSUME NEW S, NEW s \in Seq(S), NEW t \in Seq(S), NEW e \in S, OrderedIn(s, t)
    PROVE  OrderedIn(Append(s, e), Append(t, e))
<1> DEFINE x == Append(s, e)
           y == Append(t, e)
<1>1. /\ DOMAIN x = 1..(Len(s) + 1) /\ x[Len(s) + 1] = e
      /\ \A i \in 1..Len(s) : x[i] = s[i]
  OBVIOUS
<1>2. /\ DOMAIN y = 1..(Len(t) + 1) /\ y[Len(t) + 1] = e
      /\ \A i \in 1..Len(t) : y[i] = t[i]
  OBVIOUS
<1>3. DOMAIN s = 1..Len(s) /\ DOMAIN t = 1..Len(t) /\ Len(s) \in Nat /\ Len(t) \in Nat
  OBVIOUS
<1> HIDE DEF x, y
<1>4. ASSUME NEW i \in DOMAIN x PROVE \E a \in DOMAIN y : y[a] = x[i]
  <2>1. CASE i = Len(s) + 1
    BY <2>1, <1>1, <1>2, <1>3
  <2>2. CASE i # Len(s) + 1
    <3>1. i \in DOMAIN s /\ x[i] = s[i]
      BY <2>2, <1>1, <1>3
    <3>2. PICK a \in DOMAIN t : t[a] = s[i]
      BY <3>1 DEF OrderedIn
    <3>3. a \in DOMAIN y /\ y[a] = t[a]
      BY <1>2, <1>3
    <3> QED
      BY <3>1, <3>2, <3>3
  <2> QED
    BY <2>1, <2>2
<1>5. ASSUME NEW i \in DOMAIN x, NEW j \in DOMAIN x, i < j
      PROVE  \E a, b \in DOMAIN y : a < b /\ y[a] = x[i] /\ y[b] = x[j]
  <2>1. i \in DOMAIN s /\ x[i] = s[i]
    BY <1>5, <1>1, <1>3
  <2>2. CASE j = Len(s) + 1
    <3>1. PICK a \in DOMAIN t : t[a] = s[i]
      BY <2>1 DEF OrderedIn
    <3>2. /\ a \in DOMAIN y /\ y[a] = t[a] /\ a < Len(t) + 1
          /\ Len(t) + 1 \in DOMAIN y /\ y[Len(t) + 1] = x[j]
      BY <2>2, <1>1, <1>2, <1>3
    <3> QED
      BY <2>1, <3>1, <3>2
  <2>3. CASE j # Len(s) + 1
    <3>1. j \in DOMAIN s /\ x[j] = s[j]
      BY <2>3, <1>1, <1>3
    <3>2. PICK a \in DOMAIN t, b \in DOMAIN t : a < b /\ t[a] = s[i] /\ t[b] = s[j]
      BY <1>5, <2>1, <3>1 DEF OrderedIn
    <3>3. a \in DOMAIN y /\ y[a] = t[a] /\ b \in DOMAIN y /\ y[b] = t[b]
      BY <1>2, <1>3
    <3> QED
      BY <2>1, <3>1, <3>2, <3>3
  <2> QED
    BY <2>2, <2>3
<1> QED
  BY <1>4, <1>5 DEF OrderedIn, x, y

\* What leaves, from anywhere, leaves the others in order.
LEMMA OrderedRemoval ==
    ASSUME NEW S, NEW s \in Seq(S), NEW t, NEW k \in 1..Len(s), OrderedIn(s, t)
    PROVE  OrderedIn(RemoveAt(s, k), t)
<1> DEFINE x == RemoveAt(s, k)
           at(j) == IF j < k THEN j ELSE j + 1
<1>1. /\ x \in Seq(S) /\ Len(x) = Len(s) - 1
      /\ \A j \in 1..(Len(s) - 1) : x[j] = IF j < k THEN s[j] ELSE s[j + 1]
  BY RemoveAtProperties
<1> HIDE DEF x
<1>2. DOMAIN x = 1..(Len(s) - 1) /\ DOMAIN s = 1..Len(s)
  BY <1>1
<1>3. \A j \in DOMAIN x : at(j) \in DOMAIN s /\ x[j] = s[at(j)]
  BY <1>1, <1>2
<1>4. \A i, j \in DOMAIN x : i < j => at(i) < at(j)
  BY <1>2
<1> HIDE DEF at
<1> QED
  BY <1>3, <1>4 DEF OrderedIn, x

\* request_handler adds at the end of both, rmw_take_request moves the border between the
\* queues, rmw_send_response takes one message out.
LEMMA StepOrder == IInv /\ OrderInv /\ [Next]_vars => OrderInv'
<1> SUFFICES ASSUME IInv, OrderInv, [Next]_vars PROVE OrderInv'
  OBVIOUS
<1>1. /\ responseQueue \in Seq(Requests) /\ requestQueue \in Seq(Requests)
      /\ arrived \in Seq(Requests) /\ Waiting \in Seq(Requests)
  BY DEF IInv, TypeOK, Waiting
<1>2. ASSUME NEW q \in queries, NEW ok \in BOOLEAN, RequestHandler(q, ok) PROVE OrderInv'
  <2>1. q.request \in Requests
    BY DEF IInv, TypeOK, Asked
  <2>2. CASE ok
    <3>1. Waiting' = Append(Waiting, q.request) /\ arrived' = Append(arrived, q.request)
      BY <1>1, <1>2, <2>1, <2>2 DEF RequestHandler, Waiting
    <3> QED
      BY <1>1, <2>1, <3>1, OrderedAppend DEF OrderInv
  <2>3. CASE ~ok
    BY <1>2, <2>3 DEF RequestHandler, OrderInv, Waiting
  <2> QED
    BY <2>2, <2>3
<1>3. ASSUME NEW ok \in BOOLEAN, TakeRequest(ok) PROVE OrderInv'
  <2>1. Waiting' = Waiting
    BY <1>1, <1>3, MoveAcross DEF TakeRequest, Waiting
  <2> QED
    BY <1>3, <2>1 DEF TakeRequest, OrderInv
<1>4. ASSUME NEW r \in held, NEW ok \in BOOLEAN, SendResponse(r, ok) PROVE OrderInv'
  <2>1. arrived' = arrived /\ requestQueue' = requestQueue /\ Matches(r) # {}
    BY <1>4, HeldHasMatch DEF SendResponse
  <2>2. PICK i \in Matches(r) : responseQueue' = RemoveAt(responseQueue, i)
    BY <1>4, <2>1 DEF SendResponse, Respond
  <2>3. i \in 1..Len(responseQueue) /\ i \in 1..Len(Waiting)
    BY <1>1 DEF Matches, Waiting
  <2>4. Waiting' = RemoveAt(Waiting, i)
    BY <1>1, <2>1, <2>2, <2>3, RemovalInFront DEF Waiting
  <2> QED
    BY <1>1, <2>1, <2>3, <2>4, OrderedRemoval DEF OrderInv
<1>5. ASSUME UNCHANGED <<responseQueue, requestQueue, arrived>> PROVE OrderInv'
  BY <1>5 DEF OrderInv, Waiting
<1> QED
  BY <1>2, <1>3, <1>4, <1>5
     DEF Next, SendRequest, StrayRequestHandler, ReplyHandler, TakeResponse, vars

-----------------------------------------------------------------------------
\* Every step keeps IInv; only rmw_take_request and rmw_send_response touch what is held.
LEMMA StepInv == IInv /\ [Next]_vars => IInv'
<1> SUFFICES ASSUME IInv, [Next]_vars PROVE IInv'
  OBVIOUS
<1>1. TypeOK /\ TypeOK'
  BY StepTypes DEF IInv
<1>2. ASSUME NEW ok \in BOOLEAN, TakeRequest(ok)
      PROVE  (IsFiniteSet(held) /\ HeldAreKept /\ UnknownIsRefused)'
  BY <1>1, <1>2, TakeRequestKeeps DEF IInv, TakeRequest, UnknownIsRefused
<1>3. ASSUME NEW r \in held, NEW ok \in BOOLEAN, SendResponse(r, ok)
      PROVE  (IsFiniteSet(held) /\ HeldAreKept /\ UnknownIsRefused)'
  <2>1. Matches(r) # {}
    BY HeldHasMatch
  <2>2. UNCHANGED faulted
    BY <1>3, <2>1 DEF SendResponse, Respond
  <2> QED
    BY <1>1, <1>3, <2>1, <2>2, SendResponseKeeps DEF IInv, UnknownIsRefused
<1>4. ASSUME UNCHANGED <<held, responseQueue, faulted>>
      PROVE  (IsFiniteSet(held) /\ HeldAreKept /\ UnknownIsRefused)'
  BY <1>4 DEF IInv, HeldAreKept, Matches, UnknownIsRefused
<1>5. (IsFiniteSet(held) /\ HeldAreKept /\ UnknownIsRefused)'
  BY <1>2, <1>3, <1>4
     DEF Next, SendRequest, StrayRequestHandler, RequestHandler, ReplyHandler,
         TakeResponse, vars
<1> QED
  BY <1>1, <1>5 DEF IInv

\* So it holds in every reachable state.
LEMMA Invariance == Spec => []IInv
BY InitInv, StepInv, PTL DEF Spec

-----------------------------------------------------------------------------
\* Every variable of ServiceRpc stays in its type: only numbered requests travel, and
\* what the queues hold are requests.
THEOREM TypeCorrect == Spec => []TypeOK
<1>1. IInv => TypeOK
  BY DEF IInv
<1> QED
  BY <1>1, Invariance, PTL

\* rmw_take_request and rmw_send_response leave a message in response_queue for every
\* request the program holds, although clients share numbers.
THEOREM HeldRequestsAreKept == Spec => []HeldAreKept
<1>1. IInv => HeldAreKept
  BY DEF IInv
<1> QED
  BY <1>1, Invariance, PTL

\* rmw_send_response never uses a NULL message for a program that responds once to each
\* request it took.
THEOREM OneResponseIsSafe == Spec => []UnknownIsRefused
<1>1. IInv => UnknownIsRefused
  BY DEF IInv
<1> QED
  BY <1>1, Invariance, PTL

\* A request that waits in the two queues never overtakes one that arrived before it,
\* although rmw_send_response takes messages out of the middle.
THEOREM ArrivalOrderIsKept == Spec => []ArrivalOrder
<1>1. Init => OrderInv
  BY DEF Init, OrderInv, OrderedIn, Waiting
<1>2. OrderInv => ArrivalOrder
  BY DEF OrderInv, OrderedIn, Waiting, ArrivalOrder
<1> QED
  BY <1>1, <1>2, Invariance, StepOrder, PTL DEF Spec
-----------------------------------------------------------------------------
(* Each request is in one place.                                           *)

Sent == {q.request : q \in {x \in queries : x.to = Service}}
Replying == {p.query : p \in replies}

\* On its way to the service, in one of its queues: once altogether.
OpenOnce ==
    /\ IsInjective(requestQueue) /\ IsInjective(responseQueue)
    /\ Sent \cap ToSet(requestQueue) = {}
    /\ (Sent \cup ToSet(requestQueue)) \cap ToSet(responseQueue) = {}

\* One reply on its way, or in the response_queue of the client that asked.
RepliedOnce ==
    /\ \A p, o \in replies : p.query = o.query => p = o
    /\ \A c \in Clients : \A i, j \in DOMAIN responses[c] :
          responses[c][i].query = responses[c][j].query => i = j
    /\ \A c \in Clients : \A i \in DOMAIN responses[c] :
          responses[c][i].query.client = c /\ responses[c][i].query \notin Replying

\* What was replied to is not open, and neither was before it was asked.
Apart == Open \cup Replied \subseteq Asked /\ Open \cap Replied = {}

PlaceInv == OpenOnce /\ RepliedOnce /\ Apart

\* The parts of what is open and of what is replied to, before and after a step.
LEMMA PartsOfOpen ==
    /\ Open = Sent \cup ToSet(requestQueue) \cup ToSet(responseQueue)
    /\ Open' = Sent' \cup ToSet(requestQueue') \cup ToSet(responseQueue')
BY DEF Open, Sent, ToSet

\* Likewise, with a reply for each.
LEMMA PartsOfReplied ==
    /\ \A r : r \in Replied <=> \/ r \in Replying
                                \/ \E c \in Clients : \E i \in DOMAIN responses[c] : responses[c][i].query = r
    /\ \A r : r \in Replied' <=> \/ r \in Replying'
                                 \/ \E c \in Clients : \E i \in DOMAIN responses'[c] : responses'[c][i].query = r
<1>1. \A r : r \in Replied <=> \/ r \in Replying
                               \/ \E c \in Clients : \E i \in DOMAIN responses[c] : responses[c][i].query = r
  <2> SUFFICES ASSUME NEW r
               PROVE  r \in Replied <=>
                         \/ r \in Replying
                         \/ \E c \in Clients : \E i \in DOMAIN responses[c] : responses[c][i].query = r
    OBVIOUS
  <2>1. r \in Replied <=> \/ \E p \in replies : p.query = r
                          \/ \E c \in Clients : \E p \in ToSet(responses[c]) : p.query = r
    BY DEF Replied
  <2> QED
    BY <2>1 DEF Replying, ToSet
<1>2. \A r : r \in Replied' <=> \/ r \in Replying'
                                \/ \E c \in Clients : \E i \in DOMAIN responses'[c] : responses'[c][i].query = r
  <2> SUFFICES ASSUME NEW r
               PROVE  r \in Replied' <=>
                         \/ r \in Replying'
                         \/ \E c \in Clients : \E i \in DOMAIN responses'[c] : responses'[c][i].query = r
    OBVIOUS
  <2>1. r \in Replied' <=> \/ \E p \in replies' : p.query = r
                           \/ \E c \in Clients : \E p \in ToSet(responses'[c]) : p.query = r
    BY DEF Replied
  <2> QED
    BY <2>1 DEF Replying, ToSet
<1> QED
  BY <1>1, <1>2

\* What Asked, Replied and Done depend on.
LEMMA Unseen ==
    /\ UNCHANGED sequenceNum => Asked' = Asked
    /\ UNCHANGED <<replies, responses>> => Replied' = Replied /\ Replying' = Replying
    /\ UNCHANGED delivered => Done' = Done
    /\ UNCHANGED <<queries, requestQueue, responseQueue>> => Open' = Open /\ Sent' = Sent
BY DEF Asked, Replied, Replying, Done, Open, Sent

\* rmw_send_request asks with a number that was not used before.
LEMMA SendRequestPlaces ==
    ASSUME TypeOK, PlaceInv, NEW c \in Clients, NEW to \in Destinations(c), SendRequest(c, to)
    PROVE  OpenOnce' /\ RepliedOnce' /\ \E r \in Requests : Calls!Ask(r)
<1> DEFINE r == [client |-> c, seq |-> sequenceNum[c] + 1]
<1>1. /\ sequenceNum[c] < SeqMax /\ sequenceNum' = [sequenceNum EXCEPT ![c] = sequenceNum[c] + 1]
      /\ queries' = queries \cup {[request |-> r, to |-> d] : d \in to}
      /\ UNCHANGED <<requestQueue, responseQueue, replies, responses, delivered>>
  BY DEF SendRequest
<1>2. sequenceNum \in [Clients -> 0..SeqMax] /\ SeqMax \in Nat
  BY BoundAssumption DEF TypeOK
<1>3. r \in Requests /\ r \notin Asked
  BY <1>1, <1>2 DEF Requests, Asked
<1>4. Asked' = Asked \cup {r}
  <2>1. \A x \in Requests : x \in Asked' <=> x \in Asked \/ x = r
    <3> SUFFICES ASSUME NEW x \in Requests PROVE x \in Asked' <=> x \in Asked \/ x = r
      OBVIOUS
    <3>1. x.client \in Clients /\ x.seq \in 1..SeqMax /\ x = [client |-> x.client, seq |-> x.seq]
      BY DEF Requests
    <3>2. CASE x.client = c
      <4>1. x = r <=> x.seq = sequenceNum[c] + 1
        BY <3>1, <3>2
      <4>2. sequenceNum'[x.client] = sequenceNum[c] + 1
        BY <1>1, <1>2, <3>2
      <4> HIDE DEF r
      <4> QED
        BY <1>2, <3>1, <3>2, <4>1, <4>2 DEF Asked
    <3>3. CASE x.client # c
      <4>1. sequenceNum'[x.client] = sequenceNum[x.client] /\ x # r
        BY <1>1, <1>2, <3>1, <3>3
      <4> QED
        BY <4>1 DEF Asked
    <3> QED
      BY <3>2, <3>3
  <2>2. Asked' \subseteq Requests /\ Asked \subseteq Requests
    BY DEF Asked
  <2> HIDE DEF r
  <2> QED
    BY <1>3, <2>1, <2>2
<1> HIDE DEF r
<1>5. Sent' = IF Service \in to THEN Sent \cup {r} ELSE Sent
  <2>1. \A q : q \in queries' <=> q \in queries \/ \E d \in to : q = [request |-> r, to |-> d]
    BY <1>1
  <2>2. \A d : [request |-> r, to |-> d].request = r /\ [request |-> r, to |-> d].to = d
    OBVIOUS
  <2>3. \A x : x \in Sent' <=> \E q \in queries' : q.to = Service /\ q.request = x
    BY DEF Sent
  <2>4. \A x : x \in Sent <=> \E q \in queries : q.to = Service /\ q.request = x
    BY DEF Sent
  <2>5. ASSUME NEW x \in Sent' PROVE x \in Sent \/ (Service \in to /\ x = r)
    <3>1. PICK q \in queries' : q.to = Service /\ q.request = x
      BY <2>3
    <3>2. CASE q \in queries
      BY <2>4, <3>1, <3>2
    <3>3. CASE \E d \in to : q = [request |-> r, to |-> d]
      BY <2>2, <3>1, <3>3
    <3> QED
      BY <2>1, <3>2, <3>3
  <2>6. Sent \subseteq Sent'
    BY <2>1, <2>3, <2>4
  <2>7. Service \in to => r \in Sent'
    <3> DEFINE q == [request |-> r, to |-> Service]
    <3>1. q.request = r /\ q.to = Service
      BY <2>2
    <3>2. Service \in to => q \in queries'
      BY <2>1
    <3> HIDE DEF q
    <3> QED
      BY <2>3, <3>1, <3>2
  <2> QED
    BY <2>5, <2>6, <2>7
<1>6. r \notin Open
  BY <1>3 DEF PlaceInv, Apart
<1>7. OpenOnce'
  BY <1>1, <1>5, <1>6, PartsOfOpen DEF PlaceInv, OpenOnce
<1>8. RepliedOnce' /\ Replied' = Replied /\ Done' = Done
  BY <1>1, Unseen DEF PlaceInv, RepliedOnce
<1>9. Open' \in {Open, Open \cup {r}}
  BY <1>1, <1>5, PartsOfOpen
<1> QED
  BY <1>3, <1>4, <1>7, <1>8, <1>9 DEF Calls!Ask

\* A query that reaches another client's queryable was never open.
LEMMA StrayPlaces ==
    ASSUME PlaceInv, NEW q \in queries, NEW ok \in BOOLEAN, StrayRequestHandler(q, ok)
    PROVE  OpenOnce' /\ RepliedOnce' /\ UNCHANGED Calls!vars
<1>1. /\ UNCHANGED <<sequenceNum, requestQueue, responseQueue, replies, responses, delivered>>
      /\ queries' = queries \ {q} /\ q.to # Service
  BY DEF StrayRequestHandler
<1>2. Sent' = Sent
  BY <1>1 DEF Sent
<1> QED
  BY <1>1, <1>2, Unseen, PartsOfOpen DEF PlaceInv, OpenOnce, RepliedOnce, Calls!vars

\* request_handler queues the request, or drops it.
LEMMA RequestHandlerPlaces ==
    ASSUME TypeOK, PlaceInv, NEW q \in queries, NEW ok \in BOOLEAN, RequestHandler(q, ok)
    PROVE  /\ OpenOnce' /\ RepliedOnce'
           /\ UNCHANGED Calls!vars \/ \E r \in Requests : Calls!Drop(r)
<1> DEFINE r == q.request
<1>1. /\ UNCHANGED <<sequenceNum, responseQueue, replies, responses, delivered>>
      /\ queries' = queries \ {q} /\ q.to = Service
      /\ requestQueue' = IF ok THEN Append(requestQueue, r) ELSE requestQueue
  BY DEF RequestHandler
<1>2. q \in [request : Asked, to : Clients \cup {Service}] /\ r \in Requests
      /\ requestQueue \in Seq(Requests)
  BY DEF TypeOK, Asked
<1>3. \A x \in queries : x.to = Service /\ x.request = r => x = q
  <2>1. \A x \in queries : x = [request |-> x.request, to |-> x.to]
    BY DEF TypeOK
  <2> QED
    BY <1>1, <2>1
<1> HIDE DEF r
<1>4. Sent' = Sent \ {r} /\ r \in Sent
  BY <1>1, <1>3 DEF Sent, r
<1>5. r \notin ToSet(requestQueue) /\ r \notin ToSet(responseQueue) /\ r \notin Replied
  BY <1>4, PartsOfOpen DEF PlaceInv, OpenOnce, Apart
<1>6. RepliedOnce' /\ Asked' = Asked /\ Replied' = Replied /\ Done' = Done
  BY <1>1, Unseen DEF PlaceInv, RepliedOnce
<1>7. CASE ok
  <2>1. ToSet(requestQueue') = ToSet(requestQueue) \cup {r} /\ IsInjective(requestQueue')
    BY <1>1, <1>2, <1>5, <1>7, ElementsAfterAppend, InjectiveAppend DEF PlaceInv, OpenOnce
  <2>2. OpenOnce'
    BY <1>1, <1>4, <1>5, <2>1 DEF PlaceInv, OpenOnce
  <2>3. Open' = Open
    BY <1>1, <1>4, <2>1, PartsOfOpen
  <2> QED
    BY <1>6, <2>2, <2>3 DEF Calls!vars
<1>8. CASE ~ok
  <2>1. OpenOnce'
    BY <1>1, <1>4, <1>8 DEF PlaceInv, OpenOnce
  <2>2. Open' = Open \ {r} /\ r \in Open
    BY <1>1, <1>4, <1>5, <1>8, PartsOfOpen
  <2>3. Calls!Drop(r)
    BY <1>5, <1>6, <2>2 DEF Calls!Drop
  <2> QED
    BY <1>2, <1>6, <2>1, <2>3
<1> QED
  BY <1>7, <1>8

\* rmw_take_request moves the request to response_queue.
LEMMA TakeRequestPlaces ==
    ASSUME TypeOK, PlaceInv, NEW ok \in BOOLEAN, TakeRequest(ok)
    PROVE  OpenOnce' /\ RepliedOnce' /\ UNCHANGED Calls!vars
<1> DEFINE e == Head(requestQueue)
<1>1. /\ UNCHANGED <<sequenceNum, queries, replies, responses, delivered>>
      /\ requestQueue' = Tail(requestQueue) /\ requestQueue # <<>>
      /\ responseQueue' = Append(responseQueue, e)
      /\ requestQueue \in Seq(Requests) /\ responseQueue \in Seq(Requests)
  BY DEF TakeRequest, TypeOK
<1>2. /\ 1 \in 1..Len(requestQueue) /\ requestQueue[1] = e /\ e \in Requests
      /\ Tail(requestQueue) = RemoveAt(requestQueue, 1)
  BY <1>1, TailIsRemoval
<1> HIDE DEF e
<1>3. e \in ToSet(requestQueue)
  BY <1>1, <1>2 DEF ToSet
<1>4. IsInjective(requestQueue') /\ ToSet(requestQueue') = ToSet(requestQueue) \ {e}
  <2>1. requestQueue' = RemoveAt(requestQueue, 1) /\ IsInjective(requestQueue)
    BY <1>1, <1>2 DEF PlaceInv, OpenOnce
  <2>2. /\ IsInjective(RemoveAt(requestQueue, 1))
        /\ ToSet(RemoveAt(requestQueue, 1)) = ToSet(requestQueue) \ {requestQueue[1]}
    BY <1>1, <1>2, <2>1, InjectiveRemoval
  <2> QED
    BY <1>2, <2>1, <2>2
<1>5. e \notin ToSet(responseQueue)
  BY <1>3 DEF PlaceInv, OpenOnce
<1>6. IsInjective(responseQueue') /\ ToSet(responseQueue') = ToSet(responseQueue) \cup {e}
  BY <1>1, <1>2, <1>5, InjectiveAppend, ElementsAfterAppend DEF PlaceInv, OpenOnce
<1>7. Sent' = Sent
  BY <1>1 DEF Sent
<1>8. OpenOnce'
  BY <1>3, <1>4, <1>6, <1>7 DEF PlaceInv, OpenOnce
<1>9. Open' = Open
  BY <1>3, <1>4, <1>6, <1>7, PartsOfOpen
<1>10. RepliedOnce' /\ Asked' = Asked /\ Replied' = Replied /\ Done' = Done
  BY <1>1, Unseen DEF PlaceInv, RepliedOnce
<1> QED
  BY <1>8, <1>9, <1>10 DEF Calls!vars

\* rmw_send_response replies to the query it picked up, or gives it up.
LEMMA SendResponsePlaces ==
    ASSUME IInv, PlaceInv, NEW r \in held, NEW ok \in BOOLEAN, SendResponse(r, ok)
    PROVE  /\ OpenOnce' /\ RepliedOnce'
           /\ \E x \in Requests : Calls!Reply(x) \/ Calls!Drop(x)
<1>1. PICK i \in Matches(r) :
         /\ responseQueue' = RemoveAt(responseQueue, i)
         /\ replies' = IF ok THEN replies \cup {[query |-> responseQueue[i], answers |-> r]}
                       ELSE replies
  BY HeldHasMatch DEF SendResponse, Respond
<1> DEFINE x == responseQueue[i]
           p == [query |-> x, answers |-> r]
<1>2. /\ i \in 1..Len(responseQueue) /\ responseQueue \in Seq(Requests) /\ x \in Requests
      /\ x \in ToSet(responseQueue)
      /\ UNCHANGED <<sequenceNum, queries, requestQueue, responses, delivered>>
  BY DEF Matches, IInv, TypeOK, SendResponse, ToSet
<1> HIDE DEF x
<1>3. IsInjective(responseQueue') /\ ToSet(responseQueue') = ToSet(responseQueue) \ {x}
  BY <1>1, <1>2, InjectiveRemoval DEF PlaceInv, OpenOnce, x
<1>4. Sent' = Sent /\ Asked' = Asked /\ Done' = Done
  BY <1>2, Unseen DEF Sent
<1>5. OpenOnce'
  BY <1>2, <1>3, <1>4 DEF PlaceInv, OpenOnce
<1>6. x \in Open /\ x \notin Replied /\ Open' = Open \ {x}
  <2>1. x \notin Sent /\ x \notin ToSet(requestQueue)
    BY <1>2 DEF PlaceInv, OpenOnce
  <2> QED
    BY <1>2, <1>3, <1>4, <2>1, PartsOfOpen DEF PlaceInv, Apart
<1>7. CASE ok
  <2>1. replies' = replies \cup {p} /\ p.query = x
    BY <1>1, <1>7 DEF x
  <2> HIDE DEF p
  <2>2. Replying' = Replying \cup {x}
    BY <2>1 DEF Replying
  <2>3. x \notin Replying /\ \A c \in Clients : \A j \in DOMAIN responses[c] : responses[c][j].query # x
    BY <1>6, PartsOfReplied
  <2>4. RepliedOnce'
    <3>1. \A q, o \in replies' : q.query = o.query => q = o
      BY <2>1, <2>3 DEF PlaceInv, RepliedOnce, Replying
    <3> QED
      BY <1>2, <2>2, <2>3, <3>1 DEF PlaceInv, RepliedOnce
  <2>5. Replied' = Replied \cup {x}
    BY <1>2, <2>2, PartsOfReplied
  <2> QED
    BY <1>2, <1>4, <1>5, <1>6, <2>4, <2>5 DEF Calls!Reply
<1>8. CASE ~ok
  <2>1. RepliedOnce' /\ Replied' = Replied
    BY <1>1, <1>2, <1>8, Unseen DEF PlaceInv, RepliedOnce
  <2>2. Calls!Drop(x)
    BY <1>4, <1>6, <2>1 DEF Calls!Drop
  <2> QED
    BY <1>2, <1>5, <2>1, <2>2
<1> QED
  BY <1>7, <1>8

\* _reply_handler queues the reply with the client that asked, or drops it.
LEMMA ReplyHandlerPlaces ==
    ASSUME TypeOK, PlaceInv, NEW p \in replies, NEW ok \in BOOLEAN, ReplyHandler(p, ok)
    PROVE  /\ OpenOnce' /\ RepliedOnce'
           /\ UNCHANGED Calls!vars \/ \E r \in Requests : Calls!Drop(r)
<1> DEFINE r == p.query
           c == p.query.client
<1>1. /\ UNCHANGED <<sequenceNum, queries, requestQueue, responseQueue, delivered>>
      /\ replies' = replies \ {p}
      /\ responses' = IF ok THEN [responses EXCEPT ![c] = Append(responses[c], p)] ELSE responses
  BY DEF ReplyHandler
<1>2. p \in Replies /\ r \in Requests /\ c \in Clients /\ responses \in [Clients -> Seq(Replies)]
  BY DEF TypeOK, Replies, Requests
<1> HIDE DEF r, c
<1>3. OpenOnce' /\ Open' = Open /\ Asked' = Asked /\ Done' = Done
  BY <1>1, Unseen DEF PlaceInv, OpenOnce
<1>4. Replying' = Replying \ {r} /\ r \in Replying
  <2>1. \A o \in replies : o.query = r => o = p
    BY DEF PlaceInv, RepliedOnce, r
  <2> QED
    BY <1>1, <2>1 DEF Replying, r
<1>5. \A q, o \in replies' : q.query = o.query => q = o
  BY <1>1 DEF PlaceInv, RepliedOnce
<1>6. \A d \in Clients : \A j \in DOMAIN responses[d] : responses[d][j].query # r
  BY <1>4 DEF PlaceInv, RepliedOnce
<1>7. CASE ok
  <2> DEFINE s == responses[c]
             t == Append(s, p)
  <2>1. /\ responses'[c] = t /\ \A d \in Clients \ {c} : responses'[d] = responses[d]
        /\ s \in Seq(Replies)
    BY <1>1, <1>2, <1>7
  <2>2. /\ DOMAIN t = 1..(Len(s) + 1) /\ DOMAIN s = 1..Len(s) /\ Len(s) \in Nat
        /\ t[Len(s) + 1] = p /\ \A j \in 1..Len(s) : t[j] = s[j]
    BY <1>2, <2>1
  <2>3. /\ \A j \in DOMAIN s : s[j].query # r /\ s[j].query.client = c /\ s[j].query \notin Replying
        /\ \A i, j \in DOMAIN s : s[i].query = s[j].query => i = j
    BY <1>2, <1>6 DEF PlaceInv, RepliedOnce
  <2> HIDE DEF s, t
  <2>4. \A j \in DOMAIN t : \/ j \in DOMAIN s /\ t[j] = s[j]
                            \/ j = Len(s) + 1 /\ t[j] = p
    BY <2>2
  <2>5. /\ \A i, j \in DOMAIN t : t[i].query = t[j].query => i = j
        /\ \A j \in DOMAIN t : t[j].query.client = c /\ t[j].query \notin Replying'
    BY <1>4, <2>3, <2>4 DEF r, c
  <2>6. RepliedOnce'
    <3>1. \A d \in Clients : \A i, j \in DOMAIN responses'[d] :
             responses'[d][i].query = responses'[d][j].query => i = j
      BY <2>1, <2>5 DEF PlaceInv, RepliedOnce
    <3>2. \A d \in Clients : \A i \in DOMAIN responses'[d] :
             responses'[d][i].query.client = d /\ responses'[d][i].query \notin Replying'
      BY <1>4, <2>1, <2>5 DEF PlaceInv, RepliedOnce
    <3> QED
      BY <1>5, <3>1, <3>2 DEF RepliedOnce
  <2>7. Replied' = Replied
    <3>1. \A x : (\E i \in DOMAIN t : t[i].query = x) <=> (\E i \in DOMAIN s : s[i].query = x) \/ x = r
      <4>1. Len(s) + 1 \in DOMAIN t /\ \A j \in DOMAIN s : j \in DOMAIN t
        BY <2>2
      <4>2. p.query = r
        BY DEF r
      <4> SUFFICES ASSUME NEW x
                   PROVE  (\E i \in DOMAIN t : t[i].query = x)
                             <=> (\E i \in DOMAIN s : s[i].query = x) \/ x = r
        OBVIOUS
      <4>3. ASSUME NEW i \in DOMAIN t, t[i].query = x
            PROVE  (\E j \in DOMAIN s : s[j].query = x) \/ x = r
        BY <2>4, <4>2, <4>3
      <4>4. ASSUME NEW i \in DOMAIN s, s[i].query = x
            PROVE  \E j \in DOMAIN t : t[j].query = x
        BY <2>2, <4>1, <4>4
      <4>5. x = r => \E j \in DOMAIN t : t[j].query = x
        BY <2>2, <4>1, <4>2
      <4> QED
        BY <4>3, <4>4, <4>5
    <3>2. \A x : (\E d \in Clients : \E i \in DOMAIN responses'[d] : responses'[d][i].query = x)
                 <=> (\E d \in Clients : \E i \in DOMAIN responses[d] : responses[d][i].query = x) \/ x = r
      <4>1. \A d \in Clients : \A x :
              (\E i \in DOMAIN responses'[d] : responses'[d][i].query = x)
                 <=> (\E i \in DOMAIN responses[d] : responses[d][i].query = x) \/ (d = c /\ x = r)
        BY <2>1, <3>1 DEF s
      <4> QED
        BY <1>2, <4>1, ZenonT(40)
    <3> QED
      BY <1>4, <3>2, PartsOfReplied
  <2> QED
    BY <1>3, <2>6, <2>7 DEF Calls!vars
<1>8. CASE ~ok
  <2>1. responses' = responses
    BY <1>1, <1>8
  <2>2. RepliedOnce'
    BY <1>4, <1>5, <2>1 DEF PlaceInv, RepliedOnce
  <2>3. Replied' = Replied \ {r} /\ r \in Replied
    BY <1>4, <1>6, <2>1, PartsOfReplied
  <2>4. r \notin Open
    BY <2>3 DEF PlaceInv, Apart
  <2>5. Calls!Drop(r)
    BY <1>3, <2>3, <2>4 DEF Calls!Drop
  <2> QED
    BY <1>2, <1>3, <2>2, <2>5
<1> QED
  BY <1>7, <1>8

\* rmw_take_response hands the oldest response over, or drops it.
LEMMA TakeResponsePlaces ==
    ASSUME TypeOK, PlaceInv, NEW c \in Clients, NEW ok \in BOOLEAN, TakeResponse(c, ok)
    PROVE  /\ OpenOnce' /\ RepliedOnce'
           /\ \E r \in Requests : Calls!Deliver(r) \/ Calls!Drop(r)
<1> DEFINE s == responses[c]
           t == Tail(s)
           h == Head(s)
           r == h.query
<1>1. /\ UNCHANGED <<sequenceNum, queries, requestQueue, responseQueue, replies>>
      /\ responses' = [responses EXCEPT ![c] = t] /\ s # <<>>
      /\ delivered' = IF ok THEN delivered \cup {h} ELSE delivered
      /\ s \in Seq(Replies) /\ responses \in [Clients -> Seq(Replies)]
  BY DEF TakeResponse, TypeOK
<1>2. /\ 1 \in 1..Len(s) /\ s[1] = h /\ h \in Replies /\ t \in Seq(Replies)
      /\ Len(t) = Len(s) - 1 /\ Len(s) \in Nat /\ DOMAIN s = 1..Len(s)
      /\ \A j \in 1..(Len(s) - 1) : t[j] = s[j + 1]
  BY <1>1, HeadTailProperties, TailIsRemoval
<1>3. responses'[c] = t /\ \A d \in Clients \ {c} : responses'[d] = responses[d]
  BY <1>1
<1>4. /\ \A j \in DOMAIN s : s[j].query.client = c /\ s[j].query \notin Replying
      /\ \A i, j \in DOMAIN s : s[i].query = s[j].query => i = j
  BY DEF PlaceInv, RepliedOnce
<1> HIDE DEF s, t, h
<1>5. r \in Requests /\ r.client = c /\ r \notin Replying
  BY <1>2, <1>4 DEF Replies
<1>6. \A j \in DOMAIN t : j + 1 \in DOMAIN s /\ j + 1 # 1 /\ t[j] = s[j + 1]
  BY <1>2
<1>7. \A j \in DOMAIN s : j # 1 => j - 1 \in DOMAIN t /\ t[j - 1] = s[j]
  BY <1>2
<1>8. OpenOnce' /\ Open' = Open /\ Asked' = Asked /\ Replying' = Replying
  BY <1>1, Unseen DEF PlaceInv, OpenOnce, Replying
<1>9. RepliedOnce'
  <2>1. \A i, j \in DOMAIN t : t[i].query = t[j].query => i = j
    BY <1>2, <1>4, <1>6
  <2>2. \A j \in DOMAIN t : t[j].query.client = c /\ t[j].query \notin Replying
    BY <1>4, <1>6
  <2>3. \A d \in Clients : \A i, j \in DOMAIN responses'[d] :
           responses'[d][i].query = responses'[d][j].query => i = j
    BY <1>3, <2>1 DEF PlaceInv, RepliedOnce
  <2>4. \A d \in Clients : \A i \in DOMAIN responses'[d] :
           responses'[d][i].query.client = d /\ responses'[d][i].query \notin Replying'
    BY <1>3, <1>8, <2>2 DEF PlaceInv, RepliedOnce
  <2> QED
    BY <1>1, <2>3, <2>4 DEF PlaceInv, RepliedOnce
<1>10. Replied' = Replied \ {r} /\ r \in Replied
  <2>1. \A x : (\E i \in DOMAIN t : t[i].query = x) <=> (\E i \in DOMAIN s : s[i].query = x) /\ x # r
    <3>1. \A i \in DOMAIN t : t[i].query # r
      BY <1>2, <1>4, <1>6
    <3>2. \A x : \A i \in DOMAIN s : s[i].query = x /\ x # r => \E j \in DOMAIN t : t[j].query = x
      BY <1>2, <1>7
    <3> QED
      BY <1>6, <3>1, <3>2
  <2>2. \A d \in Clients \ {c} : \A i \in DOMAIN responses[d] : responses[d][i].query # r
    BY <1>5 DEF PlaceInv, RepliedOnce
  <2>3. \A x : (\E d \in Clients : \E i \in DOMAIN responses'[d] : responses'[d][i].query = x)
               <=> (\E d \in Clients : \E i \in DOMAIN responses[d] : responses[d][i].query = x) /\ x # r
    BY <1>3, <2>1, <2>2 DEF s
  <2>4. \E d \in Clients : \E i \in DOMAIN responses[d] : responses[d][i].query = r
    BY <1>2 DEF s
  <2> QED
    BY <1>5, <1>8, <2>3, <2>4, PartsOfReplied
<1>11. r \notin Open
  BY <1>10 DEF PlaceInv, Apart
<1>12. CASE ok
  <2>1. Done' = Done \cup {r}
    BY <1>1, <1>12 DEF Done
  <2> QED
    BY <1>5, <1>8, <1>9, <1>10, <2>1 DEF Calls!Deliver
<1>13. CASE ~ok
  <2>1. Done' = Done
    BY <1>1, <1>13, Unseen
  <2>2. Calls!Drop(r)
    BY <1>8, <1>10, <1>11, <2>1 DEF Calls!Drop
  <2> QED
    BY <1>5, <1>8, <1>9, <2>2
<1> QED
  BY <1>12, <1>13

\* Every step is one of RpcCalls, or is not seen there.
LEMMA StepCalls ==
    ASSUME IInv, PlaceInv, [Next]_vars
    PROVE  OpenOnce' /\ RepliedOnce' /\ [Calls!Next]_Calls!vars
<1>1. TypeOK
  BY DEF IInv
<1>2. ASSUME NEW c \in Clients, NEW to \in Destinations(c), SendRequest(c, to)
      PROVE  OpenOnce' /\ RepliedOnce' /\ [Calls!Next]_Calls!vars
  BY <1>1, <1>2, SendRequestPlaces DEF Calls!Next
<1>3. ASSUME NEW q \in queries, NEW ok \in BOOLEAN, StrayRequestHandler(q, ok)
      PROVE  OpenOnce' /\ RepliedOnce' /\ [Calls!Next]_Calls!vars
  BY <1>3, StrayPlaces
<1>4. ASSUME NEW q \in queries, NEW ok \in BOOLEAN, RequestHandler(q, ok)
      PROVE  OpenOnce' /\ RepliedOnce' /\ [Calls!Next]_Calls!vars
  BY <1>1, <1>4, RequestHandlerPlaces DEF Calls!Next
<1>5. ASSUME NEW ok \in BOOLEAN, TakeRequest(ok)
      PROVE  OpenOnce' /\ RepliedOnce' /\ [Calls!Next]_Calls!vars
  BY <1>1, <1>5, TakeRequestPlaces
<1>6. ASSUME NEW r \in held, NEW ok \in BOOLEAN, SendResponse(r, ok)
      PROVE  OpenOnce' /\ RepliedOnce' /\ [Calls!Next]_Calls!vars
  BY <1>6, SendResponsePlaces DEF Calls!Next
<1>7. ASSUME NEW p \in replies, NEW ok \in BOOLEAN, ReplyHandler(p, ok)
      PROVE  OpenOnce' /\ RepliedOnce' /\ [Calls!Next]_Calls!vars
  BY <1>1, <1>7, ReplyHandlerPlaces DEF Calls!Next
<1>8. ASSUME NEW c \in Clients, NEW ok \in BOOLEAN, TakeResponse(c, ok)
      PROVE  OpenOnce' /\ RepliedOnce' /\ [Calls!Next]_Calls!vars
  BY <1>1, <1>8, TakeResponsePlaces DEF Calls!Next
<1>9. CASE UNCHANGED vars
  <2>1. UNCHANGED Calls!vars /\ UNCHANGED Sent /\ UNCHANGED Replying
    BY <1>9, Unseen DEF vars, Calls!vars
  <2> QED
    BY <1>9, <2>1 DEF vars, PlaceInv, OpenOnce, RepliedOnce
<1> QED
  BY <1>2, <1>3, <1>4, <1>5, <1>6, <1>7, <1>8, <1>9 DEF Next

\* In RpcCalls what is open and what is replied to have been asked and stay apart.
LEMMA CallsStayApart ==
    ASSUME Apart, [Calls!Next]_Calls!vars
    PROVE  Apart'
<1>1. ASSUME NEW r \in Requests, Calls!Ask(r) \/ Calls!Reply(r) \/ Calls!Deliver(r) \/ Calls!Drop(r)
      PROVE  Apart'
  BY <1>1 DEF Apart, Calls!Ask, Calls!Reply, Calls!Deliver, Calls!Drop
<1>2. CASE UNCHANGED Calls!vars
  BY <1>2 DEF Calls!vars, Apart
<1> QED
  BY <1>1, <1>2 DEF Calls!Next

\* At first there are no requests.
LEMMA InitPlaces == Init => PlaceInv /\ Calls!Init
<1> SUFFICES ASSUME Init PROVE PlaceInv /\ Calls!Init
  OBVIOUS
<1>1. Sent = {} /\ Replying = {} /\ ToSet(<<>>) = {} /\ Replied = {} /\ Done = {}
  BY DEF Init, Sent, Replying, Replied, Done, ToSet
<1>2. Open = {}
  BY <1>1, PartsOfOpen DEF Init
<1>3. Asked = {}
  <2>1. \A x \in Requests : ~(x.seq <= sequenceNum[x.client])
    <3> SUFFICES ASSUME NEW x \in Requests PROVE ~(x.seq <= sequenceNum[x.client])
      OBVIOUS
    <3>1. x.client \in Clients /\ x.seq \in 1..SeqMax
      BY DEF Requests
    <3> QED
      BY <3>1, BoundAssumption DEF Init
  <2> QED
    BY <2>1 DEF Asked
<1>4. OpenOnce /\ RepliedOnce
  BY <1>1 DEF Init, OpenOnce, RepliedOnce, IsInjective
<1> QED
  BY <1>1, <1>2, <1>3, <1>4 DEF PlaceInv, Apart, Calls!Init

\* A request is in one place in every reachable state.
LEMMA PlaceInvariance == Spec => [](IInv /\ PlaceInv)
<1>1. IInv /\ PlaceInv /\ [Next]_vars => PlaceInv'
  BY StepCalls, CallsStayApart DEF PlaceInv
<1> QED
  BY <1>1, InitInv, StepInv, InitPlaces, PTL DEF Spec

\* Nobody is replied to twice, and a reply goes to an open request only, whatever is lost,
\* cannot be deserialized or overtakes, with any number of clients: ServiceRpc implements
\* RpcCalls.
THEOREM CallsAreAnsweredOnce == Spec => IsRpcCalls
<1>1. Init => Calls!Init
  BY InitPlaces
<1>2. IInv /\ PlaceInv /\ [Next]_vars => [Calls!Next]_Calls!vars
  BY StepCalls
<1> QED
  BY <1>1, <1>2, PlaceInvariance, PTL DEF Spec, IsRpcCalls, Calls!Spec
-----------------------------------------------------------------------------
(* Where responses go.                                                     *)

\* Of a number of which it never held two, the program holds one request at most; the message
\* of what it holds is in response_queue.
ArriveInv ==
    /\ \A r, h \in held : Key(r) = Key(h) => r = h \/ Key(r) \in together
    /\ \A r \in held : Key(r) \in together \/ r \in ToSet(responseQueue)
    /\ ResponsesArrive

\* rmw_take_request: the message it moves is not one that stayed behind.
LEMMA TakeRequestArrive ==
    ASSUME IInv, PlaceInv, ArriveInv, NEW ok \in BOOLEAN, TakeRequest(ok),
           AllReplies' \subseteq AllReplies
    PROVE  ArriveInv'
<1> DEFINE e == Head(requestQueue)
<1>1. /\ responseQueue' = Append(responseQueue, e)
      /\ requestQueue \in Seq(Requests) /\ responseQueue \in Seq(Requests) /\ requestQueue # <<>>
  BY DEF TakeRequest, IInv, TypeOK
<1>2. \/ UNCHANGED <<held, together>>
      \/ /\ held' = held \cup {e}
         /\ together' = together \cup {Key(h) : h \in {x \in held : Key(x) = Key(e)}}
  BY DEF TakeRequest, Hold
<1>3. 1 \in 1..Len(requestQueue) /\ requestQueue[1] = e /\ e \in Requests
  BY <1>1, TailIsRemoval
<1> HIDE DEF e
<1>4. e \in ToSet(requestQueue)
  BY <1>1, <1>3 DEF ToSet
<1>5. e \notin ToSet(responseQueue)
  BY <1>4 DEF PlaceInv, OpenOnce
<1>6. ToSet(responseQueue') = ToSet(responseQueue) \cup {e}
  BY <1>1, <1>3, ElementsAfterAppend
<1>7. held' \subseteq held \cup {e} /\ together \subseteq together'
  BY <1>2
<1>8. ASSUME NEW r \in held', NEW h \in held', Key(r) = Key(h)
      PROVE  r = h \/ Key(r) \in together'
  <2>1. CASE UNCHANGED <<held, together>>
    BY <1>8, <2>1 DEF ArriveInv
  <2>2. CASE /\ held' = held \cup {e}
             /\ together' = together \cup {Key(x) : x \in {y \in held : Key(y) = Key(e)}}
    BY <1>8, <2>2 DEF ArriveInv
  <2> QED
    BY <1>2, <2>1, <2>2
<1>9. ASSUME NEW r \in held' PROVE Key(r) \in together' \/ r \in ToSet(responseQueue')
  BY <1>6, <1>7, <1>9 DEF ArriveInv
<1>10. ASSUME NEW p \in AllReplies', p.query # p.answers, Key(p.answers) \notin together'
       PROVE  \E r \in ToSet(responseQueue') \ held' : Key(r) = Key(p.answers)
  <2>1. PICK r \in ToSet(responseQueue) \ held : Key(r) = Key(p.answers)
    BY <1>7, <1>10 DEF ArriveInv, ResponsesArrive
  <2> QED
    BY <1>5, <1>6, <1>7, <2>1
<1> QED
  BY <1>8, <1>9, <1>10 DEF ArriveInv, ResponsesArrive

\* rmw_send_response: when pickup finds another request of the number, the one that was
\* meant stays behind.
LEMMA SendResponseArrive ==
    ASSUME IInv, PlaceInv, ArriveInv, NEW r \in held, NEW ok \in BOOLEAN, SendResponse(r, ok)
    PROVE  ArriveInv'
<1>1. PICK i \in Matches(r) :
         /\ responseQueue' = RemoveAt(responseQueue, i)
         /\ replies' \subseteq replies \cup {[query |-> responseQueue[i], answers |-> r]}
  BY HeldHasMatch DEF SendResponse, Respond
<1> DEFINE x == responseQueue[i]
<1>2. /\ i \in 1..Len(responseQueue) /\ responseQueue \in Seq(Requests) /\ Key(x) = Key(r)
      /\ UNCHANGED <<responses, delivered, together>> /\ held' = held \ {r}
  BY DEF Matches, IInv, TypeOK, SendResponse
<1> HIDE DEF x
<1>3. ToSet(responseQueue') = ToSet(responseQueue) \ {x}
  BY <1>1, <1>2, InjectiveRemoval DEF PlaceInv, OpenOnce, x
<1>4. \A h \in held' : h # r /\ h \in held
  BY <1>2
<1>5. \A a, b \in held' : Key(a) = Key(b) => a = b \/ Key(a) \in together'
  BY <1>2, <1>4 DEF ArriveInv
<1>6. ASSUME NEW h \in held' PROVE Key(h) \in together' \/ h \in ToSet(responseQueue')
  <2>1. CASE h # x
    BY <1>2, <1>3, <1>4, <2>1 DEF ArriveInv
  <2>2. CASE h = x
    BY <1>2, <1>4, <2>2 DEF ArriveInv
  <2> QED
    BY <2>1, <2>2
<1>7. ASSUME NEW p \in AllReplies', p.query # p.answers, Key(p.answers) \notin together
      PROVE  \E w \in ToSet(responseQueue') \ held' : Key(w) = Key(p.answers)
  <2>1. CASE p \in AllReplies
    <3>1. PICK w \in ToSet(responseQueue) \ held : Key(w) = Key(p.answers)
      BY <1>7, <2>1 DEF ArriveInv, ResponsesArrive
    <3>2. CASE w # x
      BY <1>2, <1>3, <3>1, <3>2
    <3>3. CASE w = x
      <4>1. Key(r) = Key(p.answers) /\ r # x
        BY <1>2, <3>1, <3>3
      <4>2. r \in ToSet(responseQueue)
        BY <1>7, <4>1 DEF ArriveInv
      <4> QED
        BY <1>2, <1>3, <4>1, <4>2
    <3> QED
      BY <3>2, <3>3
  <2>2. CASE p \notin AllReplies
    <3>1. p \in replies' /\ p \notin replies
      BY <1>2, <2>2 DEF AllReplies
    <3>2. p = [query |-> x, answers |-> r]
      BY <1>1, <3>1 DEF x
    <3>3. p.query = x /\ p.answers = r
      BY <3>2
    <3>4. r \in ToSet(responseQueue) /\ r # x
      BY <1>7, <3>3 DEF ArriveInv
    <3> QED
      BY <1>2, <1>3, <3>3, <3>4
  <2> QED
    BY <2>1, <2>2
<1> QED
  BY <1>2, <1>5, <1>6, <1>7 DEF ArriveInv, ResponsesArrive

\* No other step sends a reply or touches response_queue.
LEMMA StepArrive ==
    ASSUME IInv, PlaceInv, ArriveInv, [Next]_vars
    PROVE  ArriveInv'
<1>1. CASE \E r \in held, ok \in BOOLEAN : SendResponse(r, ok)
  BY <1>1, SendResponseArrive
<1>2. CASE ~\E r \in held, ok \in BOOLEAN : SendResponse(r, ok)
  <2>1. AllReplies' \subseteq AllReplies
    BY <1>2, RepliesOnlyMove DEF IInv
  <2>2. CASE \E ok \in BOOLEAN : TakeRequest(ok)
    BY <2>1, <2>2, TakeRequestArrive
  <2>3. CASE UNCHANGED <<held, together, responseQueue>>
    BY <2>1, <2>3 DEF ArriveInv, ResponsesArrive
  <2> QED
    BY <1>2, <2>2, <2>3
       DEF Next, SendRequest, StrayRequestHandler, RequestHandler, ReplyHandler,
           TakeResponse, vars
<1> QED
  BY <1>1, <1>2

\* A response goes astray only where the program has held two requests of its number, or one
\* of its number that could not be deserialized stays in response_queue (rmw_service.c).
THEOREM StraysAreExplained == Spec => []ResponsesArrive
<1>1. Init => ArriveInv
  BY DEF Init, ArriveInv, ResponsesArrive, AllReplies, ToSet
<1>2. IInv /\ PlaceInv /\ ArriveInv /\ [Next]_vars => ArriveInv'
  BY StepArrive
<1>3. ArriveInv => ResponsesArrive
  BY DEF ArriveInv
<1> QED
  BY <1>1, <1>2, <1>3, PlaceInvariance, PTL DEF Spec

\* The program has never held two requests of one number at once.
HoldsOne == together = {}

\* A program that responds to a request before it takes the next one never does.
LEMMA PromptProgramHoldsOne == HoldMax = 1 => (Spec => []HoldsOne)
<1> SUFFICES ASSUME HoldMax = 1 PROVE Spec => []HoldsOne
  OBVIOUS
<1>1. IInv /\ HoldsOne /\ [Next]_vars => HoldsOne'
  <2> SUFFICES ASSUME IInv, HoldsOne, [Next]_vars PROVE HoldsOne'
    OBVIOUS
  <2>1. ASSUME NEW ok \in BOOLEAN, TakeRequest(ok) PROVE HoldsOne'
    <3>1. IsFiniteSet(held) /\ Cardinality(held) \in Nat
      BY FS_CardinalityType DEF IInv
    <3>2. Cardinality(held) = 0
      BY <2>1, <3>1 DEF TakeRequest
    <3>3. held = {}
      BY <3>1, <3>2, FS_EmptySet
    <3> QED
      BY <2>1, <3>3 DEF TakeRequest, Hold, HoldsOne
  <2> QED
    BY <2>1
       DEF Next, SendRequest, StrayRequestHandler, RequestHandler, SendResponse, ReplyHandler,
           TakeResponse, vars, HoldsOne
<1>2. Init => HoldsOne
  BY DEF Init, HoldsOne
<1> QED
  BY <1>1, <1>2, Invariance, PTL DEF Spec

\* A response goes to the request it is for, unless a message of its number that the program
\* does not hold is in response_queue.
OnlyLeftoversMislead ==
    \A p \in AllReplies : p.query # p.answers =>
        \E r \in ToSet(responseQueue) \ held : Key(r) = Key(p.answers)

\* A program that responds to a request before it takes the next one, as rclc's executor does,
\* has its responses arrive where they belong until a request of the same number could not be
\* deserialized and was queued for a response all the same (rmw_service.c:517).
THEOREM PromptResponsesAreRight == HoldMax = 1 => (Spec => []OnlyLeftoversMislead)
<1> SUFFICES ASSUME HoldMax = 1 PROVE Spec => []OnlyLeftoversMislead
  OBVIOUS
<1>1. Spec => []HoldsOne
  BY PromptProgramHoldsOne
<1>2. HoldsOne /\ ResponsesArrive => OnlyLeftoversMislead
  BY DEF HoldsOne, ResponsesArrive, OnlyLeftoversMislead
<1> QED
  BY <1>1, <1>2, StraysAreExplained, PTL

=============================================================================
