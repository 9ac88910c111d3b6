---------------------------- MODULE PubSubProofs ----------------------------
(***************************************************************************)
(* Proofs about PubSub, for any publishers, subscriptions, services,       *)
(* clients, threads and topics and any bounds.                             *)
(***************************************************************************)
EXTENDS PubSub, SeqRemoval, NaturalsInduction

\* Every endpoint has a value, and its id is a number.
EntityInv ==
    /\ entity = [e \in Endpoints |-> entity[e]]
    /\ \A e \in Endpoints : Created(e) => entity[e].id \in Nat

IInv == TypeOK /\ EntityInv /\ SequenceReports

-----------------------------------------------------------------------------

\* Nothing is created, published or taken at first.
LEMMA InitInv == Init => IInv
<1> SUFFICES ASSUME Init PROVE IInv
  OBVIOUS
<1> USE DEF Init
<1>1. \A e \in Endpoints : ~Created(e)
  BY DEF Created
<1>2. nextId \in [Zids -> Nat] /\ seq \in [Publishers -> Nat] /\ thread \in [Threads -> ThreadState]
  BY DEF ThreadState
<1>3. link \in [Subscriptions -> [Publishers -> Seq(Nat \ {0})]]
  OBVIOUS
<1>4. /\ queue \in [Subscriptions -> Seq(Sample)] /\ taken \in [Subscriptions -> Seq(Sample)]
      /\ missed \in [Subscriptions -> SUBSET Sample]
  OBVIOUS
<1>5. call \in [Subscriptions -> [want : Nat, have : Nat, first : Nat,
                                  ret : {"none", "running", "ok", "error"}]]
  BY DEF NoCall
<1>6. SequenceReports
  BY DEF SequenceReports, NoCall
<1>7. EntityInv
  BY <1>1 DEF EntityInv
<1> QED
  BY <1>1, <1>2, <1>3, <1>4, <1>5, <1>6, <1>7 DEF IInv, TypeOK

\* The types of what only publishing and taking change.
MessageTypes ==
    /\ seq \in [Publishers -> Nat]
    /\ thread \in [Threads -> ThreadState]
    /\ link \in [Subscriptions -> [Publishers -> Seq(Nat \ {0})]]
    /\ queue \in [Subscriptions -> Seq(Sample)]
    /\ call \in [Subscriptions -> [want : Nat, have : Nat, first : Nat,
                                   ret : {"none", "running", "ok", "error"}]]
    /\ taken \in [Subscriptions -> Seq(Sample)]
    /\ missed \in [Subscriptions -> SUBSET Sample]

\* Steps after creation need to look at these types and the calls only.
LEMMA Frame ==
    ASSUME IInv, UNCHANGED <<entity, nextId>>, MessageTypes', SequenceReports'
    PROVE  IInv'
BY DEF IInv, TypeOK, EntityInv, MessageTypes, Created

\* A new entity takes the next id of its session.
LEMMA GenerateInv ==
    ASSUME IInv, NEW e \in Endpoints, NEW topic, topic.name \in {t.name : t \in Topics[e]},
           Generate(e, topic)
    PROVE  IInv'
<1> DEFINE zid == Node[e].zid.text
           new == [id |-> nextId[zid], topic |-> topic]
<1>1. /\ entity' = [entity EXCEPT ![e] = new]
      /\ nextId' = [nextId EXCEPT ![zid] = nextId[zid] + 1]
      /\ UNCHANGED <<seq, thread, link, queue, call, taken, missed>>
  BY DEF Generate
<1>2. zid \in Zids /\ nextId \in [Zids -> Nat] /\ nextId[zid] \in Nat
  BY DEF Zids, IInv, TypeOK
<1>3. /\ nextId' \in [Zids -> Nat] /\ nextId'[zid] = nextId[zid] + 1
      /\ \A z \in Zids : nextId'[z] = nextId[z] \/ nextId'[z] = nextId[z] + 1
  BY <1>1, <1>2
<1>4. /\ entity'[e] = new /\ \A x \in Endpoints \ {e} : entity'[x] = entity[x]
      /\ entity' = [x \in Endpoints |-> entity'[x]]
  BY <1>1 DEF IInv, EntityInv
<1>5. new.id = nextId[zid] /\ new.topic.name = topic.name
  OBVIOUS
<1>6. ASSUME NEW x \in Endpoints, Created(x)'
      PROVE  /\ entity'[x].id \in Nat
             /\ entity'[x].id < nextId'[Node[x].zid.text]
             /\ entity'[x].topic.name \in {t.name : t \in Topics[x]}
  <2>1. CASE x = e
    BY <1>2, <1>3, <1>4, <1>5, <2>1
  <2>2. CASE x # e
    <3>1. entity'[x] = entity[x] /\ Created(x)
      BY <1>4, <1>6, <2>2 DEF Created
    <3>2. /\ entity[x].id \in Nat /\ entity[x].id < nextId[Node[x].zid.text]
          /\ entity[x].topic.name \in {t.name : t \in Topics[x]}
      BY <3>1 DEF IInv, TypeOK, EntityInv
    <3>3. Node[x].zid.text \in Zids
      BY DEF Zids
    <3>4. nextId[Node[x].zid.text] \in Nat /\ nextId'[Node[x].zid.text] \in Nat
      BY <1>2, <1>3, <3>3
    <3> QED
      BY <1>3, <3>1, <3>2, <3>3, <3>4
  <2> QED
    BY <2>1, <2>2
<1> HIDE DEF new, zid
<1>7. TypeOK'
  BY <1>1, <1>3, <1>6 DEF IInv, TypeOK
<1>8. EntityInv'
  BY <1>4, <1>6 DEF EntityInv
<1>9. SequenceReports'
  BY <1>1 DEF IInv, SequenceReports
<1> QED
  BY <1>7, <1>8, <1>9 DEF IInv

\* A publisher, subscription, service or client is created.
LEMMA CreateInv ==
    ASSUME IInv, NEW e \in Endpoints, NEW topic \in Topics[e],
           Create(e, topic) \/ CreateService(e, topic)
    PROVE  IInv'
<1>1. topic.name \in {t.name : t \in Topics[e]}
  OBVIOUS
<1>2. CASE Create(e, topic)
  BY <1>1, <1>2, GenerateInv DEF Create
<1>3. CASE CreateService(e, topic)
  <2> DEFINE converted == [topic EXCEPT !.type = ServiceType(@)]
  <2>1. Generate(e, converted)
    BY <1>3 DEF CreateService
  <2>2. converted.name = topic.name
    OBVIOUS
  <2> QED
    BY <1>1, <2>1, <2>2, GenerateInv
<1> QED
  BY <1>2, <1>3

\* rmw_publish, which no call of rmw_take_sequence sees.
LEMMA PublishInv ==
    ASSUME IInv, NEW t \in Threads,
           \/ \E p \in Publishers : Serialize(t, p)
           \/ TakeNumber(t)
           \/ \E reached \in SUBSET Subscriptions : Put(t, reached)
    PROVE  IInv'
<1>1. UNCHANGED <<entity, nextId, queue, call, taken>>
  BY DEF Serialize, TakeNumber, Put
<1>2. SequenceReports'
  BY <1>1 DEF IInv, SequenceReports
<1>3. MessageTypes /\ thread[t] \in ThreadState
  BY DEF IInv, TypeOK, MessageTypes
<1>4. MessageTypes'
  <2>1. ASSUME NEW p \in Publishers, Serialize(t, p) PROVE MessageTypes'
    <3>1. [at |-> "serialized", pub |-> p, number |-> 0] \in ThreadState
      BY DEF ThreadState
    <3>2. thread' \in [Threads -> ThreadState]
      BY <1>3, <2>1, <3>1 DEF Serialize, MessageTypes
    <3> QED
      BY <1>1, <1>3, <2>1, <3>2 DEF Serialize, MessageTypes
  <2>2. CASE TakeNumber(t)
    <3> DEFINE p == thread[t].pub
    <3>1. thread[t] \in [at : {"serialized"}, pub : Publishers, number : {0}]
      BY <1>3, <2>2 DEF TakeNumber, ThreadState, Idle
    <3>2. p \in Publishers /\ seq[p] \in Nat
      BY <1>3, <3>1 DEF MessageTypes
    <3>3. seq[p] + 1 \in Nat \ {0} /\ seq' = [seq EXCEPT ![p] = seq[p] + 1]
      BY <2>2, <3>2 DEF TakeNumber
    <3>4. seq' \in [Publishers -> Nat]
      BY <1>3, <3>2, <3>3 DEF MessageTypes
    <3>5. /\ [thread[t] EXCEPT !.at = "numbered", !.number = seq[p] + 1] \in ThreadState
          /\ Idle \in ThreadState
      BY <3>1, <3>3 DEF ThreadState
    <3>6. thread' \in [Threads -> ThreadState]
      <4>1. \/ thread' = [thread EXCEPT ![t] = [thread[t] EXCEPT !.at = "numbered", !.number = seq[p] + 1]]
            \/ thread' = [thread EXCEPT ![t] = Idle]
        BY <2>2 DEF TakeNumber, Numbered
      <4> QED
        BY <1>3, <3>5, <4>1 DEF MessageTypes
    <3>7. missed' \in [Subscriptions -> SUBSET Sample]
      <4>1. Sent(p, seq[p] + 1) \in Sample
        BY <3>2, <3>3 DEF Sent, Sample
      <4> QED
        BY <1>3, <2>2, <4>1 DEF TakeNumber, MessageTypes
    <3>8. link' = link
      BY <2>2 DEF TakeNumber
    <3> QED
      BY <1>1, <1>3, <3>4, <3>6, <3>7, <3>8 DEF MessageTypes
  <2>3. ASSUME NEW reached \in SUBSET Subscriptions, Put(t, reached) PROVE MessageTypes'
    <3> DEFINE p == thread[t].pub
               n == thread[t].number
    <3>1. p \in Publishers /\ n \in Nat \ {0}
      BY <1>3, <2>3 DEF Put, ThreadState, Idle
    <3>2. ASSUME NEW s \in Subscriptions
          PROVE  [link[s] EXCEPT ![p] = Append(@, n)] \in [Publishers -> Seq(Nat \ {0})]
      <4>1. link[s] \in [Publishers -> Seq(Nat \ {0})] /\ link[s][p] \in Seq(Nat \ {0})
        BY <1>3, <3>1 DEF MessageTypes
      <4>2. Append(link[s][p], n) \in Seq(Nat \ {0})
        BY <3>1, <4>1, AppendProperties
      <4> QED
        BY <4>1, <4>2
    <3>3. link' \in [Subscriptions -> [Publishers -> Seq(Nat \ {0})]]
      BY <1>3, <2>3, <3>2 DEF Put, MessageTypes
    <3>4. missed' \in [Subscriptions -> SUBSET Sample]
      <4>1. Sent(p, n) \in Sample
        BY <3>1 DEF Sent, Sample
      <4> QED
        BY <1>3, <2>3, <4>1 DEF Put, MessageTypes
    <3>5. thread' \in [Threads -> ThreadState] /\ seq' = seq
      <4>1. Idle \in ThreadState
        BY DEF ThreadState
      <4> QED
        BY <1>3, <2>3, <4>1 DEF Put, MessageTypes
    <3> QED
      BY <1>1, <1>3, <3>3, <3>4, <3>5 DEF MessageTypes
  <2> QED
    BY <2>1, <2>2, <2>3
<1> QED
  BY <1>1, <1>2, <1>4, Frame

\* The handler of a subscription moves a sample from the network to the queue or loses it.
LEMMA HandlerInv ==
    ASSUME IInv, NEW s \in Subscriptions, NEW p \in Publishers, Handler(s, p)
    PROVE  IInv'
<1> DEFINE n == Head(link[s][p])
<1>1. UNCHANGED <<entity, nextId, seq, thread, call, taken>>
  BY DEF Handler
<1>2. SequenceReports'
  BY <1>1 DEF IInv, SequenceReports
<1>3. MessageTypes
  BY DEF IInv, TypeOK, MessageTypes
<1>4. link[s] \in [Publishers -> Seq(Nat \ {0})] /\ link[s][p] \in Seq(Nat \ {0}) /\ link[s][p] # <<>>
  BY <1>3 DEF MessageTypes, Handler
<1>5. n \in Nat \ {0} /\ Tail(link[s][p]) \in Seq(Nat \ {0})
  BY <1>4, HeadTailProperties
<1>6. link' \in [Subscriptions -> [Publishers -> Seq(Nat \ {0})]]
  <2>1. link' = [link EXCEPT ![s] = [link[s] EXCEPT ![p] = Tail(link[s][p])]]
    BY DEF Handler
  <2>2. [link[s] EXCEPT ![p] = Tail(link[s][p])] \in [Publishers -> Seq(Nat \ {0})]
    BY <1>4, <1>5
  <2> QED
    BY <1>3, <2>1, <2>2 DEF MessageTypes
<1>7. queue' \in [Subscriptions -> Seq(Sample)] /\ missed' \in [Subscriptions -> SUBSET Sample]
  <2>1. Sent(p, n) \in Sample
    BY <1>5 DEF Sent, Sample
  <2>2. queue[s] \in Seq(Sample)
    BY <1>3 DEF MessageTypes
  <2>3. Append(queue[s], Sent(p, n)) \in Seq(Sample)
    BY <2>1, <2>2, AppendProperties
  <2> HIDE DEF n
  <2>4. \/ queue' = [queue EXCEPT ![s] = Append(queue[s], Sent(p, n))] /\ missed' = missed
        \/ missed' = [missed EXCEPT ![s] = missed[s] \cup {Sent(p, n)}] /\ queue' = queue
    BY DEF Handler, n
  <2>5. queue \in [Subscriptions -> Seq(Sample)] /\ missed \in [Subscriptions -> SUBSET Sample]
    BY <1>3 DEF MessageTypes
  <2>6. queue' \in [Subscriptions -> Seq(Sample)]
    BY <2>3, <2>4, <2>5
  <2>7. missed' \in [Subscriptions -> SUBSET Sample]
    BY <2>1, <2>4, <2>5
  <2> QED
    BY <2>6, <2>7
<1>8. MessageTypes'
  BY <1>1, <1>3, <1>6, <1>7 DEF MessageTypes
<1> QED
  BY <1>1, <1>2, <1>8, Frame

\* What rmw_zenoh_pico_take_one does: at most one message more is handed out.
LEMMA TakeOneTypes ==
    ASSUME IInv, NEW s \in Subscriptions, NEW decoded \in BOOLEAN, TakeOne(s, decoded)
    PROVE  /\ queue' \in [Subscriptions -> Seq(Sample)]
           /\ taken' \in [Subscriptions -> Seq(Sample)]
           /\ missed' \in [Subscriptions -> SUBSET Sample]
           /\ Len(taken'[s]) = Len(taken[s]) + (IF decoded THEN 1 ELSE 0)
           /\ \A u \in Subscriptions \ {s} : taken'[u] = taken[u]
<1> DEFINE head == Head(queue[s])
<1>1. /\ queue \in [Subscriptions -> Seq(Sample)] /\ taken \in [Subscriptions -> Seq(Sample)]
      /\ missed \in [Subscriptions -> SUBSET Sample]
  BY DEF IInv, TypeOK
<1>2. queue[s] \in Seq(Sample) /\ queue[s] # <<>> /\ taken[s] \in Seq(Sample)
  BY <1>1 DEF TakeOne
<1>3. head \in Sample /\ Tail(queue[s]) \in Seq(Sample)
  BY <1>2, HeadTailProperties
<1>4. Append(taken[s], head) \in Seq(Sample) /\ Len(Append(taken[s], head)) = Len(taken[s]) + 1
  BY <1>2, <1>3, AppendProperties
<1>5. queue' = [queue EXCEPT ![s] = Tail(queue[s])]
  BY DEF TakeOne
<1>6. Len(taken[s]) + 0 = Len(taken[s])
  BY <1>2, LenProperties
<1>7. decoded => taken' = [taken EXCEPT ![s] = Append(taken[s], head)] /\ missed' = missed
  BY DEF TakeOne
<1>8. ~decoded => missed' = [missed EXCEPT ![s] = missed[s] \cup {head}] /\ taken' = taken
  BY DEF TakeOne
<1> HIDE DEF head
<1>9. queue' \in [Subscriptions -> Seq(Sample)]
  BY <1>1, <1>3, <1>5
<1>10. CASE decoded
  BY <1>1, <1>4, <1>7, <1>9, <1>10
<1>11. CASE ~decoded
  <2>1. missed' \in [Subscriptions -> SUBSET Sample]
    BY <1>1, <1>3, <1>8, <1>11
  <2> QED
    BY <1>1, <1>6, <1>8, <1>9, <1>11, <2>1
<1> QED
  BY <1>10, <1>11

\* One subscription's call and what it took, when nothing of another subscription changes.
LEMMA OneCall ==
    ASSUME IInv, NEW s \in Subscriptions,
           \A u \in Subscriptions \ {s} : call'[u] = call[u] /\ taken'[u] = taken[u],
           call'[s].ret # "none" =>
               /\ call'[s].ret # "ok" => call'[s].have < call'[s].want
               /\ call'[s].have <= call'[s].want
               /\ call'[s].ret = "running" => Len(taken'[s]) = call'[s].first + call'[s].have
               /\ Len(taken'[s]) >= call'[s].first + call'[s].have
    PROVE  SequenceReports'
BY DEF IInv, SequenceReports

\* rmw_take does not run while the program is in rmw_take_sequence.
LEMMA RmwTakeInv ==
    ASSUME IInv, NEW s \in Subscriptions, NEW decoded \in BOOLEAN, RmwTake(s, decoded)
    PROVE  IInv'
<1> USE DEF RmwTake
<1>1. MessageTypes'
  BY TakeOneTypes DEF IInv, TypeOK, MessageTypes
<1>2. /\ call'[s] = call[s] /\ call[s].ret # "running"
      /\ call[s].have \in Nat /\ call[s].first \in Nat /\ Len(taken[s]) \in Nat
  BY LenProperties DEF IInv, TypeOK
<1>3. Len(taken'[s]) >= Len(taken[s])
  <2>1. Len(taken'[s]) = Len(taken[s]) + (IF decoded THEN 1 ELSE 0)
    BY TakeOneTypes
  <2>2. Len(taken'[s]) = Len(taken[s]) + 1 \/ Len(taken'[s]) = Len(taken[s]) + 0
    BY <2>1
  <2> QED
    BY <1>2, <2>2
<1>4. SequenceReports'
  <2>1. \A u \in Subscriptions \ {s} : call'[u] = call[u] /\ taken'[u] = taken[u]
    BY TakeOneTypes
  <2>2. call[s].ret # "none" =>
            /\ call[s].ret # "ok" => call[s].have < call[s].want
            /\ call[s].have <= call[s].want
            /\ Len(taken[s]) >= call[s].first + call[s].have
    BY DEF IInv, SequenceReports
  <2>3. Len(taken'[s]) \in Nat
    BY <1>1, LenProperties DEF MessageTypes
  <2>4. call[s].ret # "none" => Len(taken'[s]) >= call[s].first + call[s].have
    BY <1>2, <1>3, <2>2, <2>3
  <2> QED
    BY <1>2, <2>1, <2>2, <2>4, OneCall
<1> QED
  BY <1>1, <1>4, Frame

\* A turn of the loop of rmw_take_sequence.
LEMMA TakeNextInv ==
    ASSUME IInv, NEW s \in Subscriptions, NEW decoded \in BOOLEAN, TakeNext(s, decoded)
    PROVE  IInv'
<1> USE DEF TakeNext
<1> DEFINE c == call[s]
           next == call'[s]
<1>1. /\ call \in [Subscriptions -> [want : Nat, have : Nat, first : Nat,
                                     ret : {"none", "running", "ok", "error"}]]
      /\ c.want \in Nat /\ c.have \in Nat /\ c.first \in Nat /\ Len(taken[s]) \in Nat
      /\ c.ret = "running"
  BY LenProperties DEF IInv, TypeOK
<1>2. c.have < c.want /\ Len(taken[s]) = c.first + c.have
  BY <1>1 DEF IInv, SequenceReports
<1>3. c.have < c.want
  BY <1>1, <1>2
<1>4. /\ next.want = c.want /\ next.first = c.first
      /\ next.have = c.have + (IF decoded THEN 1 ELSE 0)
      /\ next.ret = (IF ~decoded THEN "error"
                     ELSE IF c.have + 1 = c.want THEN "ok" ELSE "running")
      /\ call' \in [Subscriptions -> [want : Nat, have : Nat, first : Nat,
                                      ret : {"none", "running", "ok", "error"}]]
      /\ \A u \in Subscriptions \ {s} : call'[u] = call[u]
  <2>1. CASE decoded
    <3> DEFINE new == [c EXCEPT !.have = c.have + 1,
                                !.ret = IF c.have + 1 = c.want THEN "ok" ELSE @]
    <3>1. call' = [call EXCEPT ![s] = new]
      BY <2>1
    <3>2. /\ new \in [want : Nat, have : Nat, first : Nat, ret : {"none", "running", "ok", "error"}]
          /\ new.want = c.want /\ new.first = c.first /\ new.have = c.have + 1
          /\ new.ret = IF c.have + 1 = c.want THEN "ok" ELSE "running"
      <4> DEFINE ret == IF c.have + 1 = c.want THEN "ok" ELSE c.ret
      <4>1. ret \in {"running", "ok"} /\ ret = IF c.have + 1 = c.want THEN "ok" ELSE "running"
        BY <1>1
      <4>2. c \in [want : Nat, have : Nat, first : Nat, ret : {"none", "running", "ok", "error"}]
            /\ c.have + 1 \in Nat
        BY <1>1
      <4>3. new = [c EXCEPT !.have = c.have + 1, !.ret = ret]
        BY <4>2
      <4> HIDE DEF new, ret, c
      <4> QED
        BY <4>1, <4>2, <4>3
    <3> HIDE DEF new
    <3> QED
      BY <1>1, <2>1, <3>1, <3>2
  <2>2. CASE ~decoded
    <3> DEFINE new == [c EXCEPT !.ret = "error"]
    <3>1. call' = [call EXCEPT ![s] = new]
      BY <2>2
    <3>2. /\ new \in [want : Nat, have : Nat, first : Nat, ret : {"none", "running", "ok", "error"}]
          /\ new.want = c.want /\ new.first = c.first /\ new.have = c.have /\ new.ret = "error"
      BY <1>1
    <3>3. c.have + 0 = c.have
      BY <1>1
    <3> HIDE DEF new
    <3> QED
      BY <1>1, <2>2, <3>1, <3>2, <3>3
  <2> QED
    BY <2>1, <2>2
<1> HIDE DEF c, next
<1>5. MessageTypes'
  <2>1. UNCHANGED <<seq, thread, link>> /\ MessageTypes
    BY DEF IInv, TypeOK, MessageTypes, TakeOne
  <2>2. /\ queue' \in [Subscriptions -> Seq(Sample)]
        /\ taken' \in [Subscriptions -> Seq(Sample)]
        /\ missed' \in [Subscriptions -> SUBSET Sample]
    BY TakeOneTypes
  <2> HIDE DEF TakeNext
  <2> QED
    BY <1>4, <2>1, <2>2 DEF MessageTypes
<1>6. /\ next.ret # "ok" => next.have < next.want
      /\ next.have <= next.want
      /\ Len(taken'[s]) = next.first + next.have
      /\ Len(taken'[s]) >= next.first + next.have
  <2>1. Len(taken'[s]) = Len(taken[s]) + (IF decoded THEN 1 ELSE 0)
    BY TakeOneTypes
  <2>2. CASE decoded
    <3>1. /\ next.have = c.have + 1 /\ next.want = c.want /\ next.first = c.first
          /\ Len(taken'[s]) = Len(taken[s]) + 1
      BY <1>4, <2>1, <2>2
    <3>2. next.ret # "ok" => c.have + 1 # c.want
      BY <1>4, <2>2
    <3> HIDE DEF TakeNext
    <3>3. c.have + 1 <= c.want
      BY <1>1, <1>3
    <3>4. Len(taken[s]) + 1 = c.first + (c.have + 1)
      BY <1>1, <1>2
    <3>5. Len(taken'[s]) = c.first + (c.have + 1)
      BY <3>1, <3>4
    <3> QED
      BY <1>1, <3>1, <3>2, <3>3, <3>5
  <2>3. CASE ~decoded
    BY <1>1, <1>2, <1>3, <1>4, <2>1, <2>3
  <2> QED
    BY <2>2, <2>3
<1>7. SequenceReports'
  <2>1. \A u \in Subscriptions \ {s} : call'[u] = call[u] /\ taken'[u] = taken[u]
    BY <1>4, TakeOneTypes, ZenonT(60)
  <2> QED
    BY <1>6, <2>1, OneCall DEF next
<1> QED
  BY <1>5, <1>7, Frame

\* The begin of rmw_take_sequence.
LEMMA SequenceInv ==
    ASSUME IInv, NEW s \in Subscriptions, NEW count \in 1..CountMax, TakeSequence(s, count)
    PROVE  IInv'
<1> USE DEF TakeSequence
<1> DEFINE C == [want : Nat, have : Nat, first : Nat, ret : {"none", "running", "ok", "error"}]
           new == [want |-> count, have |-> 0, ret |-> "running", first |-> Len(taken[s])]
<1>1. call \in [Subscriptions -> C] /\ Len(taken[s]) \in Nat
  BY LenProperties DEF IInv, TypeOK
<1>2. count \in Nat /\ count # 0
  BY BoundAssumption
<1>3. call' = [call EXCEPT ![s] = new] /\ new \in C
  BY <1>1, <1>2
<1>4. MessageTypes'
  BY <1>1, <1>3 DEF IInv, TypeOK, MessageTypes
<1>5. call'[s] = new /\ taken' = taken /\ \A u \in Subscriptions \ {s} : call'[u] = call[u]
  BY <1>1, <1>3
<1>6. /\ new.ret = "running" /\ new.have = 0 /\ new.want = count /\ new.first = Len(taken[s])
      /\ Len(taken[s]) = new.first + new.have
  BY <1>1
<1> HIDE DEF new
<1>7. SequenceReports'
  BY <1>1, <1>2, <1>5, <1>6, OneCall
<1> QED
  BY <1>4, <1>7, Frame

\* Its end with an empty queue.
LEMMA SequenceEndInv ==
    ASSUME IInv, NEW s \in Subscriptions, TakeNothing(s)
    PROVE  IInv'
<1> USE DEF TakeNothing
<1> DEFINE C == [want : Nat, have : Nat, first : Nat, ret : {"none", "running", "ok", "error"}]
           new == [call[s] EXCEPT !.ret = "error"]
<1>1. call \in [Subscriptions -> C] /\ call[s] \in C
  BY DEF IInv, TypeOK
<1>2. /\ call' = [call EXCEPT ![s] = new] /\ new \in C /\ new.ret = "error"
      /\ new.have = call[s].have /\ new.want = call[s].want /\ new.first = call[s].first
  BY <1>1
<1> HIDE DEF new
<1>3. MessageTypes'
  <2>1. UNCHANGED <<seq, thread, link, queue, taken, missed>> /\ MessageTypes
    BY DEF IInv, TypeOK, MessageTypes
  <2>2. call' \in [Subscriptions -> C]
    BY <1>1, <1>2
  <2> HIDE DEF TakeNothing
  <2> QED
    BY <2>1, <2>2 DEF MessageTypes
<1>4. call'[s] = new /\ taken' = taken /\ \A u \in Subscriptions \ {s} : call'[u] = call[u]
  BY <1>1, <1>2
<1>5. /\ call[s].have < call[s].want /\ call[s].have <= call[s].want
      /\ Len(taken[s]) >= call[s].first + call[s].have
  BY DEF IInv, SequenceReports
<1>6. SequenceReports'
  BY <1>2, <1>4, <1>5, OneCall
<1> QED
  BY <1>3, <1>6, Frame

-----------------------------------------------------------------------------
(* The theorems.                                                           *)

\* Every step keeps the invariant.
LEMMA StepInv == IInv /\ [Next]_vars => IInv'
<1> SUFFICES ASSUME IInv, [Next]_vars PROVE IInv'
  OBVIOUS
<1>1. CASE UNCHANGED vars
  BY <1>1, Frame DEF vars, MessageTypes, SequenceReports, IInv, TypeOK
<1>2. CASE \E e \in Endpoints : \E topic \in Topics[e] : Create(e, topic) \/ CreateService(e, topic)
  BY <1>2, CreateInv
<1>3. CASE \E t \in Threads : \/ \E p \in Publishers : Serialize(t, p)
                              \/ TakeNumber(t)
                              \/ \E reached \in SUBSET Subscriptions : Put(t, reached)
  BY <1>3, PublishInv
<1>4. CASE \E s \in Subscriptions : \/ ReadTask(s) \/ Taker(s)
                                    \/ \E count \in 1..CountMax : TakeSequence(s, count)
  <2>1. PICK s \in Subscriptions : \/ ReadTask(s) \/ Taker(s)
                                   \/ \E count \in 1..CountMax : TakeSequence(s, count)
    BY <1>4
  <2>2. CASE ReadTask(s)
    BY <2>2, HandlerInv DEF ReadTask
  <2>3. CASE \E decoded \in BOOLEAN : RmwTake(s, decoded) \/ TakeNext(s, decoded)
    BY <2>3, RmwTakeInv, TakeNextInv
  <2>4. CASE \E count \in 1..CountMax : TakeSequence(s, count)
    BY <2>4, SequenceInv
  <2>5. CASE TakeNothing(s)
    BY <2>5, SequenceEndInv
  <2> QED
    BY <2>1, <2>2, <2>3, <2>4, <2>5 DEF Taker
<1> QED
  BY <1>1, <1>2, <1>3, <1>4 DEF Next

\* So it holds in every state.
LEMMA Invariance == Spec => []IInv
<1>1. Init => IInv
  BY InitInv
<1>2. IInv /\ [Next]_vars => IInv'
  BY StepInv
<1> QED
  BY <1>1, <1>2, PTL DEF Spec

\* Numbers, links, queues and calls keep their types, and an entity's id is one its session
\* has given out.
THEOREM TypeCorrect == Spec => []TypeOK
BY Invariance, PTL DEF IInv

\* rmw_take_sequence reports exactly what it handed out, for any number of threads that publish
\* meanwhile and any count (rmw_take.c:149-176).
THEOREM SequencesAreReported == Spec => []SequenceReports
BY Invariance, PTL DEF IInv

-----------------------------------------------------------------------------
(* The samples of a publisher, on their way to a subscription.             *)

Earlier == {ab \in Sample \X Sample : ab[1].from = ab[2].from => ab[1].number < ab[2].number}
Smaller == {mn \in Nat \X Nat : mn[1] < mn[2]}

\* The newest number whose rmw_publish has ended.
Newest(p) == IF Locked(p) THEN seq[p] - 1 ELSE seq[p]

\* The numbers of p that came to s, that are on their way to it, that it will never take.
Came(s, p) == {n \in Nat \ {0} : Sent(p, n) \in ToSet(taken[s]) \cup ToSet(queue[s])}
Coming(s, p) == ToSet(link[s][p])
Gone(s, p) == {n \in Nat \ {0} : Sent(p, n) \in missed[s]}

\* Under the lock of a publisher one thread has a number, and that is the newest.
LockInv ==
    /\ \A t \in Threads : thread[t].at = "numbered" => thread[t].number = seq[thread[t].pub]
    /\ \A t, u \in Threads :
          thread[t].at = "numbered" /\ thread[u].at = "numbered" /\ thread[t].pub = thread[u].pub
          => t = u

\* What was taken and what is in the queue are in the order of their numbers.
OrderOf(s) ==
    /\ Ordered(taken[s], Earlier) /\ Ordered(queue[s], Earlier)
    /\ \A a \in ToSet(taken[s]), b \in ToSet(queue[s]) : <<a, b>> \in Earlier

\* So is what follows, and no number is missing or in two places.
FlowOf(s, p) ==
    /\ Ordered(link[s][p], Smaller)
    /\ \A m \in Came(s, p), n \in Coming(s, p) : m < n
    /\ 1..Newest(p) = Came(s, p) \cup Coming(s, p) \cup Gone(s, p)
    /\ Gone(s, p) \cap (Came(s, p) \cup Coming(s, p)) = {}

FlowInv ==
    /\ LockInv
    /\ \A s \in Subscriptions : OrderOf(s)
    /\ \A s \in Subscriptions : \A p \in Publishers : FlowOf(s, p)

\* A sample is its publisher and its number.
LEMMA SampleIsSent ==
    /\ \A p, q, m, n : Sent(p, m) = Sent(q, n) <=> p = q /\ m = n
    /\ \A p, n : Sent(p, n).from = p /\ Sent(p, n).number = n
    /\ \A a \in Sample : a = Sent(a.from, a.number) /\ a.from \in Publishers /\ a.number \in Nat \ {0}
    /\ \A p \in Publishers, n \in Nat \ {0} : Sent(p, n) \in Sample
<1>1. \A p, q, m, n : Sent(p, m) = Sent(q, n) => p = q /\ m = n
  <2> SUFFICES ASSUME NEW p, NEW q, NEW m, NEW n, Sent(p, m) = Sent(q, n) PROVE p = q /\ m = n
    OBVIOUS
  <2>1. Sent(p, m).from = p /\ Sent(q, n).from = q /\ Sent(p, m).number = m /\ Sent(q, n).number = n
    BY DEF Sent
  <2> QED
    BY <2>1
<1> QED
  BY <1>1 DEF Sent, Sample

\* No sample is earlier than itself.
LEMMA OrdersAreStrict ==
    /\ \A a : <<a, a>> \notin Earlier
    /\ \A n : <<n, n>> \notin Smaller
    /\ \A p, m, n : <<Sent(p, m), Sent(p, n)>> \in Earlier => m < n
<1>1. \A a : <<a, a>> \notin Earlier
  <2> SUFFICES ASSUME NEW a, <<a, a>> \in Earlier PROVE FALSE
    OBVIOUS
  <2>1. a \in Sample /\ a.number < a.number
    BY DEF Earlier
  <2> QED
    BY <2>1, SampleIsSent
<1>2. \A n : <<n, n>> \notin Smaller
  BY DEF Smaller
<1> QED
  BY <1>1, <1>2, SampleIsSent DEF Earlier

\* The newest number that is settled, with a thread under the lock and without.
LEMMA NewestNumber ==
    ASSUME TypeOK, LockInv, NEW p \in Publishers
    PROVE  /\ Newest(p) \in Nat /\ seq[p] \in Nat
           /\ Locked(p) => seq[p] = Newest(p) + 1
           /\ ~Locked(p) => seq[p] = Newest(p)
<1>1. seq[p] \in Nat
  BY DEF TypeOK
<1>2. CASE Locked(p)
  <2>1. PICK t \in Threads : thread[t].at = "numbered" /\ thread[t].pub = p
    BY <1>2 DEF Locked
  <2>2. thread[t] \in ThreadState
    BY DEF TypeOK
  <2>3. thread[t].number \in Nat \ {0}
    BY <2>1, <2>2 DEF ThreadState, Idle
  <2>4. seq[p] \in Nat \ {0}
    BY <2>1, <2>3 DEF LockInv
  <2>5. Newest(p) = seq[p] - 1
    BY <1>2 DEF Newest
  <2> QED
    BY <1>2, <2>4, <2>5
<1>3. CASE ~Locked(p)
  BY <1>1, <1>3 DEF Newest
<1> QED
  BY <1>2, <1>3

\* What the flow of one publisher to one subscription depends on.
LEMMA SameFlow ==
    ASSUME NEW s \in Subscriptions, NEW p \in Publishers, FlowOf(s, p),
           Newest(p)' = Newest(p), link'[s][p] = link[s][p],
           Came(s, p)' = Came(s, p), Gone(s, p)' = Gone(s, p)
    PROVE  FlowOf(s, p)'
BY DEF FlowOf, Coming

\* A number that is given up before it is on its way.
LEMMA LostFlow ==
    ASSUME NEW s \in Subscriptions, NEW p \in Publishers, FlowOf(s, p), Newest(p) \in Nat,
           Newest(p)' = Newest(p) + 1, link'[s][p] = link[s][p],
           Came(s, p)' = Came(s, p), Gone(s, p)' = Gone(s, p) \cup {Newest(p) + 1}
    PROVE  FlowOf(s, p)'
<1> DEFINE n == Newest(p) + 1
<1>1. 1..n = 1..Newest(p) \cup {n} /\ n \notin 1..Newest(p)
  OBVIOUS
<1>2. Coming(s, p)' = Coming(s, p)
  BY DEF Coming
<1>3. n \notin Came(s, p) \cup Coming(s, p)
  BY <1>1 DEF FlowOf
<1>4. 1..Newest(p)' = 1..Newest(p) \cup {n}
  BY <1>1
<1> HIDE DEF n
<1> QED
  BY <1>2, <1>3, <1>4 DEF FlowOf, n

\* A number that is sent comes after all that came or are on their way.
LEMMA SentFlow ==
    ASSUME NEW s \in Subscriptions, NEW p \in Publishers, FlowOf(s, p), Newest(p) \in Nat,
           link[s][p] \in Seq(Nat \ {0}),
           Newest(p)' = Newest(p) + 1, link'[s][p] = Append(link[s][p], Newest(p) + 1),
           Came(s, p)' = Came(s, p), Gone(s, p)' = Gone(s, p)
    PROVE  FlowOf(s, p)'
<1> DEFINE n == Newest(p) + 1
           old == link[s][p]
<1>1. 1..Newest(p)' = 1..Newest(p) \cup {n} /\ n \notin 1..Newest(p) /\ n \in Nat \ {0}
  OBVIOUS
<1>2. \A m \in 1..Newest(p) : m < n /\ m \in Nat
  OBVIOUS
<1> HIDE DEF n
<1>3. Coming(s, p)' = Coming(s, p) \cup {n}
  BY <1>1, ElementsAfterAppend DEF Coming, n
<1>4. Ordered(link[s][p], Smaller)'
  <2>1. \A m \in ToSet(old) : <<m, n>> \in Smaller
    BY <1>1, <1>2 DEF FlowOf, Coming, Smaller
  <2>2. Ordered(old, Smaller) /\ old \in Seq(Nat \ {0})
    BY DEF FlowOf
  <2>3. Ordered(Append(old, n), Smaller)
    BY <1>1, <2>1, <2>2, OrderedAfterAppend
  <2> QED
    BY <2>3 DEF n
<1>5. \A m \in Came(s, p)' : \A k \in Coming(s, p)' : m < k
  BY <1>2, <1>3 DEF FlowOf
<1>6. n \notin Gone(s, p)
  BY <1>1 DEF FlowOf
<1> QED
  BY <1>1, <1>3, <1>4, <1>5, <1>6 DEF FlowOf

-----------------------------------------------------------------------------
(* Steps of rmw_publish.                                                   *)

\* Where the samples are depends on these variables.
LEMMA SamePlaces ==
    /\ UNCHANGED <<taken, queue>> => \A s, p : Came(s, p)' = Came(s, p)
    /\ UNCHANGED <<taken, queue>> => \A s : OrderOf(s) => OrderOf(s)'
    /\ UNCHANGED missed => \A s, p : Gone(s, p)' = Gone(s, p)
BY DEF Came, Gone, OrderOf

\* A step that leaves the samples and the locks alone.
LEMMA QuietFlow ==
    ASSUME FlowInv, UNCHANGED <<seq, link, queue, taken, missed>>, LockInv',
           \A p \in Publishers : Locked(p)' <=> Locked(p)
    PROVE  FlowInv'
<1>1. \A p \in Publishers : Newest(p)' = Newest(p)
  BY DEF Newest
<1>2. \A s \in Subscriptions : \A p \in Publishers : FlowOf(s, p)'
  BY <1>1, SamePlaces, SameFlow DEF FlowInv
<1> QED
  BY <1>2, SamePlaces DEF FlowInv

\* The message is serialized before the lock is taken.
LEMMA SerializeFlow ==
    ASSUME TypeOK, FlowInv, NEW t \in Threads, NEW p \in Publishers, Serialize(t, p)
    PROVE  FlowInv'
<1> DEFINE new == [at |-> "serialized", pub |-> p, number |-> 0]
<1>1. /\ thread[t] = Idle /\ thread' = [thread EXCEPT ![t] = new]
      /\ UNCHANGED <<seq, link, queue, taken, missed>>
  BY DEF Serialize
<1>2. thread'[t].at # "numbered" /\ thread[t].at # "numbered"
  BY <1>1 DEF TypeOK, Idle
<1>3. \A u \in Threads : u # t => thread'[u] = thread[u]
  BY <1>1 DEF TypeOK
<1> HIDE DEF new
<1>4. LockInv'
  BY <1>1, <1>2, <1>3 DEF FlowInv, LockInv
<1>5. \A q \in Publishers : Locked(q)' <=> Locked(q)
  BY <1>2, <1>3 DEF Locked
<1> QED
  BY <1>1, <1>4, <1>5, QuietFlow

\* The thread that takes the lock gets the next number, or uses it up.
LEMMA TakeNumberFlow ==
    ASSUME TypeOK, FlowInv, NEW t \in Threads, TakeNumber(t)
    PROVE  FlowInv'
<1>0. PICK p, n : p = thread[t].pub /\ n = seq[p] + 1
  OBVIOUS
<1> DEFINE new == [thread[t] EXCEPT !.at = "numbered", !.number = n]
<1>1. /\ thread[t].at = "serialized" /\ ~Locked(p) /\ seq' = [seq EXCEPT ![p] = n]
      /\ UNCHANGED <<link, queue, taken>>
      /\ \/ thread' = [thread EXCEPT ![t] = new] /\ missed' = missed
         \/ /\ thread' = [thread EXCEPT ![t] = Idle]
            /\ missed' = [s \in Subscriptions |-> missed[s] \cup {Sent(p, n)}]
  BY <1>0 DEF TakeNumber, Numbered
<1>2. thread[t] \in [at : {"serialized"}, pub : Publishers, number : {0}]
  BY <1>1 DEF TypeOK, ThreadState, Idle
<1>3. p \in Publishers /\ new.at = "numbered" /\ new.pub = p /\ new.number = n
  BY <1>0, <1>2
<1>4. /\ seq'[p] = n /\ \A q \in Publishers : q # p => seq'[q] = seq[q]
      /\ seq[p] \in Nat /\ Newest(p) = seq[p] /\ n = seq[p] + 1
  BY <1>0, <1>1, <1>3 DEF TypeOK, Newest
<1>5. \A u \in Threads : u # t => thread'[u] = thread[u]
  BY <1>1 DEF TypeOK
<1>6. \A u \in Threads : thread[u].at = "numbered" => thread[u].pub # p /\ thread[u].pub \in Publishers
  <2> SUFFICES ASSUME NEW u \in Threads, thread[u].at = "numbered"
               PROVE  thread[u].pub # p /\ thread[u].pub \in Publishers
    OBVIOUS
  <2>1. thread[u] \in ThreadState
    BY DEF TypeOK
  <2> QED
    BY <1>1, <2>1 DEF Locked, ThreadState, Idle
<1> HIDE DEF new
<1>7. \A q \in Publishers : q # p => Newest(q)' = Newest(q)
  <2> SUFFICES ASSUME NEW q \in Publishers, q # p PROVE Newest(q)' = Newest(q)
    OBVIOUS
  <2>1. thread'[t].at = "numbered" => thread'[t].pub = p
    BY <1>1, <1>3 DEF TypeOK, Idle
  <2>2. Locked(q)' <=> Locked(q)
    BY <1>1, <1>5, <2>1 DEF Locked
  <2> QED
    BY <1>4, <2>2 DEF Newest
<1>8. \A s \in Subscriptions : OrderOf(s)'
  BY <1>1, SamePlaces DEF FlowInv
<1>9. CASE thread' = [thread EXCEPT ![t] = new] /\ missed' = missed
  <2>1. thread'[t] = new
    BY <1>9 DEF TypeOK
  <2>2. LockInv'
    BY <1>3, <1>4, <1>5, <1>6, <2>1 DEF FlowInv, LockInv
  <2>3. Newest(p)' = Newest(p)
    <3>1. Locked(p)'
      BY <1>3, <2>1 DEF Locked
    <3> QED
      BY <1>4, <3>1 DEF Newest
  <2>4. \A s \in Subscriptions : \A q \in Publishers : FlowOf(s, q)'
    BY <1>1, <1>7, <1>9, <2>3, SamePlaces, SameFlow DEF FlowInv
  <2> QED
    BY <1>8, <2>2, <2>4 DEF FlowInv
<1>10. CASE /\ thread' = [thread EXCEPT ![t] = Idle]
            /\ missed' = [s \in Subscriptions |-> missed[s] \cup {Sent(p, n)}]
  <2>1. thread'[t].at # "numbered"
    BY <1>10 DEF TypeOK, Idle
  <2>2. LockInv'
    BY <1>4, <1>5, <1>6, <2>1 DEF FlowInv, LockInv
  <2>3. Newest(p)' = Newest(p) + 1
    <3>1. ~Locked(p)'
      BY <1>1, <1>5, <2>1 DEF Locked
    <3> QED
      BY <1>4, <3>1 DEF Newest
  <2>4. \A s \in Subscriptions : Gone(s, p)' = Gone(s, p) \cup {Newest(p) + 1}
    BY <1>4, <1>10, SampleIsSent DEF Gone
  <2>5. \A s \in Subscriptions : \A q \in Publishers : q # p => Gone(s, q)' = Gone(s, q)
    BY <1>10, SampleIsSent DEF Gone
  <2>6. ASSUME NEW s \in Subscriptions, NEW q \in Publishers PROVE FlowOf(s, q)'
    <3>1. FlowOf(s, q) /\ Came(s, q)' = Came(s, q) /\ link'[s][q] = link[s][q]
      BY <1>1, SamePlaces DEF FlowInv
    <3>2. CASE q = p
      BY <1>4, <2>3, <2>4, <3>1, <3>2, LostFlow
    <3>3. CASE q # p
      BY <1>7, <2>5, <3>1, <3>3, SameFlow
    <3> QED
      BY <3>2, <3>3
  <2> QED
    BY <1>8, <2>2, <2>6 DEF FlowInv
<1> QED
  BY <1>1, <1>9, <1>10

\* The put settles the number: it is on its way to a subscription, or will never come there.
LEMMA PutFlow ==
    ASSUME TypeOK, FlowInv, NEW t \in Threads, NEW reached \in SUBSET Subscriptions, Put(t, reached)
    PROVE  FlowInv'
<1>0. PICK p, n : p = thread[t].pub /\ n = thread[t].number
  OBVIOUS
<1>1. /\ thread[t].at = "numbered" /\ thread' = [thread EXCEPT ![t] = Idle]
      /\ link' = [s \in Subscriptions |->
                     IF s \in reached THEN [link[s] EXCEPT ![p] = Append(link[s][p], n)] ELSE link[s]]
      /\ missed' = [s \in Subscriptions |->
                       IF s \in reached THEN missed[s] ELSE missed[s] \cup {Sent(p, n)}]
      /\ UNCHANGED <<seq, queue, taken>>
  BY <1>0 DEF Put
<1>2. p \in Publishers /\ n \in Nat \ {0}
  <2>1. thread[t] \in ThreadState
    BY DEF TypeOK
  <2> QED
    BY <1>0, <1>1, <2>1 DEF ThreadState, Idle
<1>3. /\ \A s \in Subscriptions : link[s] \in [Publishers -> Seq(Nat \ {0})]
      /\ \A s \in Subscriptions : link[s][p] \in Seq(Nat \ {0})
  BY <1>2 DEF TypeOK
<1>4. thread'[t].at # "numbered" /\ \A u \in Threads : u # t => thread'[u] = thread[u]
  BY <1>1 DEF TypeOK, Idle
<1>5. LockInv'
  BY <1>1, <1>4 DEF FlowInv, LockInv
<1>6. n = Newest(p) + 1 /\ Newest(p) \in Nat /\ Newest(p)' = Newest(p) + 1
  <2>1. Locked(p) /\ n = seq[p]
    BY <1>0, <1>1 DEF FlowInv, LockInv, Locked
  <2>2. ~Locked(p)'
    <3>1. \A u \in Threads : thread[u].at = "numbered" /\ thread[u].pub = p => u = t
      BY <1>0, <1>1 DEF FlowInv, LockInv
    <3> QED
      BY <1>4, <3>1 DEF Locked
  <2>3. Newest(p) \in Nat /\ seq[p] = Newest(p) + 1
    BY <1>2, <2>1, NewestNumber DEF FlowInv
  <2> QED
    BY <1>1, <2>1, <2>2, <2>3 DEF Newest
<1>7. \A q \in Publishers : q # p => Newest(q)' = Newest(q)
  <2> SUFFICES ASSUME NEW q \in Publishers, q # p PROVE Newest(q)' = Newest(q)
    OBVIOUS
  <2>1. Locked(q)' <=> Locked(q)
    BY <1>0, <1>4 DEF Locked
  <2> QED
    BY <1>1, <2>1 DEF Newest
<1>8. ASSUME NEW s \in Subscriptions, NEW q \in Publishers PROVE FlowOf(s, q)'
  <2>1. FlowOf(s, q) /\ Came(s, q)' = Came(s, q)
    BY <1>1, SamePlaces DEF FlowInv
  <2>2. CASE q # p
    <3>1. link'[s][q] = link[s][q]
      BY <1>1, <1>3, <2>2
    <3>2. Gone(s, q)' = Gone(s, q)
      BY <1>1, <2>2, SampleIsSent DEF Gone
    <3> QED
      BY <1>7, <2>1, <2>2, <3>1, <3>2, SameFlow
  <2>3. CASE q = p /\ s \in reached
    <3>1. link'[s][p] = Append(link[s][p], n)
      BY <1>1, <1>2, <1>3, <2>3
    <3>2. Gone(s, p)' = Gone(s, p)
      BY <1>1, <2>3 DEF Gone
    <3> QED
      BY <1>3, <1>6, <2>1, <2>3, <3>1, <3>2, SentFlow
  <2>4. CASE q = p /\ s \notin reached
    <3>1. link'[s][p] = link[s][p]
      BY <1>1, <2>4
    <3>2. Gone(s, p)' = Gone(s, p) \cup {n}
      BY <1>1, <1>2, <2>4, SampleIsSent DEF Gone
    <3> QED
      BY <1>2, <1>6, <2>1, <2>4, <3>1, <3>2, LostFlow
  <2> QED
    BY <2>2, <2>3, <2>4
<1> QED
  BY <1>1, <1>5, <1>8, SamePlaces DEF FlowInv

-----------------------------------------------------------------------------
(* Steps of the handler and of rmw_take.                                   *)

\* A step that leaves the publishers alone and touches one subscription.
LEMMA OneSubscription ==
    ASSUME FlowInv, NEW s \in Subscriptions, UNCHANGED <<seq, thread>>,
           \A u \in Subscriptions \ {s} :
               taken'[u] = taken[u] /\ queue'[u] = queue[u] /\ link'[u] = link[u] /\ missed'[u] = missed[u],
           OrderOf(s)', \A p \in Publishers : FlowOf(s, p)'
    PROVE  FlowInv'
<1>1. LockInv' /\ \A p \in Publishers : Newest(p)' = Newest(p)
  BY DEF FlowInv, LockInv, Newest, Locked
<1>2. \A u \in Subscriptions \ {s} : OrderOf(u)'
  BY DEF FlowInv, OrderOf
<1>3. ASSUME NEW u \in Subscriptions \ {s}, NEW p \in Publishers PROVE FlowOf(u, p)'
  <2>1. Came(u, p)' = Came(u, p) /\ Gone(u, p)' = Gone(u, p)
    BY DEF Came, Gone
  <2> QED
    BY <1>1, <2>1, SameFlow DEF FlowInv
<1> QED
  BY <1>1, <1>2, <1>3 DEF FlowInv

\* The handler takes the oldest number from the network: it comes to the queue after all that
\* came before, or is gone.
LEMMA HandlerFlow ==
    ASSUME TypeOK, FlowInv, NEW s \in Subscriptions, NEW p \in Publishers, Handler(s, p)
    PROVE  FlowInv'
<1>0. PICK n, rest : n = Head(link[s][p]) /\ rest = Tail(link[s][p])
  OBVIOUS
<1>1. /\ link[s][p] # <<>> /\ UNCHANGED <<seq, thread, taken>>
      /\ link' = [link EXCEPT ![s] = [link[s] EXCEPT ![p] = rest]]
      /\ \/ queue' = [queue EXCEPT ![s] = Append(queue[s], Sent(p, n))] /\ missed' = missed
         \/ missed' = [missed EXCEPT ![s] = missed[s] \cup {Sent(p, n)}] /\ queue' = queue
  BY <1>0 DEF Handler
<1>2. /\ link \in [Subscriptions -> [Publishers -> Seq(Nat \ {0})]]
      /\ link[s] \in [Publishers -> Seq(Nat \ {0})] /\ link[s][p] \in Seq(Nat \ {0})
      /\ queue \in [Subscriptions -> Seq(Sample)] /\ queue[s] \in Seq(Sample)
      /\ taken[s] \in Seq(Sample) /\ missed \in [Subscriptions -> SUBSET Sample]
  BY DEF TypeOK
<1>3. n \in Nat \ {0} /\ Sent(p, n) \in Sample
  BY <1>0, <1>1, <1>2, HeadTailProperties, SampleIsSent
<1>4. /\ link'[s][p] = rest
      /\ \A q \in Publishers : q # p => link'[s][q] = link[s][q]
      /\ \A u \in Subscriptions \ {s} : link'[u] = link[u]
  BY <1>1, <1>2
<1>5. \A u \in Subscriptions \ {s} :
         taken'[u] = taken[u] /\ queue'[u] = queue[u] /\ link'[u] = link[u] /\ missed'[u] = missed[u]
  BY <1>1, <1>2, <1>4
<1>6. OrderOf(s) /\ FlowOf(s, p) /\ \A q \in Publishers : FlowOf(s, q)
  BY DEF FlowInv
<1>7. \A q \in Publishers : Newest(q)' = Newest(q)
  BY <1>1 DEF Newest, Locked
<1>8. /\ Ordered(rest, Smaller) /\ \A m \in ToSet(rest) : <<n, m>> \in Smaller
      /\ Coming(s, p) = {n} \cup ToSet(rest) /\ Coming(s, p)' = ToSet(rest)
  BY <1>0, <1>1, <1>2, <1>4, <1>6, OrderedAfterTail DEF FlowOf, Coming
<1>9. /\ n \notin ToSet(rest) /\ \A m \in ToSet(rest) : n < m
      /\ \A m \in Came(s, p) : m < n
  BY <1>6, <1>8, OrdersAreStrict DEF FlowOf, Smaller
<1>10. n \notin Came(s, p) /\ n \notin Gone(s, p)
  BY <1>3, <1>6, <1>8, <1>9 DEF FlowOf
<1>11. CASE queue' = [queue EXCEPT ![s] = Append(queue[s], Sent(p, n))] /\ missed' = missed
  <2>1. /\ queue'[s] = Append(queue[s], Sent(p, n)) /\ taken'[s] = taken[s] /\ missed'[s] = missed[s]
        /\ ToSet(queue'[s]) = ToSet(queue[s]) \cup {Sent(p, n)}
    BY <1>1, <1>2, <1>3, <1>11, ElementsAfterAppend
  <2>2. \A q \in Publishers : Gone(s, q)' = Gone(s, q)
    BY <2>1 DEF Gone
  <2>3. Came(s, p)' = Came(s, p) \cup {n}
    BY <1>3, <2>1, SampleIsSent DEF Came
  <2>4. \A q \in Publishers : q # p => Came(s, q)' = Came(s, q)
    BY <2>1, SampleIsSent DEF Came
  <2>5. \A a \in ToSet(taken[s]) \cup ToSet(queue[s]) : <<a, Sent(p, n)>> \in Earlier
    <3> SUFFICES ASSUME NEW a \in ToSet(taken[s]) \cup ToSet(queue[s])
                 PROVE  <<a, Sent(p, n)>> \in Earlier
      OBVIOUS
    <3>1. a \in Sample
      BY <1>2 DEF ToSet
    <3>2. a.from = p => a.number < n
      <4>1. a.from = p => a.number \in Came(s, p)
        BY <3>1, SampleIsSent DEF Came
      <4> QED
        BY <1>9, <4>1
    <3> QED
      BY <1>3, <3>1, <3>2, SampleIsSent DEF Earlier
  <2>6. OrderOf(s)'
    <3>1. Ordered(queue'[s], Earlier)
      BY <1>2, <1>3, <1>6, <2>1, <2>5, OrderedAfterAppend DEF OrderOf
    <3> QED
      BY <1>6, <2>1, <2>5, <3>1 DEF OrderOf
  <2>7. FlowOf(s, p)'
    <3>1. \A m \in Came(s, p)' : \A k \in Coming(s, p)' : m < k
      BY <1>6, <1>8, <1>9, <2>3 DEF FlowOf
    <3>2. 1..Newest(p)' = Came(s, p)' \cup Coming(s, p)' \cup Gone(s, p)'
      BY <1>6, <1>7, <1>8, <2>2, <2>3 DEF FlowOf
    <3>3. Gone(s, p)' \cap (Came(s, p)' \cup Coming(s, p)') = {}
      BY <1>6, <1>8, <1>10, <2>2, <2>3 DEF FlowOf
    <3> QED
      BY <1>4, <1>8, <3>1, <3>2, <3>3 DEF FlowOf
  <2>8. \A q \in Publishers : FlowOf(s, q)'
    BY <1>4, <1>6, <1>7, <2>2, <2>4, <2>7, SameFlow
  <2> QED
    BY <1>1, <1>5, <2>6, <2>8, OneSubscription
<1>12. CASE missed' = [missed EXCEPT ![s] = missed[s] \cup {Sent(p, n)}] /\ queue' = queue
  <2>1. missed'[s] = missed[s] \cup {Sent(p, n)} /\ queue'[s] = queue[s] /\ taken'[s] = taken[s]
    BY <1>1, <1>2, <1>12
  <2>2. \A q \in Publishers : Came(s, q)' = Came(s, q)
    BY <2>1 DEF Came
  <2>3. Gone(s, p)' = Gone(s, p) \cup {n}
    BY <1>3, <2>1, SampleIsSent DEF Gone
  <2>4. \A q \in Publishers : q # p => Gone(s, q)' = Gone(s, q)
    BY <2>1, SampleIsSent DEF Gone
  <2>5. OrderOf(s)'
    BY <1>6, <2>1 DEF OrderOf
  <2>6. FlowOf(s, p)'
    <3>1. \A m \in Came(s, p)' : \A k \in Coming(s, p)' : m < k
      BY <1>6, <1>8, <2>2 DEF FlowOf
    <3>2. 1..Newest(p)' = Came(s, p)' \cup Coming(s, p)' \cup Gone(s, p)'
      BY <1>6, <1>7, <1>8, <2>2, <2>3 DEF FlowOf
    <3>3. Gone(s, p)' \cap (Came(s, p)' \cup Coming(s, p)') = {}
      BY <1>6, <1>8, <1>9, <1>10, <2>2, <2>3 DEF FlowOf
    <3> QED
      BY <1>4, <1>8, <3>1, <3>2, <3>3 DEF FlowOf
  <2>7. \A q \in Publishers : FlowOf(s, q)'
    BY <1>4, <1>6, <1>7, <2>2, <2>4, <2>6, SameFlow
  <2> QED
    BY <1>1, <1>5, <2>5, <2>7, OneSubscription
<1> QED
  BY <1>1, <1>11, <1>12

\* rmw_zenoh_pico_take_one takes the oldest sample of the queue: the program gets it after all
\* that it got before, or it is gone.
LEMMA TakeOneFlow ==
    ASSUME TypeOK, FlowInv, NEW s \in Subscriptions, NEW decoded \in BOOLEAN, TakeOne(s, decoded),
           UNCHANGED <<seq, thread, link>>
    PROVE  FlowInv'
<1>0. PICK p, n, rest : p = Head(queue[s]).from /\ n = Head(queue[s]).number /\ rest = Tail(queue[s])
  OBVIOUS
<1>1. /\ queue \in [Subscriptions -> Seq(Sample)] /\ taken \in [Subscriptions -> Seq(Sample)]
      /\ missed \in [Subscriptions -> SUBSET Sample]
      /\ queue[s] \in Seq(Sample) /\ taken[s] \in Seq(Sample) /\ queue[s] # <<>>
  BY DEF TypeOK, TakeOne
<1>2. /\ Head(queue[s]) = Sent(p, n) /\ p \in Publishers /\ n \in Nat \ {0} /\ Sent(p, n) \in Sample
      /\ rest \in Seq(Sample)
  BY <1>0, <1>1, HeadTailProperties, SampleIsSent
<1>3. /\ queue' = [queue EXCEPT ![s] = rest]
      /\ decoded => taken' = [taken EXCEPT ![s] = Append(taken[s], Sent(p, n))] /\ missed' = missed
      /\ ~decoded => missed' = [missed EXCEPT ![s] = missed[s] \cup {Sent(p, n)}] /\ taken' = taken
  BY <1>0, <1>2 DEF TakeOne
<1>4. \A u \in Subscriptions \ {s} :
         taken'[u] = taken[u] /\ queue'[u] = queue[u] /\ link'[u] = link[u] /\ missed'[u] = missed[u]
  BY <1>1, <1>3
<1>5. OrderOf(s) /\ FlowOf(s, p) /\ \A q \in Publishers : FlowOf(s, q)
  BY <1>2 DEF FlowInv
<1>6. \A q \in Publishers : Newest(q)' = Newest(q) /\ Coming(s, q)' = Coming(s, q)
  BY DEF Newest, Locked, Coming
<1>7. /\ queue'[s] = rest /\ Ordered(rest, Earlier) /\ \A b \in ToSet(rest) : <<Sent(p, n), b>> \in Earlier
      /\ ToSet(queue[s]) = {Sent(p, n)} \cup ToSet(rest)
  BY <1>0, <1>1, <1>2, <1>3, <1>5, OrderedAfterTail DEF OrderOf
<1>8. \A a \in ToSet(taken[s]) : <<a, Sent(p, n)>> \in Earlier
  BY <1>5, <1>7 DEF OrderOf
<1>9. CASE decoded
  <2>1. /\ taken'[s] = Append(taken[s], Sent(p, n)) /\ missed'[s] = missed[s]
        /\ ToSet(taken'[s]) = ToSet(taken[s]) \cup {Sent(p, n)}
    <3>1. taken'[s] = Append(taken[s], Sent(p, n)) /\ missed' = missed
      BY <1>1, <1>3, <1>9
    <3>2. ToSet(Append(taken[s], Sent(p, n))) = ToSet(taken[s]) \cup {Sent(p, n)}
      BY <1>1, <1>2, ElementsAfterAppend
    <3> QED
      BY <3>1, <3>2
  <2>2. \A q \in Publishers : Gone(s, q)' = Gone(s, q) /\ Came(s, q)' = Came(s, q)
    BY <1>7, <2>1 DEF Gone, Came
  <2>3. Ordered(taken'[s], Earlier)
    BY <1>1, <1>2, <1>5, <1>8, <2>1, OrderedAfterAppend DEF OrderOf
  <2>4. OrderOf(s)'
    BY <1>5, <1>7, <2>1, <2>3 DEF OrderOf
  <2>5. \A q \in Publishers : FlowOf(s, q)'
    BY <1>5, <1>6, <2>2, SameFlow
  <2> QED
    BY <1>4, <2>4, <2>5, OneSubscription
<1>10. CASE ~decoded
  <2>1. missed'[s] = missed[s] \cup {Sent(p, n)} /\ taken'[s] = taken[s]
    BY <1>1, <1>3, <1>10
  <2>2. Gone(s, p)' = Gone(s, p) \cup {n}
    BY <1>2, <2>1, SampleIsSent DEF Gone
  <2>3. Sent(p, n) \notin ToSet(taken[s]) /\ Sent(p, n) \notin ToSet(rest)
    BY <1>7, <1>8, OrdersAreStrict
  <2>4. Came(s, p) = Came(s, p)' \cup {n} /\ n \notin Came(s, p)'
    BY <1>2, <1>7, <2>1, <2>3, SampleIsSent DEF Came
  <2>5. \A q \in Publishers : q # p => Gone(s, q)' = Gone(s, q) /\ Came(s, q)' = Came(s, q)
    BY <1>7, <2>1, SampleIsSent DEF Gone, Came
  <2>6. OrderOf(s)'
    BY <1>5, <1>7, <2>1 DEF OrderOf
  <2>7. FlowOf(s, p)'
    <3>1. n \notin Coming(s, p)
      BY <1>2, <1>5, <2>4 DEF FlowOf
    <3>2. \A m \in Came(s, p)' : \A k \in Coming(s, p)' : m < k
      BY <1>2, <1>5, <1>6, <2>4 DEF FlowOf
    <3>3. 1..Newest(p)' = Came(s, p)' \cup Coming(s, p)' \cup Gone(s, p)'
      BY <1>2, <1>5, <1>6, <2>2, <2>4 DEF FlowOf
    <3>4. Gone(s, p)' \cap (Came(s, p)' \cup Coming(s, p)') = {}
      BY <1>2, <1>5, <1>6, <2>2, <2>4, <3>1 DEF FlowOf
    <3> QED
      BY <1>5, <3>2, <3>3, <3>4 DEF FlowOf
  <2>8. \A q \in Publishers : FlowOf(s, q)'
    BY <1>5, <1>6, <2>5, <2>7, SameFlow
  <2> QED
    BY <1>4, <2>6, <2>8, OneSubscription
<1> QED
  BY <1>9, <1>10

-----------------------------------------------------------------------------
(* Every sample is somewhere.                                              *)

\* Before anything is published there are no numbers.
LEMMA InitFlow == Init => FlowInv
<1> SUFFICES ASSUME Init PROVE FlowInv
  OBVIOUS
<1>1. \A t \in Threads : thread[t].at # "numbered"
  BY DEF Init, Idle
<1>2. \A p \in Publishers : ~Locked(p)
  BY <1>1 DEF Locked
<1>3. \A p \in Publishers : Newest(p) = 0
  BY <1>2 DEF Init, Newest
<1>4. ASSUME NEW s \in Subscriptions
      PROVE  /\ queue[s] = <<>> /\ taken[s] = <<>> /\ missed[s] = {} /\ ToSet(<<>>) = {}
             /\ \A p \in Publishers : link[s][p] = <<>>
  BY DEF Init, ToSet
<1>5. ASSUME NEW s \in Subscriptions, NEW p \in Publishers PROVE FlowOf(s, p)
  <2>1. Came(s, p) = {} /\ Coming(s, p) = {} /\ Gone(s, p) = {}
    BY <1>4 DEF Came, Coming, Gone
  <2>2. Ordered(link[s][p], Smaller)
    BY <1>4 DEF Ordered
  <2>3. 1..Newest(p) = {}
    BY <1>3
  <2> QED
    BY <2>1, <2>2, <2>3 DEF FlowOf
<1>6. ASSUME NEW s \in Subscriptions PROVE OrderOf(s)
  BY <1>4 DEF OrderOf, Ordered
<1> QED
  BY <1>1, <1>5, <1>6 DEF FlowInv, LockInv

\* Creation and the calls of rmw_take_sequence move no sample.
LEMMA StepFlow == IInv /\ FlowInv /\ [Next]_vars => FlowInv'
<1> SUFFICES ASSUME IInv, FlowInv, [Next]_vars PROVE FlowInv'
  OBVIOUS
<1>1. TypeOK
  BY DEF IInv
<1>2. CASE UNCHANGED <<seq, thread, link, queue, taken, missed>>
  BY <1>2, QuietFlow DEF FlowInv, LockInv, Locked
<1>3. ASSUME NEW e \in Endpoints, NEW topic \in Topics[e], Create(e, topic) \/ CreateService(e, topic)
      PROVE  FlowInv'
  BY <1>2, <1>3 DEF Create, CreateService, Generate
<1>4. ASSUME NEW t \in Threads, \/ \E p \in Publishers : Serialize(t, p)
                                \/ TakeNumber(t)
                                \/ \E reached \in SUBSET Subscriptions : Put(t, reached)
      PROVE  FlowInv'
  BY <1>1, <1>4, SerializeFlow, TakeNumberFlow, PutFlow
<1>5. ASSUME NEW s \in Subscriptions, ReadTask(s) PROVE FlowInv'
  BY <1>1, <1>5, HandlerFlow DEF ReadTask
<1>6. ASSUME NEW s \in Subscriptions, NEW decoded \in BOOLEAN, RmwTake(s, decoded) \/ TakeNext(s, decoded)
      PROVE  FlowInv'
  BY <1>1, <1>6, TakeOneFlow DEF RmwTake, TakeNext
<1>7. ASSUME NEW s \in Subscriptions, TakeNothing(s) \/ \E count \in 1..CountMax : TakeSequence(s, count)
      PROVE  FlowInv'
  BY <1>2, <1>7 DEF TakeNothing, TakeSequence
<1>8. CASE UNCHANGED vars
  BY <1>2, <1>8 DEF vars
<1> QED
  BY <1>3, <1>4, <1>5, <1>6, <1>7, <1>8 DEF Next, Taker

\* So the flows are in order in every state.
LEMMA FlowInvariance == Spec => [](IInv /\ FlowInv)
BY InitInv, InitFlow, StepInv, StepFlow, PTL DEF Spec

\* What the parts of EverySampleIsSomewhere count.
LEMMA PlacesOfSample ==
    ASSUME TypeOK, FlowInv, NEW s \in Subscriptions, NEW p \in Publishers, NEW n \in 1..seq[p]
    PROVE  /\ Cardinality({t \in Threads : thread[t] = [at |-> "numbered", pub |-> p, number |-> n]})
                 = IF n = Newest(p) + 1 THEN 1 ELSE 0
           /\ Cardinality({i \in DOMAIN link[s][p] : link[s][p][i] = n})
                 = IF n \in Coming(s, p) THEN 1 ELSE 0
           /\ Cardinality({i \in DOMAIN queue[s] : queue[s][i] = Sent(p, n)})
                 = IF Sent(p, n) \in ToSet(queue[s]) THEN 1 ELSE 0
           /\ Cardinality({i \in DOMAIN taken[s] : taken[s][i] = Sent(p, n)})
                 = IF Sent(p, n) \in ToSet(taken[s]) THEN 1 ELSE 0
           /\ Cardinality({Sent(p, n)} \cap missed[s]) = IF n \in Gone(s, p) THEN 1 ELSE 0
<1>1. /\ link[s][p] \in Seq(Nat \ {0}) /\ queue[s] \in Seq(Sample) /\ taken[s] \in Seq(Sample)
      /\ seq[p] \in Nat /\ Newest(p) \in Nat /\ n \in Nat \ {0}
      /\ Locked(p) => seq[p] = Newest(p) + 1
      /\ ~Locked(p) => seq[p] = Newest(p)
  BY NewestNumber DEF TypeOK, FlowInv
<1>2. OrderOf(s) /\ FlowOf(s, p) /\ LockInv
  BY DEF FlowInv
<1>3. Cardinality({t \in Threads : thread[t] = [at |-> "numbered", pub |-> p, number |-> n]})
         = IF n = Newest(p) + 1 THEN 1 ELSE 0
  <2> DEFINE D == {t \in Threads : thread[t] = [at |-> "numbered", pub |-> p, number |-> n]}
  <2>1. \A t \in D : Locked(p) /\ n = seq[p]
    BY <1>2 DEF LockInv, Locked
  <2>2. CASE n = Newest(p) + 1
    <3>1. Locked(p) /\ n = seq[p]
      BY <1>1, <2>2
    <3>2. PICK t \in Threads : thread[t].at = "numbered" /\ thread[t].pub = p
      BY <3>1 DEF Locked
    <3>3. thread[t] \in ThreadState /\ thread[t].number = n
      BY <1>2, <3>1, <3>2 DEF LockInv, TypeOK
    <3>4. thread[t] = [at |-> "numbered", pub |-> p, number |-> n]
      BY <3>2, <3>3 DEF ThreadState, Idle
    <3>5. \A u \in D : u = t
      BY <1>2, <3>2 DEF LockInv
    <3>6. D = {t}
      BY <3>4, <3>5
    <3> HIDE DEF D
    <3> QED
      BY <2>2, <3>6, FS_Singleton DEF D
  <2>3. CASE n # Newest(p) + 1
    <3>1. D = {}
      BY <1>1, <2>1, <2>3
    <3> HIDE DEF D
    <3> QED
      BY <2>3, <3>1, FS_EmptySet DEF D
  <2> QED
    BY <2>2, <2>3
<1>4. /\ Cardinality({i \in DOMAIN link[s][p] : link[s][p][i] = n})
            = IF n \in Coming(s, p) THEN 1 ELSE 0
      /\ Cardinality({i \in DOMAIN queue[s] : queue[s][i] = Sent(p, n)})
            = IF Sent(p, n) \in ToSet(queue[s]) THEN 1 ELSE 0
      /\ Cardinality({i \in DOMAIN taken[s] : taken[s][i] = Sent(p, n)})
            = IF Sent(p, n) \in ToSet(taken[s]) THEN 1 ELSE 0
  <2>1. <<n, n>> \notin Smaller /\ <<Sent(p, n), Sent(p, n)>> \notin Earlier
    BY OrdersAreStrict
  <2>2. Ordered(link[s][p], Smaller) /\ Ordered(queue[s], Earlier) /\ Ordered(taken[s], Earlier)
    BY <1>2 DEF FlowOf, OrderOf
  <2>3. Cardinality({i \in DOMAIN link[s][p] : link[s][p][i] = n})
           = IF n \in Coming(s, p) THEN 1 ELSE 0
    <3> DEFINE D == {i \in DOMAIN link[s][p] : link[s][p][i] = n}
    <3> SUFFICES Cardinality(D) = IF n \in Coming(s, p) THEN 1 ELSE 0
      OBVIOUS
    <3>1. D = {i \in DOMAIN link[s][p] : link[s][p][i] = n}
      OBVIOUS
    <3> HIDE DEF D
    <3> QED
      <4>1. Cardinality(D) = IF n \in ToSet(link[s][p]) THEN 1 ELSE 0
        <5>1. PICK S : S = Nat \ {0}
          OBVIOUS
        <5>2. link[s][p] \in Seq(S)
          BY <1>1, <5>1
        <5> QED
          BY <2>1, <2>2, <3>1, <5>2, OrderedOccursOnce
      <4> QED
        BY <4>1 DEF Coming
  <2>4. Cardinality({i \in DOMAIN queue[s] : queue[s][i] = Sent(p, n)})
           = IF Sent(p, n) \in ToSet(queue[s]) THEN 1 ELSE 0
    <3> DEFINE D == {i \in DOMAIN queue[s] : queue[s][i] = Sent(p, n)}
    <3> SUFFICES Cardinality(D) = IF Sent(p, n) \in ToSet(queue[s]) THEN 1 ELSE 0
      OBVIOUS
    <3>1. PICK q, e : q = queue[s] /\ e = Sent(p, n)
      OBVIOUS
    <3>2. D = {i \in DOMAIN q : q[i] = e}
      BY <3>1
    <3>3. q \in Seq(Sample) /\ Ordered(q, Earlier) /\ <<e, e>> \notin Earlier
      BY <1>1, <2>1, <2>2, <3>1
    <3> HIDE DEF D
    <3>4. Cardinality(D) = IF e \in ToSet(q) THEN 1 ELSE 0
      BY <3>2, <3>3, OrderedOccursOnce
    <3> QED
      BY <3>1, <3>4
  <2>5. Cardinality({i \in DOMAIN taken[s] : taken[s][i] = Sent(p, n)})
           = IF Sent(p, n) \in ToSet(taken[s]) THEN 1 ELSE 0
    <3> DEFINE D == {i \in DOMAIN taken[s] : taken[s][i] = Sent(p, n)}
    <3> SUFFICES Cardinality(D) = IF Sent(p, n) \in ToSet(taken[s]) THEN 1 ELSE 0
      OBVIOUS
    <3>1. PICK q, e : q = taken[s] /\ e = Sent(p, n)
      OBVIOUS
    <3>2. D = {i \in DOMAIN q : q[i] = e}
      BY <3>1
    <3>3. q \in Seq(Sample) /\ Ordered(q, Earlier) /\ <<e, e>> \notin Earlier
      BY <1>1, <2>1, <2>2, <3>1
    <3> HIDE DEF D
    <3>4. Cardinality(D) = IF e \in ToSet(q) THEN 1 ELSE 0
      BY <3>2, <3>3, OrderedOccursOnce
    <3> QED
      BY <3>1, <3>4
  <2> QED
    BY <2>3, <2>4, <2>5
<1>5. Cardinality({Sent(p, n)} \cap missed[s]) = IF n \in Gone(s, p) THEN 1 ELSE 0
  <2>1. n \in Gone(s, p) <=> Sent(p, n) \in missed[s]
    BY <1>1 DEF Gone
  <2>2. CASE Sent(p, n) \in missed[s]
    <3>1. {Sent(p, n)} \cap missed[s] = {Sent(p, n)}
      BY <2>2
    <3> QED
      BY <2>1, <2>2, <3>1, FS_Singleton
  <2>3. CASE Sent(p, n) \notin missed[s]
    <3>1. {Sent(p, n)} \cap missed[s] = {}
      BY <2>3
    <3> QED
      BY <2>1, <2>3, <3>1, FS_EmptySet
  <2> QED
    BY <2>2, <2>3
<1> QED
  BY <1>3, <1>4, <1>5

\* Whichever allocation, put or deserialization failed, every number that any publisher used is
\* for every subscription in exactly one place: with the thread that publishes it, in the
\* network, in the queue, taken, or missed (zenoh_pico_rosMessage.c:477, rmw_take.c:26).
THEOREM NoSampleIsLost == Spec => []EverySampleIsSomewhere
<1>1. ASSUME TypeOK, FlowInv PROVE EverySampleIsSomewhere
  <2> SUFFICES ASSUME NEW s \in Subscriptions, NEW p \in Publishers, NEW n \in 1..seq[p]
               PROVE  Cardinality({t \in Threads : thread[t] = [at |-> "numbered", pub |-> p, number |-> n]})
                      + Cardinality({i \in DOMAIN link[s][p] : link[s][p][i] = n})
                      + Cardinality({i \in DOMAIN queue[s] : queue[s][i] = Sent(p, n)})
                      + Cardinality({i \in DOMAIN taken[s] : taken[s][i] = Sent(p, n)})
                      + Cardinality({Sent(p, n)} \cap missed[s]) = 1
    BY DEF EverySampleIsSomewhere
  <2> DEFINE a == n = Newest(p) + 1
             b == n \in Coming(s, p)
             c == Sent(p, n) \in ToSet(queue[s])
             d == Sent(p, n) \in ToSet(taken[s])
             e == n \in Gone(s, p)
  <2>1. /\ n \in Nat \ {0} /\ Newest(p) \in Nat /\ n <= Newest(p) + 1
        /\ OrderOf(s) /\ FlowOf(s, p)
    BY <1>1, NewestNumber DEF FlowInv
  <2>2. n \in Came(s, p) <=> c \/ d
    BY <2>1 DEF Came
  <2>3. ~(c /\ d)
    BY <2>1, OrdersAreStrict DEF OrderOf
  <2>4. n \in 1..Newest(p) <=> ~a
    BY <2>1
  <2>5. n \in 1..Newest(p) <=> b \/ c \/ d \/ e
    BY <2>1, <2>2 DEF FlowOf
  <2>6. ~(e /\ (b \/ c \/ d))
    BY <2>1, <2>2 DEF FlowOf
  <2>7. ~(b /\ (c \/ d))
    <3>1. ~(b /\ n \in Came(s, p))
      BY <2>1 DEF FlowOf
    <3> QED
      BY <2>2, <3>1
  <2> HIDE DEF a, b, c, d, e
  <2>8. (IF a THEN 1 ELSE 0) + (IF b THEN 1 ELSE 0) + (IF c THEN 1 ELSE 0)
           + (IF d THEN 1 ELSE 0) + (IF e THEN 1 ELSE 0) = 1
    BY <2>3, <2>4, <2>5, <2>6, <2>7
  <2> QED
    BY <1>1, <2>8, PlacesOfSample DEF a, b, c, d, e
<1> QED
  BY <1>1, FlowInvariance, PTL DEF IInv

-----------------------------------------------------------------------------
(* The channel.                                                            *)

\* Numbers below a bound have a greatest one.
LEMMA GreatestNumber ==
    ASSUME NEW N \in SUBSET Nat, N # {}, NEW n \in Nat, \A m \in N : m < n
    PROVE  \E k \in N : \A m \in N : m <= k
<1> DEFINE D == {n - m : m \in N}
<1>1. D \subseteq Nat /\ D # {}
  <2>1. \A m \in N : n - m \in Nat
    OBVIOUS
  <2> QED
    BY <2>1
<1>2. PICK x \in D : \A y \in D : <<y, x>> \notin OpToRel(<, Nat)
  <2> HIDE DEF D
  <2> QED
    BY <1>1, WFMin, NatLessThanWellFounded, Zenon
<1>3. \A y \in D : ~(y < x)
  BY <1>1, <1>2 DEF OpToRel
<1>4. PICK k \in N : x = n - k
  OBVIOUS
<1>5. ASSUME NEW m \in N PROVE m <= k
  <2>1. ~(n - m < n - k)
    BY <1>3, <1>4
  <2>2. m \in Nat /\ k \in Nat
    OBVIOUS
  <2> QED
    BY <2>1, <2>2
<1> QED
  BY <1>5

\* The newest sample that s took of p is older than n when all of them are.
LEMMA LastIsOlder ==
    ASSUME TypeOK, NEW s \in Subscriptions, NEW p \in Publishers, NEW n \in Nat \ {0},
           \A a \in ToSet(taken[s]) : a.from = p => a.number < n
    PROVE  Channel!Last(s, p) < n
<1> DEFINE N == {taken[s][i].number : i \in {j \in DOMAIN taken[s] : taken[s][j].from = p}}
<1>1. \A i \in DOMAIN taken[s] : taken[s][i] \in Sample /\ taken[s][i] \in ToSet(taken[s])
  BY DEF TypeOK, ToSet
<1>2. N \in SUBSET Nat /\ \A m \in N : m < n
  BY <1>1, SampleIsSent
<1>3. Channel!Last(s, p) = IF N = {} THEN 0 ELSE CHOOSE k \in N : \A m \in N : m <= k
  BY DEF Channel!Last
<1> HIDE DEF N
<1>4. CASE N = {}
  BY <1>3, <1>4
<1>5. CASE N # {}
  <2>1. \E k \in N : \A m \in N : m <= k
    BY <1>2, <1>5, GreatestNumber
  <2>2. Channel!Last(s, p) \in N
    BY <1>3, <1>5, <2>1
  <2> QED
    BY <1>2, <2>2
<1> QED
  BY <1>4, <1>5

\* A message that is handed out is newer than all before of its publisher, and was published.
LEMMA TakeOneChannel ==
    ASSUME TypeOK, FlowInv, NEW s \in Subscriptions, NEW decoded \in BOOLEAN, TakeOne(s, decoded),
           UNCHANGED seq
    PROVE  \/ UNCHANGED taken
           \/ \E p \in Publishers : \E n \in 1..seq[p] : Channel!Take(s, p, n)
<1>0. PICK p, n : p = Head(queue[s]).from /\ n = Head(queue[s]).number
  OBVIOUS
<1>1. queue[s] \in Seq(Sample) /\ queue[s] # <<>>
  BY DEF TypeOK, TakeOne
<1>2. /\ Head(queue[s]) = Sent(p, n) /\ p \in Publishers /\ n \in Nat \ {0}
      /\ Head(queue[s]) \in ToSet(queue[s])
  <2>1. Head(queue[s]) \in Sample /\ Head(queue[s]) = queue[s][1] /\ 1 \in DOMAIN queue[s]
    BY <1>1, HeadTailProperties
  <2> QED
    BY <1>0, <2>1, SampleIsSent DEF ToSet
<1>3. OrderOf(s) /\ FlowOf(s, p)
  BY <1>2 DEF FlowInv
<1>4. \A a \in ToSet(taken[s]) : a.from = p => a.number < n
  <2> SUFFICES ASSUME NEW a \in ToSet(taken[s]), a.from = p PROVE a.number < n
    OBVIOUS
  <2>1. <<a, Sent(p, n)>> \in Earlier
    BY <1>2, <1>3 DEF OrderOf
  <2>2. a \in Sample
    BY <2>1 DEF Earlier
  <2>3. a = Sent(p, a.number)
    BY <2>2, SampleIsSent
  <2> QED
    BY <2>1, <2>3, OrdersAreStrict
<1>5. Channel!Last(s, p) < n
  BY <1>2, <1>4, LastIsOlder
<1>6. n \in 1..seq[p]
  <2>1. n \in 1..Newest(p)
    BY <1>2, <1>3 DEF FlowOf, Came
  <2>2. Newest(p) \in Nat /\ seq[p] \in Nat /\ Newest(p) <= seq[p]
    BY <1>2, NewestNumber DEF FlowInv
  <2> QED
    BY <2>1, <2>2
<1>7. CASE decoded
  <2>1. taken' = [taken EXCEPT ![s] = Append(taken[s], [from |-> p, number |-> n])]
    BY <1>2, <1>7 DEF TakeOne, Sent
  <2>2. Channel!Take(s, p, n)
    BY <1>5, <1>6, <2>1 DEF Channel!Take
  <2> QED
    BY <1>2, <1>6, <2>2
<1>8. CASE ~decoded
  BY <1>8, SMTT(30) DEF TakeOne
<1> QED
  BY <1>7, <1>8

\* Only the lock of a publisher and rmw_zenoh_pico_take_one are seen in the channel.
LEMMA StepChannel ==
    ASSUME TypeOK, FlowInv, [Next]_vars
    PROVE  [Channel!Next]_<<seq, taken>>
<1>1. ASSUME NEW t \in Threads, TakeNumber(t) PROVE Channel!Next
  <2>1. PICK p : p = thread[t].pub
    OBVIOUS
  <2>2. p \in Publishers
    <3>1. thread[t] \in ThreadState /\ thread[t].at = "serialized"
      BY <1>1 DEF TypeOK, TakeNumber
    <3> QED
      BY <2>1, <3>1 DEF ThreadState, Idle
  <2>3. Channel!Publish(p)
    BY <1>1, <2>1 DEF TakeNumber, Channel!Publish
  <2> QED
    BY <2>2, <2>3 DEF Channel!Next
<1>2. ASSUME NEW s \in Subscriptions, NEW decoded \in BOOLEAN, TakeOne(s, decoded), UNCHANGED seq
      PROVE  [Channel!Next]_<<seq, taken>>
  BY <1>2, TakeOneChannel DEF Channel!Next
<1>3. CASE UNCHANGED <<seq, taken>>
  BY <1>3
<1> QED
  BY <1>1, <1>2, <1>3
     DEF Next, vars, Create, CreateService, Generate, Serialize, Put, ReadTask, Handler, Taker,
         RmwTake, TakeNext, TakeNothing, TakeSequence

\* Publishing and taking implement a channel that may lose samples but neither reorders nor
\* repeats nor makes up those of a publisher, with any number of threads that publish with one
\* publisher and of subscriptions that take (the lock of rmw_zenoh_pico_publish).
THEOREM PublishingIsAChannel == Spec => IsTopicChannel
<1>1. Init => Channel!Init
  BY DEF Init, Channel!Init
<1>2. IInv /\ FlowInv /\ [Next]_vars => [Channel!Next]_<<seq, taken>>
  BY StepChannel DEF IInv
<1> QED
  BY <1>1, <1>2, FlowInvariance, PTL DEF Spec, IsTopicChannel, Channel!Spec

-----------------------------------------------------------------------------
(* Which endpoints meet.                                                   *)

\* An entity has a topic of its endpoint.
TopicInv == \A e \in Endpoints : Created(e) => entity[e].topic \in TopicsOf(e)

\* A sample is only on its way between endpoints with one key.
RouteInv ==
    /\ \A t \in Threads : thread[t].at # "idle" => Created(thread[t].pub)
    /\ \A s \in Subscriptions : \A p \in Publishers :
          Came(s, p) \cup Coming(s, p) # {} => Created(p) /\ s \in Matching(p)

What(e) == <<Node[e].domain, entity[e].topic.name.parts, entity[e].topic.type>>

\* The fields of a key.
LEMMA KeyFields ==
    ASSUME NEW P, NEW parts \in Seq(P), NEW a, NEW b, NEW c,
           NEW k, k = <<a>> \o parts \o <<b, c>>
    PROVE  /\ Len(k) = Len(parts) + 3 /\ k[1] = a /\ k[Len(k)] = c
           /\ \A i \in 1..Len(parts) : k[i + 1] = parts[i]
<1> DEFINE S == P \cup {a, b, c}
           head == <<a>> \o parts
<1>1. <<a>> \in Seq(S) /\ parts \in Seq(S) /\ <<b, c>> \in Seq(S)
      /\ Len(<<a>>) = 1 /\ <<a>>[1] = a /\ Len(<<b, c>>) = 2 /\ <<b, c>>[2] = c /\ Len(parts) \in Nat
  OBVIOUS
<1>2. /\ head \in Seq(S) /\ Len(head) = 1 + Len(parts)
      /\ \A i \in 1..(1 + Len(parts)) : head[i] = IF i <= 1 THEN <<a>>[i] ELSE parts[i - 1]
  BY <1>1, ConcatProperties
<1>3. /\ Len(k) = (1 + Len(parts)) + 2
      /\ \A i \in 1..((1 + Len(parts)) + 2) :
            k[i] = IF i <= 1 + Len(parts) THEN head[i] ELSE <<b, c>>[i - (1 + Len(parts))]
  BY <1>1, <1>2, ConcatProperties
<1> HIDE DEF S, head
<1>4. k[1] = a /\ \A i \in 1..Len(parts) : k[i + 1] = parts[i]
  <2>1. k[1] = head[1] /\ head[1] = <<a>>[1]
    BY <1>1, <1>2, <1>3
  <2>2. ASSUME NEW i \in 1..Len(parts) PROVE k[i + 1] = parts[i]
    <3>1. i + 1 \in 1..(1 + Len(parts)) /\ ~(i + 1 <= 1) /\ (i + 1) - 1 = i
      BY <1>1
    <3>2. k[i + 1] = head[i + 1]
      BY <1>1, <1>3, <3>1
    <3>3. head[i + 1] = parts[(i + 1) - 1]
      BY <1>2, <3>1
    <3> QED
      BY <3>1, <3>2, <3>3
  <2> QED
    BY <1>1, <2>1, <2>2
<1>5. k[Len(k)] = c
  <2>1. Len(k) \in 1..((1 + Len(parts)) + 2) /\ ~(Len(k) <= 1 + Len(parts))
        /\ Len(k) - (1 + Len(parts)) = 2
    BY <1>1, <1>3
  <2>2. k[Len(k)] = <<b, c>>[Len(k) - (1 + Len(parts))]
    BY <1>3, <2>1
  <2> QED
    BY <1>1, <2>1, <2>2
<1> QED
  BY <1>1, <1>3, <1>4, <1>5

\* The last field of a key is that of what is put behind the name.
LEMMA LastField ==
    ASSUME NEW P, NEW head \in Seq(P), NEW Q, NEW tail \in Seq(Q), tail # <<>>,
           NEW k, k = head \o tail
    PROVE  k[Len(k)] = tail[Len(tail)]
<1> DEFINE S == P \cup Q
<1>1. head \in Seq(S) /\ tail \in Seq(S) /\ Len(head) \in Nat /\ Len(tail) \in Nat \ {0}
  BY EmptySeq, LenProperties
<1>2. /\ Len(k) = Len(head) + Len(tail)
      /\ \A i \in 1..(Len(head) + Len(tail)) :
            k[i] = IF i <= Len(head) THEN head[i] ELSE tail[i - Len(head)]
  BY <1>1, ConcatProperties
<1>3. Len(k) \in 1..(Len(head) + Len(tail)) /\ ~(Len(k) <= Len(head)) /\ Len(k) - Len(head) = Len(tail)
  BY <1>1, <1>2
<1> QED
  BY <1>2, <1>3

\* Sequences with the same elements are the same.
LEMMA SameElements ==
    ASSUME NEW P, NEW Q, NEW x \in Seq(P), NEW y \in Seq(Q), Len(x) = Len(y),
           \A i \in 1..Len(x) : x[i] = y[i]
    PROVE  x = y
<1> DEFINE S == P \cup Q
<1>1. x \in Seq(S) /\ y \in Seq(S)
  OBVIOUS
<1> QED
  BY <1>1, SeqEqual

\* The names of topics are sequences of words; the hash tells their types apart.
LEMMA TopicFacts ==
    ASSUME NEW e \in Endpoints, NEW f \in Endpoints, NEW t \in TopicsOf(e), NEW u \in TopicsOf(f)
    PROVE  /\ t.name.parts \in Seq({t.name.parts[i] : i \in DOMAIN t.name.parts})
           /\ t.type.hash = u.type.hash => t.type = u.type
           /\ t.type.hash # "cut"
<1> DEFINE types == {x.type : x \in UNION {TopicsOf(d) : d \in Endpoints}}
<1>1. \E y \in Topics[e] : t.name = y.name
  <2>1. CASE e \in Publishers \cup Subscriptions
    BY <2>1 DEF TopicsOf
  <2>2. CASE e \notin Publishers \cup Subscriptions
    <3>1. PICK y \in Topics[e] : t = [y EXCEPT !.type = ServiceType(y.type)]
      BY <2>2 DEF TopicsOf
    <3>2. DOMAIN y = {"name", "type"}
      BY NameAssumption
    <3>3. t.name = y.name
      BY <3>1, <3>2
    <3> QED
      BY <3>3
  <2> QED
    BY <2>1, <2>2
<1>2. t.type \in types /\ u.type \in types
  OBVIOUS
<1>3. \A x, y \in types : x.hash # "cut" /\ (x.hash = y.hash => x = y)
  BY HashAssumption
<1>4. PICK y \in Topics[e] : t.name = y.name
  BY <1>1
<1>5. y.name.parts \in Seq({y.name.parts[i] : i \in DOMAIN y.name.parts})
  BY NameAssumption
<1> HIDE DEF types
<1> QED
  BY <1>2, <1>3, <1>4, <1>5

\* A domain that fits an int is printed as it is.
LEMMA DomainIsPrinted ==
    ASSUME NEW e \in Endpoints
    PROVE  DomainText(Node[e].domain).text = <<Node[e].domain>>
<1>1. Node[e].domain <= IntMax
  BY IntAssumption, WidthAssumption
<1>2. AsInt(Node[e].domain) = Node[e].domain
  BY <1>1 DEF AsInt
<1> QED
  BY <1>2 DEF DomainText, Number, Text

\* The hash is the last field of a key that fits its buffer, and of no other: what the code
\* writes when it does not fit ends before (zenoh_pico_topicInfo.c:147).
LEMMA OnlyWholeKeysHaveHash ==
    ASSUME TopicInv, NEW e \in Endpoints, Created(e), NEW k, k = KeyOf(e)
    PROVE  /\ Whole(e) => k[Len(k)] = entity[e].topic.type.hash
           /\ ~Whole(e) => k[Len(k)] = "cut"
<1>1. PICK c, m, x : /\ c = Node[e].domain /\ m = entity[e].topic.name.parts
                     /\ x = entity[e].topic.type
  OBVIOUS
<1>2. PICK P : m \in Seq(P)
  <2>1. entity[e].topic \in TopicsOf(e)
    BY DEF TopicInv
  <2> QED
    BY <1>1, <2>1, TopicFacts
<1>3. PICK head, a : head = <<a>> \o m /\ a = DomainText(c).text
  OBVIOUS
<1>4. PICK tail : tail = TypeInKey(c, entity[e].topic)
  OBVIOUS
<1>5. k = head \o tail
  BY <1>1, <1>3, <1>4 DEF KeyOf, TopicKey
<1>6. PICK T : head \in Seq(T)
  <2>1. <<a>> \in Seq(P \cup {a}) /\ m \in Seq(P \cup {a})
    BY <1>2
  <2> QED
    BY <1>3, <2>1, ConcatProperties
<1>7. CASE Whole(e)
  <2>1. tail = <<TypeName(x).text, TypeHash(x).text>> /\ TypeHash(x).text = x.hash
    BY <1>1, <1>4, <1>7 DEF Whole, TypeInKey, TypeHash, Text
  <2>2. PICK b, h : tail = <<b, h>> /\ h = x.hash
    BY <2>1
  <2>3. tail \in Seq({b, h}) /\ tail # <<>> /\ tail[Len(tail)] = h
    BY <2>2
  <2> QED
    BY <1>1, <1>5, <1>6, <1>7, <2>2, <2>3, LastField
<1>8. CASE ~Whole(e)
  <2>1. tail = <<"cut">> \/ tail = <<TypeName(x).text, "cut">>
    BY <1>1, <1>4, <1>8 DEF Whole, TypeInKey
  <2>2. PICK Q : tail \in Seq(Q) /\ tail # <<>> /\ tail[Len(tail)] = "cut"
    <3>1. CASE tail = <<"cut">>
      <4>1. tail \in Seq({"cut"}) /\ tail # <<>> /\ tail[Len(tail)] = "cut"
        BY <3>1
      <4> QED
        BY <4>1
    <3>2. CASE tail = <<TypeName(x).text, "cut">>
      <4>1. PICK b : tail = <<b, "cut">>
        BY <3>2
      <4>2. tail \in Seq({b, "cut"}) /\ tail # <<>> /\ tail[Len(tail)] = "cut"
        BY <4>1
      <4> QED
        BY <4>2
    <3> QED
      BY <2>1, <3>1, <3>2
  <2> QED
    BY <1>5, <1>6, <1>8, <2>2, LastField
<1> QED
  BY <1>7, <1>8

\* A key that is cut is none of those that fit.
LEMMA CutKeysMissWholeOnes ==
    ASSUME TopicInv, NEW e \in Endpoints, NEW f \in Endpoints, Created(e), Created(f),
           Whole(e), KeyOf(e) = KeyOf(f)
    PROVE  Whole(f)
<1>1. PICK k : k = KeyOf(e) /\ k = KeyOf(f)
  OBVIOUS
<1>2. k[Len(k)] = entity[e].topic.type.hash
  BY <1>1, OnlyWholeKeysHaveHash
<1>3. entity[e].topic.type.hash # "cut"
  <2>1. PICK t \in TopicsOf(e) : t = entity[e].topic
    BY DEF TopicInv
  <2>2. t.type.hash # "cut"
    BY TopicFacts
  <2> QED
    BY <2>1, <2>2
<1> QED
  BY <1>1, <1>2, <1>3, OnlyWholeKeysHaveHash

\* ros_topic_name_to_zenoh_key tells topics whose keys fit the buffer apart exactly by domain,
\* name and type.
LEMMA KeysTellTopics ==
    ASSUME TopicInv, NEW e \in Endpoints, NEW f \in Endpoints, Created(e), Created(f),
           Whole(e), Whole(f)
    PROVE  KeyOf(e) = KeyOf(f) <=> What(e) = What(f)
<1>0. PICK c, d, m, n, x, y : /\ c = Node[e].domain /\ m = entity[e].topic.name.parts
                              /\ d = Node[f].domain /\ n = entity[f].topic.name.parts
                              /\ x = entity[e].topic.type /\ y = entity[f].topic.type
  OBVIOUS
<1>1. PICK P, Q : m \in Seq(P) /\ n \in Seq(Q)
  <2>1. entity[e].topic \in TopicsOf(e) /\ entity[f].topic \in TopicsOf(f)
    BY DEF TopicInv
  <2>2. m \in Seq({m[i] : i \in DOMAIN m})
    BY <1>0, <2>1, TopicFacts
  <2>3. n \in Seq({n[i] : i \in DOMAIN n})
    BY <1>0, <2>1, TopicFacts
  <2> QED
    BY <2>2, <2>3
<1>2. x.hash = y.hash => x = y
  BY <1>0, TopicFacts DEF TopicInv
<1>3. /\ KeyOf(e) = <<<<c>>>> \o m \o <<TypeName(x).text, x.hash>>
      /\ KeyOf(f) = <<<<d>>>> \o n \o <<TypeName(y).text, y.hash>>
  <2>1. DomainText(c).text = <<c>> /\ DomainText(d).text = <<d>>
    BY <1>0, DomainIsPrinted
  <2>2. TypeHash(x).text = x.hash /\ TypeHash(y).text = y.hash
    BY DEF TypeHash, Text
  <2>3. /\ TypeInKey(c, entity[e].topic) = <<TypeName(x).text, TypeHash(x).text>>
        /\ TypeInKey(d, entity[f].topic) = <<TypeName(y).text, TypeHash(y).text>>
    BY <1>0 DEF Whole, TypeInKey
  <2> QED
    BY <1>0, <2>1, <2>2, <2>3 DEF KeyOf, TopicKey
<1>4. What(e) = <<c, m, x>> /\ What(f) = <<d, n, y>>
  BY <1>0 DEF What
<1>5. What(e) = What(f) <=> c = d /\ m = n /\ x = y
  BY <1>4
<1>6. c = d /\ m = n /\ x = y => KeyOf(e) = KeyOf(f)
  BY <1>3
<1>7. ASSUME KeyOf(e) = KeyOf(f) PROVE c = d /\ m = n /\ x = y
  <2>1. PICK k : k = KeyOf(e)
    OBVIOUS
  <2>2. /\ Len(k) = Len(m) + 3 /\ k[1] = <<c>> /\ k[Len(k)] = x.hash
        /\ \A i \in 1..Len(m) : k[i + 1] = m[i]
    BY <1>1, <1>3, <2>1, KeyFields, SMTT(30)
  <2>3. /\ Len(k) = Len(n) + 3 /\ k[1] = <<d>> /\ k[Len(k)] = y.hash
        /\ \A i \in 1..Len(n) : k[i + 1] = n[i]
    BY <1>1, <1>3, <1>7, <2>1, KeyFields, SMTT(30)
  <2>4. c = d
    <3>1. <<c>>[1] = <<d>>[1]
      BY <2>2, <2>3
    <3> QED
      BY <3>1
  <2>5. Len(m) = Len(n)
    <3>1. Len(m) \in Nat /\ Len(n) \in Nat
      BY <1>1
    <3> QED
      BY <2>2, <2>3, <3>1
  <2>6. m = n
    BY <1>1, <2>2, <2>3, <2>5, SameElements
  <2> QED
    BY <1>2, <2>2, <2>3, <2>4, <2>6
<1> QED
  BY <1>5, <1>6, <1>7

\* Nothing is created at first.
LEMMA InitRoute == Init => TopicInv /\ RouteInv
<1> SUFFICES ASSUME Init PROVE TopicInv /\ RouteInv
  OBVIOUS
<1>1. TopicInv
  BY DEF Init, TopicInv, Created
<1>2. \A t \in Threads : thread[t].at = "idle"
  BY DEF Init, Idle
<1>3. \A s \in Subscriptions : \A p \in Publishers : Came(s, p) = {} /\ Coming(s, p) = {}
  BY DEF Init, Came, Coming, ToSet
<1> QED
  BY <1>1, <1>2, <1>3 DEF RouteInv

\* Creation makes a new entity and leaves the others as they are.
LEMMA CreateRoute ==
    ASSUME IInv, TopicInv, RouteInv, NEW e \in Endpoints, NEW topic \in Topics[e],
           Create(e, topic) \/ CreateService(e, topic)
    PROVE  TopicInv' /\ RouteInv'
<1>1. PICK kept \in TopicsOf(e) : Generate(e, kept)
  <2>1. CASE Create(e, topic)
    BY <2>1 DEF Create, TopicsOf
  <2>2. CASE CreateService(e, topic)
    <3>1. e \notin Publishers \cup Subscriptions
      BY <2>2, DisjointAssumption DEF CreateService
    <3> QED
      BY <2>2, <3>1 DEF CreateService, TopicsOf
  <2> QED
    BY <2>1, <2>2
<1>2. PICK new : entity' = [entity EXCEPT ![e] = new] /\ new.topic = kept
  <2>1. entity' = [entity EXCEPT ![e] = [id |-> nextId[Node[e].zid.text], topic |-> kept]]
    BY <1>1 DEF Generate
  <2>2. [id |-> nextId[Node[e].zid.text], topic |-> kept].topic = kept
    OBVIOUS
  <2> QED
    BY <2>1, <2>2
<1>3. ~Created(e) /\ UNCHANGED <<thread, link, queue, taken>>
  BY <1>1 DEF Generate
<1>4. entity'[e] = new /\ \A x \in Endpoints \ {e} : entity'[x] = entity[x]
  BY <1>2 DEF IInv, EntityInv
<1>5. TopicInv'
  <2> SUFFICES ASSUME NEW x \in Endpoints, entity'[x] # None PROVE entity'[x].topic \in TopicsOf(x)
    BY DEF TopicInv, Created
  <2>1. CASE x = e
    BY <1>2, <1>4, <2>1
  <2>2. CASE x # e
    BY <1>4, <2>2 DEF TopicInv, Created
  <2> QED
    BY <2>1, <2>2
<1>6. \A x \in Endpoints : Created(x) => Created(x)' /\ KeyOf(x)' = KeyOf(x)
  BY <1>3, <1>4 DEF Created, KeyOf
<1>7. \A s \in Subscriptions : \A p \in Publishers :
         /\ Came(s, p)' = Came(s, p) /\ Coming(s, p)' = Coming(s, p)
         /\ Created(p) /\ s \in Matching(p) => Created(p)' /\ s \in Matching(p)'
  BY <1>3, <1>6, SamePlaces DEF Coming, Matching, Endpoints
<1>8. \A t \in Threads : thread[t].at # "idle" => thread[t].pub \in Publishers
  <2> SUFFICES ASSUME NEW t \in Threads, thread[t].at # "idle" PROVE thread[t].pub \in Publishers
    OBVIOUS
  <2>1. thread[t] \in ThreadState
    BY DEF IInv, TypeOK
  <2> QED
    BY <2>1 DEF ThreadState, Idle
<1>9. \A t \in Threads : thread'[t].at # "idle" => entity'[thread'[t].pub] # None
  <2> SUFFICES ASSUME NEW t \in Threads, thread[t].at # "idle" PROVE entity'[thread[t].pub] # None
    BY <1>3
  <2>1. thread[t].pub \in Endpoints /\ Created(thread[t].pub)
    BY <1>8 DEF RouteInv, Endpoints
  <2> QED
    BY <1>3, <1>4, <2>1 DEF Created
<1> QED
  BY <1>5, <1>7, <1>9 DEF RouteInv, Created

\* A step after which nothing new is on its way keeps the routes.
LEMMA SameRoute ==
    ASSUME RouteInv, UNCHANGED entity,
           \A t \in Threads : thread'[t].at # "idle" =>
               thread[t].at # "idle" /\ thread'[t].pub = thread[t].pub,
           \A s \in Subscriptions : \A p \in Publishers :
               Came(s, p)' \cup Coming(s, p)' \subseteq Came(s, p) \cup Coming(s, p)
    PROVE  RouteInv'
<1>1. \A p : Created(p)' <=> Created(p)
  BY DEF Created
<1>2. \A p : Matching(p)' = Matching(p)
  BY DEF Matching, Created, KeyOf
<1>3. \A t \in Threads : thread'[t].at # "idle" => Created(thread[t].pub)' /\ thread'[t].pub = thread[t].pub
  BY DEF RouteInv, Created
<1>4. \A s \in Subscriptions : \A p \in Publishers :
         Came(s, p)' \cup Coming(s, p)' # {} => Created(p)' /\ s \in Matching(p)'
  BY <1>1, <1>2 DEF RouteInv
<1> QED
  BY <1>3, <1>4 DEF RouteInv, Created

\* Serialize begins with a publisher that was created.
LEMMA PublishRoute ==
    ASSUME TypeOK, RouteInv, NEW t \in Threads,
           \/ \E p \in Publishers : Serialize(t, p)
           \/ TakeNumber(t)
           \/ \E reached \in SUBSET Subscriptions : Put(t, reached)
    PROVE  RouteInv'
<1>1. CASE \E p \in Publishers : Serialize(t, p)
  <2>1. PICK p \in Publishers : Serialize(t, p)
    BY <1>1
  <2>2. /\ Created(p) /\ UNCHANGED <<entity, link, queue, taken>>
        /\ thread'[t].pub = p /\ \A u \in Threads : u # t => thread'[u] = thread[u]
    BY <2>1 DEF Serialize, TypeOK
  <2>3. \A u \in Threads : thread'[u].at # "idle" => entity'[thread'[u].pub] # None
    BY <2>2 DEF RouteInv, Created
  <2>4. \A s \in Subscriptions : \A q \in Publishers :
           Came(s, q)' \cup Coming(s, q)' # {} => Created(q)' /\ s \in Matching(q)'
    BY <2>2, SamePlaces DEF RouteInv, Coming, Matching, Created, KeyOf
  <2> QED
    BY <2>3, <2>4 DEF RouteInv, Created
<1>2. CASE TakeNumber(t)
  <2>1. /\ thread[t].at = "serialized" /\ UNCHANGED <<entity, link, queue, taken>>
        /\ \/ thread' = [thread EXCEPT ![t] = [thread[t] EXCEPT !.at = "numbered",
                                                               !.number = seq[thread[t].pub] + 1]]
           \/ thread' = [thread EXCEPT ![t] = Idle]
    BY <1>2 DEF TakeNumber, Numbered
  <2>2. thread[t] \in [at : {"serialized"}, pub : Publishers, number : {0}]
    BY <2>1 DEF TypeOK, ThreadState, Idle
  <2>3. thread'[t].at # "idle" => thread'[t].pub = thread[t].pub
    <3>1. [thread[t] EXCEPT !.at = "numbered", !.number = seq[thread[t].pub] + 1].pub = thread[t].pub
      BY <2>2
    <3>2. Idle.at = "idle"
      BY DEF Idle
    <3>3. thread \in [Threads -> ThreadState]
      BY DEF TypeOK
    <3> QED
      BY <2>1, <3>1, <3>2, <3>3
  <2>4. \A u \in Threads : u # t => thread'[u] = thread[u]
    BY <2>1 DEF TypeOK
  <2>5. \A u \in Threads : thread'[u].at # "idle" =>
           thread[u].at # "idle" /\ thread'[u].pub = thread[u].pub
    BY <2>1, <2>3, <2>4
  <2>6. \A s \in Subscriptions : \A q \in Publishers :
           Came(s, q)' \cup Coming(s, q)' \subseteq Came(s, q) \cup Coming(s, q)
    BY <2>1, SamePlaces DEF Coming
  <2> QED
    BY <2>1, <2>5, <2>6, SameRoute
<1>3. CASE \E reached \in SUBSET Subscriptions : Put(t, reached)
  <2>0. PICK p, n : p = thread[t].pub /\ n = thread[t].number
    OBVIOUS
  <2>1. PICK reached \in SUBSET Subscriptions :
           /\ thread[t].at = "numbered" /\ reached \subseteq Matching(p)
           /\ link' = [s \in Subscriptions |->
                          IF s \in reached THEN [link[s] EXCEPT ![p] = Append(link[s][p], n)] ELSE link[s]]
           /\ thread' = [thread EXCEPT ![t] = Idle]
           /\ UNCHANGED <<entity, queue, taken>>
    BY <1>3, <2>0 DEF Put
  <2>2. \A u \in Threads : thread'[u].at # "idle" => thread'[u] = thread[u]
    BY <2>1 DEF TypeOK, Idle
  <2>3. Created(p)
    BY <2>0, <2>1 DEF RouteInv
  <2>4. ASSUME NEW s \in Subscriptions, NEW q \in Publishers, ~(q = p /\ s \in reached)
        PROVE  Coming(s, q)' = Coming(s, q)
    BY <2>1, <2>4 DEF Coming, TypeOK
  <2>5. \A s \in Subscriptions : \A q \in Publishers :
           Came(s, q)' \cup Coming(s, q)' # {} => Created(q)' /\ s \in Matching(q)'
    <3> SUFFICES ASSUME NEW s \in Subscriptions, NEW q \in Publishers,
                        Came(s, q)' \cup Coming(s, q)' # {}
                 PROVE  Created(q)' /\ s \in Matching(q)'
      OBVIOUS
    <3>1. Created(q) /\ s \in Matching(q)
      <4>1. CASE q = p /\ s \in reached
        BY <2>1, <2>3, <4>1
      <4>2. CASE ~(q = p /\ s \in reached)
        BY <2>1, <2>4, <4>2, SamePlaces DEF RouteInv
      <4> QED
        BY <4>1, <4>2
    <3> QED
      BY <2>1, <3>1 DEF Matching, Created, KeyOf
  <2>6. \A u \in Threads : thread'[u].at # "idle" => entity'[thread'[u].pub] # None
    BY <2>1, <2>2 DEF RouteInv, Created
  <2> QED
    BY <2>5, <2>6 DEF RouteInv, Created
<1> QED
  BY <1>1, <1>2, <1>3

\* The handler and rmw_zenoh_pico_take_one only move samples on.
LEMMA MoveRoute ==
    ASSUME TypeOK, RouteInv, UNCHANGED <<entity, thread>>, NEW s \in Subscriptions,
           \/ \E p \in Publishers : Handler(s, p)
           \/ UNCHANGED link /\ \E decoded \in BOOLEAN : TakeOne(s, decoded)
    PROVE  RouteInv'
<1>1. /\ queue[s] \in Seq(Sample) /\ taken[s] \in Seq(Sample) /\ link[s] \in [Publishers -> Seq(Nat \ {0})]
      /\ queue \in [Subscriptions -> Seq(Sample)] /\ taken \in [Subscriptions -> Seq(Sample)]
      /\ link \in [Subscriptions -> [Publishers -> Seq(Nat \ {0})]]
  BY DEF TypeOK
<1>2. CASE \E p \in Publishers : Handler(s, p)
  <2>1. PICK p \in Publishers : Handler(s, p)
    BY <1>2
  <2>2. PICK n, rest : n = Head(link[s][p]) /\ rest = Tail(link[s][p])
    OBVIOUS
  <2>3. /\ link[s][p] # <<>> /\ UNCHANGED taken
        /\ link' = [link EXCEPT ![s] = [link[s] EXCEPT ![p] = rest]]
        /\ queue' = [queue EXCEPT ![s] = Append(queue[s], Sent(p, n))] \/ queue' = queue
    BY <2>1, <2>2 DEF Handler
  <2>4. link[s][p] \in Seq(Nat \ {0}) /\ n \in Nat \ {0} /\ Sent(p, n) \in Sample
    BY <1>1, <2>2, <2>3, HeadTailProperties, SampleIsSent
  <2>5. n \in Coming(s, p) /\ ToSet(rest) \subseteq Coming(s, p)
    <3>1. n = link[s][p][1] /\ 1 \in DOMAIN link[s][p]
      BY <2>2, <2>3, <2>4, HeadTailProperties
    <3>2. PICK S : S = Nat \ {0}
      OBVIOUS
    <3>3. ToSet(rest) \subseteq ToSet(link[s][p])
      BY <2>2, <2>3, <2>4, <3>2, ElementsAfterTail
    <3> QED
      BY <3>1, <3>3 DEF Coming, ToSet
  <2>6. \A u \in Subscriptions : ToSet(queue'[u]) \subseteq ToSet(queue[u]) \cup (IF u = s THEN {Sent(p, n)} ELSE {})
    <3>1. ToSet(Append(queue[s], Sent(p, n))) = ToSet(queue[s]) \cup {Sent(p, n)}
      BY <1>1, <2>4, ElementsAfterAppend
    <3> QED
      BY <1>1, <2>3, <3>1
  <2>7. ASSUME NEW u \in Subscriptions, NEW q \in Publishers
        PROVE  Came(u, q)' \cup Coming(u, q)' \subseteq Came(u, q) \cup Coming(u, q)
    <3>1. Coming(u, q)' \subseteq Coming(u, q)
      BY <1>1, <2>3, <2>5 DEF Coming
    <3>2. \A m \in Came(u, q)' : m \in Came(u, q) \/ (u = s /\ q = p /\ m = n)
      <4> SUFFICES ASSUME NEW m \in Nat \ {0}, Sent(q, m) \in ToSet(taken[u]) \cup ToSet(queue'[u])
                   PROVE  m \in Came(u, q) \/ (u = s /\ q = p /\ m = n)
        BY <2>3 DEF Came
      <4>1. Sent(q, m) \in ToSet(taken[u]) \cup ToSet(queue[u]) \/ (u = s /\ Sent(q, m) = Sent(p, n))
        BY <2>6
      <4> QED
        BY <4>1, SampleIsSent DEF Came
    <3> QED
      BY <2>5, <3>1, <3>2
  <2> QED
    BY <2>7, SameRoute
<1>3. CASE UNCHANGED link /\ \E decoded \in BOOLEAN : TakeOne(s, decoded)
  <2>1. PICK decoded \in BOOLEAN : TakeOne(s, decoded)
    BY <1>3
  <2>2. /\ queue[s] # <<>> /\ queue' = [queue EXCEPT ![s] = Tail(queue[s])]
        /\ taken' = [taken EXCEPT ![s] = Append(taken[s], Head(queue[s]))] \/ taken' = taken
    BY <2>1 DEF TakeOne
  <2>3. /\ Head(queue[s]) \in Sample /\ Head(queue[s]) \in ToSet(queue[s])
        /\ ToSet(Tail(queue[s])) \subseteq ToSet(queue[s])
    BY <1>1, <2>2, HeadTailProperties, ElementsAfterTail DEF ToSet
  <2>4. ToSet(Append(taken[s], Head(queue[s]))) = ToSet(taken[s]) \cup {Head(queue[s])}
    BY <1>1, <2>3, ElementsAfterAppend
  <2>5. \A u \in Subscriptions :
           ToSet(taken'[u]) \cup ToSet(queue'[u]) \subseteq ToSet(taken[u]) \cup ToSet(queue[u])
    BY <1>1, <2>2, <2>3, <2>4
  <2>6. \A u \in Subscriptions : \A q \in Publishers :
           Came(u, q)' \cup Coming(u, q)' \subseteq Came(u, q) \cup Coming(u, q)
    BY <1>3, <2>5 DEF Came, Coming
  <2> QED
    BY <2>6, SameRoute
<1> QED
  BY <1>2, <1>3

\* Every step keeps topics and routes.
LEMMA StepRoute == IInv /\ TopicInv /\ RouteInv /\ [Next]_vars => TopicInv' /\ RouteInv'
<1> SUFFICES ASSUME IInv, TopicInv, RouteInv, [Next]_vars PROVE TopicInv' /\ RouteInv'
  OBVIOUS
<1>1. TypeOK
  BY DEF IInv
<1>2. entity' = entity => TopicInv'
  BY DEF TopicInv, Created, TopicsOf
<1>3. ASSUME NEW e \in Endpoints, NEW topic \in Topics[e], Create(e, topic) \/ CreateService(e, topic)
      PROVE  TopicInv' /\ RouteInv'
  BY <1>3, CreateRoute
<1>4. ASSUME NEW t \in Threads, \/ \E p \in Publishers : Serialize(t, p)
                                \/ TakeNumber(t)
                                \/ \E reached \in SUBSET Subscriptions : Put(t, reached)
      PROVE  TopicInv' /\ RouteInv'
  <2>1. entity' = entity
    BY <1>4 DEF Serialize, TakeNumber, Put
  <2> QED
    BY <1>1, <1>2, <1>4, <2>1, PublishRoute
<1>5. ASSUME NEW s \in Subscriptions, ReadTask(s) PROVE TopicInv' /\ RouteInv'
  <2>1. UNCHANGED <<entity, thread>> /\ \E p \in Publishers : Handler(s, p)
    BY <1>5 DEF ReadTask, Handler
  <2> QED
    BY <1>1, <1>2, <2>1, MoveRoute
<1>6. ASSUME NEW s \in Subscriptions, NEW decoded \in BOOLEAN, RmwTake(s, decoded) \/ TakeNext(s, decoded)
      PROVE  TopicInv' /\ RouteInv'
  <2>1. UNCHANGED <<entity, thread, link>> /\ TakeOne(s, decoded)
    BY <1>6 DEF RmwTake, TakeNext
  <2> QED
    BY <1>1, <1>2, <2>1, MoveRoute
<1>7. CASE UNCHANGED <<entity, thread, link, queue, taken>>
  BY <1>2, <1>7, SameRoute, SamePlaces DEF Coming
<1>8. ASSUME NEW s \in Subscriptions, TakeNothing(s) \/ \E count \in 1..CountMax : TakeSequence(s, count)
      PROVE  TopicInv' /\ RouteInv'
  BY <1>7, <1>8 DEF TakeNothing, TakeSequence
<1>9. CASE UNCHANGED vars
  BY <1>7, <1>9 DEF vars
<1> QED
  BY <1>3, <1>4, <1>5, <1>6, <1>8, <1>9 DEF Next, Taker

\* Of the keys that fit their buffer two meet exactly when they have one domain, one version of
\* one type and one name, and a subscription whose key fits takes only from publishers of its
\* topic, also when the keys of others are cut, for any names that rcl admits and types whose
\* hashes differ (zenoh_pico_topicInfo.c:109).
THEOREM OnlyOneTopicMeets == Spec => []OnlySameTopics
<1>1. ASSUME IInv, TopicInv, RouteInv PROVE OnlySameTopics
  <2> DEFINE whole == {e \in Endpoints : Created(e) /\ Whole(e)}
             keys == {<<KeyOf(e), What(e)>> : e \in whole}
  <2>1. ASSUME NEW x \in keys, NEW y \in keys PROVE x[1] = y[1] <=> x[2] = y[2]
    <3>1. PICK e \in whole : x = <<KeyOf(e), What(e)>>
      OBVIOUS
    <3>2. PICK f \in whole : y = <<KeyOf(f), What(f)>>
      OBVIOUS
    <3>3. KeyOf(e) = KeyOf(f) <=> What(e) = What(f)
      BY <1>1, <3>1, <3>2, KeysTellTopics
    <3> QED
      BY <3>1, <3>2, <3>3
  <2>2. ASSUME NEW s \in Subscriptions \cap whole, NEW i \in DOMAIN taken[s]
        PROVE  What(taken[s][i].from) = What(s)
    <3>1. PICK p \in Publishers, n \in Nat \ {0} : taken[s][i] = Sent(p, n)
      <4>1. taken[s][i] \in Sample
        BY <1>1 DEF IInv, TypeOK
      <4> QED
        BY <4>1, SampleIsSent
    <3>2. n \in Came(s, p)
      BY <3>1 DEF Came, ToSet
    <3>3. Created(p) /\ Created(s) /\ KeyOf(s) = KeyOf(p)
      BY <1>1, <3>2 DEF RouteInv, Matching
    <3>4. Whole(s) /\ s \in Endpoints /\ p \in Endpoints
      BY DEF Endpoints
    <3>5. Whole(p)
      BY <1>1, <3>3, <3>4, CutKeysMissWholeOnes
    <3>6. What(s) = What(p)
      BY <1>1, <3>3, <3>4, <3>5, KeysTellTopics
    <3> QED
      BY <3>1, <3>6, SampleIsSent
  <2> QED
    BY <2>1, <2>2 DEF OnlySameTopics, What
<1> QED
  BY <1>1, InitInv, InitRoute, StepInv, StepRoute, PTL DEF Spec

-----------------------------------------------------------------------------
(* Liveliness tokens.                                                      *)

\* The session of an endpoint, and the endpoints that are there.
Session(e) == Node[e].zid.text
Present == {e \in Endpoints : Created(e)}

\* A session has given its ids to its entities one after the other, after that of its node, so
\* that they are no more than the endpoints.
IdInv ==
    /\ \A e \in Endpoints : Created(e) =>
          entity[e].id \in Nat \ {0} /\ entity[e].id < nextId[Session(e)]
    /\ \A e, f \in Endpoints :
          Created(e) /\ Created(f) /\ Session(e) = Session(f) /\ entity[e].id = entity[f].id => e = f
    /\ \A z \in Zids : nextId[z] \in Nat \ {0} /\ nextId[z] <= 1 + Cardinality(Present)

\* A buffer that takes the first fields of a key keeps them.
LEMMA FieldsAreKept ==
    ASSUME NEW S, NEW fields \in Seq(S), NEW n \in 1..Len(fields),
           Length(SubSeq(fields, 1, n)) <= KeyMax, NEW i \in 1..n
    PROVE  Fitting(fields)[i] = fields[i]
<1> DEFINE fits == {k \in 1..Len(fields) : Length(SubSeq(fields, 1, k)) <= KeyMax}
           last == CHOOSE k \in fits : \A j \in fits : j <= k
<1>1. n \in fits /\ fits \in SUBSET Nat /\ Len(fields) + 1 \in Nat
  OBVIOUS
<1>2. \A k \in fits : k < Len(fields) + 1
  OBVIOUS
<1>3. \E k \in fits : \A j \in fits : j <= k
  <2> HIDE DEF fits
  <2> QED
    BY <1>1, <1>2, GreatestNumber
<1>4. last \in fits /\ \A j \in fits : j <= last
  <2> HIDE DEF fits
  <2> QED
    BY <1>3
<1>5. Fitting(fields) = SubSeq(fields, 1, last)
  BY DEF Fitting
<1>6. last \in 1..Len(fields) /\ n <= last
  BY <1>1, <1>4
<1> HIDE DEF fits, last
<1>7. \A j \in 1..last : fields[j] \in S
  BY <1>6
<1>8. i \in 1..(last - 1 + 1) /\ 1 + i - 1 = i
  BY <1>6
<1>9. SubSeq(fields, 1, last)[i] = fields[1 + i - 1]
  BY <1>6, <1>7, <1>8, SubSeqProperties
<1> QED
  BY <1>5, <1>8, <1>9

\* What follows a sequence does not change how it begins.
LEMMA Beginning ==
    ASSUME NEW S, NEW a \in Seq(S), NEW b \in Seq(S), NEW n \in 1..Len(a)
    PROVE  /\ a \o b \in Seq(S) /\ n \in 1..Len(a \o b)
           /\ \A i \in 1..n : (a \o b)[i] = a[i]
           /\ SubSeq(a \o b, 1, n) = SubSeq(a, 1, n)
<1>1. PICK k : k = a \o b
  OBVIOUS
<1>2. /\ k \in Seq(S) /\ Len(k) = Len(a) + Len(b)
      /\ \A i \in 1..(Len(a) + Len(b)) : k[i] = IF i <= Len(a) THEN a[i] ELSE b[i - Len(a)]
  BY <1>1, ConcatProperties
<1>3. Len(a) \in Nat /\ Len(b) \in Nat /\ n \in Nat /\ 1 <= n /\ n <= Len(a)
  OBVIOUS
<1>4. \A i \in 1..n : k[i] = a[i] /\ a[i] \in S /\ k[i] \in S
  BY <1>2, <1>3
<1>5. /\ SubSeq(k, 1, n) \in Seq(S) /\ Len(SubSeq(k, 1, n)) = n
      /\ \A i \in 1..n : SubSeq(k, 1, n)[i] = k[1 + i - 1]
  BY <1>3, <1>4, SubSeqProperties
<1>6. /\ SubSeq(a, 1, n) \in Seq(S) /\ Len(SubSeq(a, 1, n)) = n
      /\ \A i \in 1..n : SubSeq(a, 1, n)[i] = a[1 + i - 1]
  BY <1>3, <1>4, SubSeqProperties
<1>7. \A i \in 1..n : 1 + i - 1 = i
  BY <1>3
<1>8. SubSeq(k, 1, n) = SubSeq(a, 1, n)
  BY <1>4, <1>5, <1>6, <1>7, SameElements
<1>9. n \in 1..Len(k)
  BY <1>2, <1>3
<1> QED
  BY <1>1, <1>2, <1>4, <1>8, <1>9

\* What a token is made for.
Kinds == {"NN", "MP", "MS", "SS", "SC"}
Ids == 0..Cardinality(Endpoints)

\* A token says which session and which id, whatever follows.
LEMMA TokenSays ==
    ASSUME NEW e \in Endpoints, NEW id \in Ids, NEW kind \in Kinds,
           NEW T, NEW rest \in Seq(T), NEW token,
           token = Fitting(NodeFields(Node[e], id, kind) \o rest)
    PROVE  token[3] = Node[e].zid /\ token[5] = Number(id)
<1>1. PICK a : a = NodeFields(Node[e], id, kind)
  OBVIOUS
<1>2. PICK x1, x2, x4, x6, x7, x8, x9 :
         a = <<x1, x2, Node[e].zid, x4, Number(id), x6, x7, x8, x9>>
  BY <1>1 DEF NodeFields
<1>3. PICK S : a \in Seq(S) /\ rest \in Seq(S)
  <2> DEFINE R == T \cup {x1, x2, Node[e].zid, x4, Number(id), x6, x7, x8, x9}
  <2>1. a \in Seq(R) /\ rest \in Seq(R)
    BY <1>2
  <2> QED
    BY <2>1
<1>4. a[3] = Node[e].zid /\ a[5] = Number(id) /\ 5 \in 1..Len(a) /\ 3 \in 1..5 /\ 5 \in 1..5
  BY <1>2
<1>5. Length(SubSeq(a, 1, 5)) <= KeyMax
  BY <1>1, HeadAssumption DEF Ids, Kinds
<1>6. PICK fields : fields = a \o rest
  OBVIOUS
<1>7. /\ fields \in Seq(S) /\ 5 \in 1..Len(fields)
      /\ \A i \in 1..5 : fields[i] = a[i]
      /\ SubSeq(fields, 1, 5) = SubSeq(a, 1, 5)
  BY <1>3, <1>4, <1>6, Beginning
<1>8. \A i \in 1..5 : Fitting(fields)[i] = fields[i]
  BY <1>5, <1>7, FieldsAreKept
<1> QED
  BY <1>1, <1>4, <1>6, <1>7, <1>8

\* No endpoint is there at first, and each session has given its node an id.
LEMMA InitIds == Init => IdInv
<1> SUFFICES ASSUME Init PROVE IdInv
  OBVIOUS
<1>1. \A e \in Endpoints : ~Created(e)
  BY DEF Init, Created
<1>2. Present = {}
  BY <1>1 DEF Present
<1>3. Cardinality(Present) = 0
  BY <1>2, FS_EmptySet
<1>4. \A z \in Zids : nextId[z] = 1
  BY DEF Init
<1> QED
  BY <1>1, <1>3, <1>4 DEF IdInv

\* zenoh_pico_generate_entity gives the next id and counts it.
LEMMA GenerateIds ==
    ASSUME IInv, IdInv, NEW e \in Endpoints, NEW topic \in TopicsOf(e), Generate(e, topic)
    PROVE  IdInv'
<1>1. PICK z, new : z = Session(e) /\ new = [id |-> nextId[z], topic |-> topic]
  OBVIOUS
<1>2. /\ entity' = [entity EXCEPT ![e] = new] /\ nextId' = [nextId EXCEPT ![z] = nextId[z] + 1]
      /\ ~Created(e)
  BY <1>1 DEF Generate, Session
<1>3. z \in Zids /\ nextId \in [Zids -> Nat] /\ nextId[z] \in Nat \ {0}
  BY <1>1 DEF Session, Zids, IInv, TypeOK, IdInv
<1>4. /\ nextId'[z] = nextId[z] + 1 /\ \A y \in Zids : y # z => nextId'[y] = nextId[y]
  BY <1>2, <1>3
<1>5. entity'[e] = new /\ \A x \in Endpoints : x # e => entity'[x] = entity[x]
  BY <1>2 DEF IInv, EntityInv
<1>6. new.id = nextId[z]
  BY <1>1
<1>7. new # None
  <2>1. topic \in UNION {TopicsOf(x) : x \in Endpoints}
    OBVIOUS
  <2>2. new \in [id : Nat, topic : UNION {TopicsOf(x) : x \in Endpoints}]
    BY <1>1, <1>3, <2>1
  <2> QED
    BY <2>2, NoneAssumption
<1>8. Present' = Present \cup {e} /\ e \notin Present
  BY <1>2, <1>5, <1>7 DEF Present, Created
<1>9. Cardinality(Present') = Cardinality(Present) + 1 /\ Cardinality(Present) \in Nat
  <2>1. IsFiniteSet(Present)
    <3>1. Present \in SUBSET Endpoints
      BY DEF Present
    <3> QED
      BY <3>1, HeadAssumption, FS_Subset
  <2> QED
    BY <1>8, <2>1, FS_AddElement, FS_CardinalityType
<1>10. ASSUME NEW x \in Endpoints, Created(x)'
       PROVE  entity'[x].id \in Nat \ {0} /\ entity'[x].id < nextId'[Session(x)]
  <2>1. CASE x = e
    <3>1. entity'[x].id = nextId[z] /\ nextId'[Session(x)] = nextId[z] + 1
      BY <1>1, <1>4, <1>5, <1>6, <2>1
    <3> QED
      BY <1>3, <3>1
  <2>2. CASE x # e
    <3>1. entity'[x] = entity[x] /\ Created(x)
      BY <1>5, <1>10, <2>2 DEF Created
    <3>2. entity[x].id \in Nat \ {0} /\ entity[x].id < nextId[Session(x)]
      BY <3>1 DEF IdInv
    <3>3. Session(x) \in Zids
      BY DEF Session, Zids
    <3>4. nextId'[Session(x)] = nextId[Session(x)] \/ nextId'[Session(x)] = nextId[Session(x)] + 1
      BY <1>4, <3>3
    <3>5. nextId[Session(x)] \in Nat
      BY <1>3, <3>3
    <3> QED
      BY <3>1, <3>2, <3>4, <3>5
  <2> QED
    BY <2>1, <2>2
<1>11. ASSUME NEW x \in Endpoints, NEW y \in Endpoints, Created(x)', Created(y)',
              Session(x) = Session(y), entity'[x].id = entity'[y].id
       PROVE  x = y
  <2>1. ASSUME NEW u \in Endpoints, u # e, Created(u)', Session(u) = z PROVE entity'[u].id # nextId[z]
    <3>1. entity'[u] = entity[u] /\ Created(u)
      BY <1>5, <2>1 DEF Created
    <3>2. entity[u].id \in Nat /\ entity[u].id < nextId[z]
      BY <2>1, <3>1 DEF IdInv
    <3> QED
      BY <1>3, <3>1, <3>2
  <2>2. entity'[e].id = nextId[z]
    BY <1>5, <1>6
  <2>3. CASE x = e
    BY <1>1, <1>11, <2>1, <2>2, <2>3
  <2>4. CASE y = e
    BY <1>1, <1>11, <2>1, <2>2, <2>4
  <2>5. CASE x # e /\ y # e
    <3>1. entity'[x] = entity[x] /\ Created(x) /\ entity'[y] = entity[y] /\ Created(y)
      BY <1>5, <1>11, <2>5 DEF Created
    <3> QED
      BY <1>11, <3>1 DEF IdInv
  <2> QED
    BY <2>3, <2>4, <2>5
<1>12. ASSUME NEW y \in Zids
       PROVE  nextId'[y] \in Nat \ {0} /\ nextId'[y] <= 1 + Cardinality(Present')
  <2>1. nextId[y] \in Nat \ {0} /\ nextId[y] <= 1 + Cardinality(Present)
    BY DEF IdInv
  <2>2. nextId'[y] = nextId[y] \/ nextId'[y] = nextId[y] + 1
    BY <1>4
  <2> QED
    BY <1>9, <2>1, <2>2
<1> QED
  BY <1>10, <1>11, <1>12 DEF IdInv, Created, Session, Present

\* Only creation gives ids.
LEMMA StepIds == IInv /\ IdInv /\ [Next]_vars => IdInv'
<1> SUFFICES ASSUME IInv, IdInv, [Next]_vars PROVE IdInv'
  OBVIOUS
<1>1. CASE UNCHANGED <<entity, nextId>>
  BY <1>1 DEF IdInv, Created, Present, Session
<1>2. ASSUME NEW e \in Endpoints, NEW topic \in Topics[e], Create(e, topic) \/ CreateService(e, topic)
      PROVE  IdInv'
  BY <1>2, GenerateIds, DisjointAssumption DEF Create, CreateService, TopicsOf
<1>3. ASSUME NEW t \in Threads, \/ \E p \in Publishers : Serialize(t, p)
                                \/ TakeNumber(t)
                                \/ \E reached \in SUBSET Subscriptions : Put(t, reached)
      PROVE  UNCHANGED <<entity, nextId>>
  BY <1>3 DEF Serialize, TakeNumber, Put
<1>4. ASSUME NEW s \in Subscriptions, ReadTask(s) \/ Taker(s) \/ \E count \in 1..CountMax : TakeSequence(s, count)
      PROVE  UNCHANGED <<entity, nextId>>
  BY <1>4 DEF ReadTask, Handler, Taker, TakeNothing, RmwTake, TakeNext, TakeSequence
<1>5. CASE UNCHANGED vars
  BY <1>1, <1>5 DEF vars
<1> QED
  BY <1>1, <1>2, <1>3, <1>4, <1>5 DEF Next

\* No two entities have one liveliness token, and none has that of a node, for any names
\* however long (zenoh_pico_liveliness.c:149).
THEOREM TokensTellEntities == Spec => []TokensAreDistinct
<1>1. ASSUME IInv, IdInv PROVE TokensAreDistinct
  <2> DEFINE tokens == {TokenOf(e) : e \in Present}
             tokenOf == [e \in Present |-> TokenOf(e)]
  <2>1. IsFiniteSet(Present) /\ Present \in SUBSET Endpoints /\ Cardinality(Present) <= Cardinality(Endpoints)
        /\ Cardinality(Present) \in Nat /\ Cardinality(Endpoints) \in Nat
    <3>1. Present \in SUBSET Endpoints
      BY DEF Present
    <3> QED
      BY <3>1, HeadAssumption, FS_Subset, FS_CardinalityType
  <2>2. ASSUME NEW e \in Present
        PROVE  /\ entity[e].id \in 1..Cardinality(Endpoints)
               /\ TokenOf(e)[3].text = Session(e) /\ TokenOf(e)[5].text = <<entity[e].id>>
    <3>1. PICK id : id = entity[e].id
      OBVIOUS
    <3>2. e \in Endpoints /\ Session(e) \in Zids /\ id \in Nat \ {0} /\ id < nextId[Session(e)]
      BY <1>1, <3>1 DEF Present, IdInv, Session, Zids
    <3>3. nextId[Session(e)] \in Nat /\ nextId[Session(e)] <= 1 + Cardinality(Present)
      BY <1>1, <3>2 DEF IdInv
    <3>4. id \in 1..Cardinality(Endpoints) /\ id \in 0..Cardinality(Endpoints)
      BY <2>1, <3>2, <3>3
    <3>5. EntityKind(e) \in {"NN", "MP", "MS", "SS", "SC"}
      BY <3>2 DEF EntityKind, Endpoints
    <3>6. PICK T, rest : rest \in Seq(T) /\ TokenOf(e) = Fitting(NodeFields(Node[e], id, EntityKind(e)) \o rest)
      <4>1. PICK a, b, c, d : TopicFields(entity[e].topic) = <<a, b, c, d>>
        BY DEF TopicFields
      <4>2. TopicFields(entity[e].topic) \in Seq({a, b, c, d})
        BY <4>1
      <4>3. TokenOf(e) = Fitting(NodeFields(Node[e], id, EntityKind(e)) \o TopicFields(entity[e].topic))
        BY <3>1 DEF TokenOf, Token
      <4> QED
        BY <4>2, <4>3
    <3>7. PICK t, kind : t = TokenOf(e) /\ kind = EntityKind(e)
      OBVIOUS
    <3>8. t[3] = Node[e].zid /\ t[5] = Number(id)
      <4>1. t = Fitting(NodeFields(Node[e], id, kind) \o rest)
        BY <3>6, <3>7
      <4>2. kind \in Kinds
        BY <3>5, <3>7 DEF Kinds
      <4> QED
        BY <3>2, <3>4, <3>6, <4>1, <4>2, TokenSays DEF Ids
    <3>9. Number(id).text = <<id>> /\ Node[e].zid.text = Session(e)
      <4>1. id <= IntMax
        BY <2>1, <3>4, IntAssumption, WidthAssumption
      <4>2. AsInt(id) = id
        BY <4>1 DEF AsInt
      <4> QED
        BY <4>2 DEF Number, Text, Session
    <3> QED
      BY <3>1, <3>4, <3>7, <3>8, <3>9
  <2>3. ASSUME NEW e \in Present, NEW f \in Present, TokenOf(e) = TokenOf(f) PROVE e = f
    <3>1. Session(e) = Session(f) /\ <<entity[e].id>> = <<entity[f].id>>
      BY <2>2, <2>3
    <3>2. entity[e].id = entity[f].id
      <4>1. <<entity[e].id>>[1] = <<entity[f].id>>[1]
        BY <3>1
      <4> QED
        BY <4>1
    <3> QED
      BY <1>1, <3>1, <3>2 DEF IdInv, Present
  <2>4. Cardinality(tokens) = Cardinality(Present)
    <3> HIDE DEF Present
    <3>1. tokenOf \in Bijection(Present, tokens)
      BY <2>3 DEF Bijection, Injection, Surjection, IsInjective
    <3>2. ExistsBijection(Present, tokens)
      BY <3>1 DEF ExistsBijection
    <3> QED
      BY <2>1, <3>2, FS_Bijection
  <2>5. ASSUME NEW e \in Present PROVE NodeToken(Node[e], 0) \notin tokens
    <3>1. SUFFICES ASSUME NEW f \in Present, NodeToken(Node[e], 0) = TokenOf(f) PROVE FALSE
      OBVIOUS
    <3>2. e \in Endpoints /\ 0 \in Ids
      BY <2>1 DEF Present, Ids
    <3>3. PICK t : t = NodeToken(Node[e], 0)
      OBVIOUS
    <3>4. t = Fitting(NodeFields(Node[e], 0, "NN") \o <<>>)
      <4>1. PICK a : a = NodeFields(Node[e], 0, "NN")
        OBVIOUS
      <4>2. PICK x1, x2, x3, x4, x5, x6, x7, x8, x9 : a = <<x1, x2, x3, x4, x5, x6, x7, x8, x9>>
        BY <4>1 DEF NodeFields
      <4>3. a \in Seq({x1, x2, x3, x4, x5, x6, x7, x8, x9})
        BY <4>2
      <4>4. a \o <<>> = a
        BY <4>3, ConcatEmptySeq
      <4> QED
        BY <3>3, <4>1, <4>4 DEF NodeToken
    <3>5. t[5] = Number(0)
      <4>1. PICK T, rest : rest \in Seq(T) /\ rest = <<>>
        <5>1. <<>> \in Seq({})
          OBVIOUS
        <5> QED
          BY <5>1
      <4>2. PICK kind, id : kind = "NN" /\ kind \in Kinds /\ id = 0 /\ id \in Ids
        BY <3>2 DEF Kinds
      <4>3. t = Fitting(NodeFields(Node[e], id, kind) \o rest)
        BY <3>4, <4>1, <4>2
      <4>4. e \in Endpoints /\ id \in Ids /\ kind \in Kinds /\ rest \in Seq(T)
        BY <3>2, <4>1, <4>2
      <4>5. t[5] = Number(id)
        BY <4>3, <4>4, TokenSays
      <4> QED
        BY <4>2, <4>5
    <3>6. <<entity[f].id>> = <<0>> /\ entity[f].id \in 1..Cardinality(Endpoints)
      <4>1. Number(0).text = <<0>>
        <5>1. AsInt(0) = 0
          BY WidthAssumption DEF AsInt
        <5> QED
          BY <5>1 DEF Number, Text
      <4> QED
        BY <2>2, <3>1, <3>3, <3>5, <4>1
    <3>7. <<entity[f].id>>[1] = <<0>>[1]
      BY <3>6
    <3> QED
      BY <2>1, <3>6, <3>7
  <2> QED
    BY <2>4, <2>5 DEF TokensAreDistinct, Present
<1> QED
  BY <1>1, InitInv, InitIds, StepInv, StepIds, PTL DEF Spec

=============================================================================
