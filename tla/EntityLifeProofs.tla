-------------------------- MODULE EntityLifeProofs ---------------------------
(***************************************************************************)
(* Proofs about EntityLife, for any nodes, any finite number of endpoints  *)
(* of any kinds and any bounds.                                            *)
(***************************************************************************)
EXTENDS EntityLife, FiniteSetTheorems, TLAPS

\* The references to a node's information that endpoints hold: all but that of the data.
Extra(m) == m.info - (IF m.ref > 0 THEN 1 ELSE 0)

-----------------------------------------------------------------------------
(* Counted objects.                                                        *)

\* zenoh_pico_destroy_node_info gives one reference back, or was passed what is freed.
LEMMA ReleaseInfoCounts ==
    ASSUME NEW m \in NodeMemory
    PROVE  /\ ReleaseInfo(m) \in NodeMemory
           /\ ReleaseInfo(m).ok =>
                  /\ m.ok /\ m.info > 0
                  /\ ReleaseInfo(m).ref = m.ref /\ ReleaseInfo(m).announced = m.announced
                  /\ Extra(ReleaseInfo(m)) = Extra(m) - 1
           /\ (m.ok /\ m.info > 0) => ReleaseInfo(m).ok
           /\ ReleaseInfo(m).ref = m.ref
<1>1. CASE m.info = 0
  <2>1. ReleaseInfo(m) = [m EXCEPT !.ok = FALSE]
    BY <1>1 DEF ReleaseInfo
  <2>2. ReleaseInfo(m) \in NodeMemory /\ ReleaseInfo(m).ok = FALSE /\ ReleaseInfo(m).ref = m.ref
    BY <2>1 DEF NodeMemory
  <2> QED
    BY <1>1, <2>2 DEF NodeMemory
<1>2. CASE m.info > 0
  <2>1. ReleaseInfo(m) = [m EXCEPT !.info = @ - 1] /\ m.info - 1 \in Nat
    BY <1>2 DEF ReleaseInfo, NodeMemory
  <2> DEFINE k == ReleaseInfo(m)
  <2>2. k \in NodeMemory
    BY <2>1 DEF NodeMemory
  <2>3. k.ref = m.ref /\ k.info = m.info - 1 /\ k.announced = m.announced /\ k.ok = m.ok
    BY <2>1 DEF NodeMemory
  <2>4. m.ref \in Nat /\ m.info \in Nat
    BY DEF NodeMemory
  <2> HIDE DEF k
  <2>5. Extra(k) = Extra(m) - 1
    BY <2>3, <2>4 DEF Extra
  <2> QED
    BY <1>2, <2>2, <2>3, <2>5 DEF k
<1> QED
  BY <1>1, <1>2 DEF NodeMemory

\* zenoh_pico_destroy_node_data gives one reference back; the last one takes its share of the
\* node information and the token along.
LEMMA ReleaseNodeCounts ==
    ASSUME NEW m \in NodeMemory, m.announced <=> m.ref > 0
    PROVE  /\ ReleaseNode(m) \in NodeMemory
           /\ ReleaseNode(m).ok =>
                  /\ m.ok /\ m.ref > 0
                  /\ ReleaseNode(m).ref = m.ref - 1
                  /\ ReleaseNode(m).announced <=> ReleaseNode(m).ref > 0
                  /\ Extra(ReleaseNode(m)) = Extra(m)
           /\ (m.ok /\ m.ref > 0 /\ m.info > 0) => ReleaseNode(m).ok
<1>1. CASE m.ref = 0
  <2>1. ReleaseNode(m) = [m EXCEPT !.ok = FALSE]
    BY <1>1 DEF ReleaseNode
  <2>2. ReleaseNode(m) \in NodeMemory /\ ReleaseNode(m).ok = FALSE /\ ReleaseNode(m).ref = m.ref
    BY <2>1 DEF NodeMemory
  <2> QED
    BY <1>1, <2>2 DEF NodeMemory
<1>2. CASE m.ref > 1
  <2>1. ReleaseNode(m) = [m EXCEPT !.ref = @ - 1]
        /\ m.ref - 1 \in Nat /\ m.ref - 1 > 0 /\ m.ref \in Nat
    BY <1>2 DEF ReleaseNode, NodeMemory
  <2> DEFINE k == ReleaseNode(m)
  <2>2. k \in NodeMemory
    BY <2>1 DEF NodeMemory
  <2>3. k.ref = m.ref - 1 /\ k.info = m.info /\ k.announced = m.announced /\ k.ok = m.ok
    BY <2>1 DEF NodeMemory
  <2> HIDE DEF k
  <2>4. Extra(k) = Extra(m)
    <3>1. k.ref > 0 /\ m.ref > 0
      BY <1>2, <2>1, <2>3
    <3> QED
      BY <2>3, <3>1 DEF Extra
  <2>5. m.announced /\ k.announced /\ k.ref > 0 /\ m.ref > 0
    BY <1>2, <2>1, <2>3
  <2> QED
    BY <2>2, <2>3, <2>4, <2>5 DEF k
<1>3. CASE m.ref = 1
  <2> DEFINE k == [m EXCEPT !.ref = 0, !.announced = FALSE]
  <2>1. ReleaseNode(m) = ReleaseInfo(k)
    BY <1>3 DEF ReleaseNode
  <2>2. /\ k \in NodeMemory /\ k.ref = 0 /\ k.info = m.info /\ k.ok = m.ok
        /\ k.announced = FALSE
    BY DEF NodeMemory
  <2>3. Extra(k) = Extra(m) + 1
    BY <1>3, <2>2 DEF Extra, NodeMemory
  <2>4. Extra(m) \in Int /\ Extra(k) \in Int
    BY <2>2 DEF Extra, NodeMemory
  <2> HIDE DEF k
  <2> QED
    BY <1>3, <2>1, <2>2, <2>3, <2>4, ReleaseInfoCounts
<1> QED
  BY <1>1, <1>2, <1>3 DEF NodeMemory

\* RefClone of the node, for a publisher or a subscription.
LEMMA CloneNodeCounts ==
    ASSUME NEW m \in NodeMemory, m.announced <=> m.ref > 0, NEW kind \in Kinds
    PROVE  /\ CloneNode(m, kind) \in NodeMemory
           /\ CloneNode(m, kind).ok =>
                  /\ m.ok
                  /\ kind \in Counted => m.ref > 0
                  /\ CloneNode(m, kind).ref = m.ref + (IF kind \in Counted THEN 1 ELSE 0)
                  /\ CloneNode(m, kind).announced <=> CloneNode(m, kind).ref > 0
                  /\ CloneNode(m, kind).info = m.info
                  /\ Extra(CloneNode(m, kind)) = Extra(m)
           /\ (m.ok /\ m.ref > 0) => CloneNode(m, kind).ok
<1>1. CASE kind \notin Counted
  BY <1>1 DEF CloneNode, NodeMemory
<1>2. CASE kind \in Counted /\ m.ref = 0
  <2>1. CloneNode(m, kind) = [m EXCEPT !.ok = FALSE]
    BY <1>2 DEF CloneNode
  <2>2. CloneNode(m, kind) \in NodeMemory /\ CloneNode(m, kind).ok = FALSE /\ CloneNode(m, kind).ref = m.ref
    BY <2>1 DEF NodeMemory
  <2> QED
    BY <1>2, <2>2 DEF NodeMemory
<1>3. CASE kind \in Counted /\ m.ref > 0
  <2>1. CloneNode(m, kind) = [m EXCEPT !.ref = @ + 1] /\ m.ref \in Nat
    BY <1>3 DEF CloneNode, NodeMemory
  <2> DEFINE k == CloneNode(m, kind)
  <2>2. k \in NodeMemory
    BY <2>1 DEF NodeMemory
  <2>3. k.ref = m.ref + 1 /\ k.info = m.info /\ k.announced = m.announced /\ k.ok = m.ok
    BY <2>1 DEF NodeMemory
  <2> HIDE DEF k
  <2>4. Extra(k) = Extra(m)
    BY <1>3, <2>1, <2>3 DEF Extra
  <2> QED
    BY <1>3, <2>1, <2>2, <2>3, <2>4 DEF k
<1> QED
  BY <1>1, <1>2, <1>3 DEF NodeMemory

\* RefClone of the node information, for every endpoint.
LEMMA CloneInfoCounts ==
    ASSUME NEW m \in NodeMemory
    PROVE  /\ CloneInfo(m) \in NodeMemory
           /\ CloneInfo(m).ok =>
                  /\ m.ok /\ m.ref > 0 /\ m.info > 0
                  /\ CloneInfo(m).ref = m.ref /\ CloneInfo(m).announced = m.announced
                  /\ CloneInfo(m).info = m.info + 1
                  /\ Extra(CloneInfo(m)) = Extra(m) + 1
           /\ (m.ok /\ m.ref > 0 /\ m.info > 0) => CloneInfo(m).ok
<1>1. CASE m.ref = 0 \/ m.info = 0
  <2>1. CloneInfo(m) = [m EXCEPT !.ok = FALSE]
    BY <1>1 DEF CloneInfo
  <2>2. CloneInfo(m) \in NodeMemory /\ CloneInfo(m).ok = FALSE /\ CloneInfo(m).ref = m.ref
    BY <2>1 DEF NodeMemory
  <2> QED
    BY <1>1, <2>2 DEF NodeMemory
<1>2. CASE m.ref > 0 /\ m.info > 0
  <2>1. CloneInfo(m) = [m EXCEPT !.info = @ + 1] /\ m.info \in Nat
    BY <1>2 DEF CloneInfo, NodeMemory
  <2> DEFINE k == CloneInfo(m)
  <2>2. k \in NodeMemory
    BY <2>1 DEF NodeMemory
  <2>3. k.ref = m.ref /\ k.info = m.info + 1 /\ k.announced = m.announced /\ k.ok = m.ok
    BY <2>1 DEF NodeMemory
  <2> HIDE DEF k
  <2>4. Extra(k) = Extra(m) + 1
    BY <1>2, <2>1, <2>3 DEF Extra
  <2> QED
    BY <1>2, <2>1, <2>2, <2>3, <2>4 DEF k
<1> QED
  BY <1>1, <1>2 DEF NodeMemory

\* An endpoint takes one reference to the node information, and one to the node if it counts.
LEMMA TakeCounts ==
    ASSUME NEW m \in NodeMemory, m.announced <=> m.ref > 0, NEW kind \in Kinds
    PROVE  LET k == TakeReferences(m, kind) IN
           /\ k \in NodeMemory
           /\ k.ok => /\ m.ok /\ m.ref > 0
                      /\ k.ref = m.ref + (IF kind \in Counted THEN 1 ELSE 0)
                      /\ k.announced <=> k.ref > 0
                      /\ k.info = m.info + 1
                      /\ Extra(k) = Extra(m) + 1
           /\ (m.ok /\ m.ref > 0 /\ m.info > 0) => k.ok
<1> DEFINE c == CloneNode(m, kind)
<1>1. CloneNode(m, kind) \in NodeMemory /\ TakeReferences(m, kind) = CloneInfo(c)
  BY CloneNodeCounts DEF TakeReferences
<1>2. (m.ok /\ m.ref > 0) => c.ref > 0
  BY CloneNodeCounts DEF NodeMemory
<1>3. CASE CloneInfo(c).ok
  <2>1. /\ c.ok /\ c.ref > 0 /\ CloneInfo(c).ref = c.ref /\ CloneInfo(c).announced = c.announced
        /\ CloneInfo(c).info = c.info + 1 /\ Extra(CloneInfo(c)) = Extra(c) + 1
    BY <1>1, <1>3, CloneInfoCounts
  <2>2. /\ m.ok /\ c.ref = m.ref + (IF kind \in Counted THEN 1 ELSE 0)
        /\ (c.announced <=> c.ref > 0) /\ c.info = m.info /\ Extra(c) = Extra(m)
        /\ (kind \in Counted => m.ref > 0)
    BY <2>1, CloneNodeCounts
  <2>3. m.ref > 0
    BY <2>1, <2>2 DEF NodeMemory
  <2> QED
    BY <1>1, <2>1, <2>2, <2>3, CloneInfoCounts
<1>4. CASE ~CloneInfo(c).ok
  <2>1. ~(c.ok /\ c.ref > 0 /\ c.info > 0)
    BY <1>1, <1>4, CloneInfoCounts
  <2>2. (m.ok /\ m.ref > 0) => c.ok /\ c.info = m.info
    BY CloneNodeCounts
  <2> QED
    BY <1>1, <1>2, <1>4, <2>1, <2>2, CloneInfoCounts
<1> QED
  BY <1>3, <1>4

\* An endpoint gives one reference to each back.
LEMMA GiveCounts ==
    ASSUME NEW m \in NodeMemory, m.announced <=> m.ref > 0
    PROVE  LET k == GiveReferences(m) IN
           /\ k \in NodeMemory
           /\ k.ok => /\ m.ok /\ m.ref > 0
                      /\ k.ref = m.ref - 1
                      /\ k.announced <=> k.ref > 0
                      /\ Extra(k) = Extra(m) - 1
           /\ (m.ok /\ m.ref > 0 /\ Extra(m) > 0) => k.ok
<1> DEFINE r == ReleaseNode(m)
<1>1. r \in NodeMemory /\ GiveReferences(m) = ReleaseInfo(r)
  BY ReleaseNodeCounts DEF GiveReferences
<1>2. Extra(m) \in Int /\ Extra(r) \in Int
  BY <1>1 DEF Extra, NodeMemory
<1>3. CASE r.ok
  <2>1. /\ m.ok /\ m.ref > 0 /\ r.ref = m.ref - 1 /\ (r.announced <=> r.ref > 0)
        /\ Extra(r) = Extra(m)
    BY <1>3, ReleaseNodeCounts
  <2>2. Extra(m) > 0 => r.info > 0
    BY <1>1, <2>1 DEF Extra, NodeMemory
  <2> QED
    BY <1>1, <1>2, <1>3, <2>1, <2>2, ReleaseInfoCounts
<1>4. CASE ~r.ok
  <2>1. ~ReleaseInfo(r).ok
    BY <1>1, <1>4, ReleaseInfoCounts
  <2>2. (m.ok /\ m.ref > 0) => ~(m.info > 0)
    BY <1>4, ReleaseNodeCounts
  <2>3. Extra(m) > 0 => m.info > 0
    BY DEF Extra, NodeMemory
  <2> QED
    BY <1>1, <2>1, <2>2, <2>3, ReleaseInfoCounts
<1> QED
  BY <1>3, <1>4

-----------------------------------------------------------------------------
(* The invariant.                                                          *)

\* One node's counts, and its token.
NodeRefs(n) ==
    /\ mem[n].ref + surplus[n] = (IF n \in handle THEN 1 ELSE 0)
                                 + Cardinality(Holders(n)) + clones[n]
    /\ Extra(mem[n]) + doubled[n] = Cardinality(Members(n))
    /\ mem[n].announced <=> mem[n].ref > 0

\* The counts of all nodes, and that only slips put them out.
CountInv ==
    /\ Sound => \A n \in Nodes : NodeRefs(n)
    /\ slips = {} => \A n \in Nodes : surplus[n] = 0 /\ doubled[n] = 0 /\ clones[n] = 0

\* An endpoint that lives has a node.
OwnerInv == \A e \in Endpoints : Live(e) => owner[e] \in Nodes

\* Callbacks and tokens.
DeclaredInv ==
    /\ CallbacksHaveContext
    /\ \A e \in announced : life[e] = "open" /\ e \in declared
    /\ \A e \in Endpoints : life[e] \in {"declaring", "open"} => e \in declared

\* Only what lives and has a queue has messages; only subscriptions lose any.
QueueInv ==
    \A e \in Endpoints : /\ queue[e] > 0 => Live(e) /\ Kind[e] # "Publisher"
                         /\ e \in lost => Kind[e] = "Subscription"

\* Without a slip the callback that runs and the queries that are open have their endpoint.
RunningInv ==
    /\ running # NoOne =>
           Kind[running] # "Publisher" /\ (slips = {} => life[running] \in {"declaring", "open"})
    /\ \A e \in Endpoints : queries[e] > 0 =>
           Kind[e] = "Client" /\ (slips = {} => life[e] = "open")

DataInv == OwnerInv /\ DeclaredInv /\ QueueInv /\ RunningInv

IInv == TypeOK /\ CountInv /\ DataInv /\ UndefinedOnlyAfterSlip

\* The endpoints of a node are finitely many.
LEMMA MembersFinite ==
    ASSUME NEW n \in Nodes
    PROVE  /\ IsFiniteSet(Members(n)) /\ Cardinality(Members(n)) \in Nat
           /\ IsFiniteSet(Holders(n)) /\ Cardinality(Holders(n)) \in Nat
<1>1. Members(n) \subseteq Endpoints /\ Holders(n) \subseteq Endpoints
  BY DEF Members, Holders
<1> QED
  BY <1>1, EndpointAssumption, FS_Subset, FS_CardinalityType

\* Before anything is created all counts are zero.
LEMMA InitInv == Init => IInv
<1> SUFFICES ASSUME Init PROVE IInv
  OBVIOUS
<1> USE DEF Init
<1>1. TypeOK
  <2>1. [ref |-> 0, info |-> 0, announced |-> FALSE, ok |-> TRUE] \in NodeMemory
    BY DEF NodeMemory
  <2>2. mem \in [Nodes -> NodeMemory]
    BY <2>1
  <2>3. life \in [Endpoints -> Phases] /\ owner \in [Endpoints -> Nodes \cup {NoOne}]
    BY DEF Phases
  <2>4. failures \in 0..FailureMax
    BY BoundAssumption
  <2> QED
    BY <2>2, <2>3, <2>4 DEF TypeOK
<1>2. \A n \in Nodes : Members(n) = {} /\ Holders(n) = {}
  BY DEF Members, Holders, Live
<1>3. Cardinality({}) = 0
  BY FS_EmptySet
<1>4. \A n \in Nodes : NodeRefs(n)
  <2> SUFFICES ASSUME NEW n \in Nodes PROVE NodeRefs(n)
    OBVIOUS
  <2>1. mem[n].ref = 0 /\ mem[n].info = 0 /\ ~mem[n].announced
    OBVIOUS
  <2>2. surplus[n] = 0 /\ doubled[n] = 0 /\ clones[n] = 0 /\ n \notin handle
    OBVIOUS
  <2>3. Extra(mem[n]) = 0
    BY <2>1 DEF Extra
  <2>4. Cardinality(Members(n)) = 0 /\ Cardinality(Holders(n)) = 0
    BY <1>2, <1>3
  <2>5. ~(mem[n].ref > 0)
    BY <2>1
  <2>6. mem[n].ref + surplus[n] = (IF n \in handle THEN 1 ELSE 0)
                                 + Cardinality(Holders(n)) + clones[n]
    BY <2>1, <2>2, <2>4
  <2>7. Extra(mem[n]) + doubled[n] = Cardinality(Members(n))
    BY <2>2, <2>3, <2>4
  <2> HIDE DEF Init
  <2> QED
    BY <2>1, <2>5, <2>6, <2>7 DEF NodeRefs
<1>5. CountInv
  BY <1>4 DEF CountInv
<1>6. \A e \in Endpoints : ~Live(e) /\ queue[e] = 0 /\ queries[e] = 0
  BY DEF Live
<1>7. OwnerInv /\ DeclaredInv
  BY <1>6 DEF OwnerInv, DeclaredInv, CallbacksHaveContext
<1>8. QueueInv /\ RunningInv
  BY <1>6 DEF QueueInv, RunningInv
<1>9. UndefinedOnlyAfterSlip
  BY DEF UndefinedOnlyAfterSlip, Sound
<1> QED
  BY <1>1, <1>5, <1>7, <1>8, <1>9 DEF IInv, DataInv

\* What no step but those of one node changes.
LEMMA OtherNodes ==
    ASSUME \A k \in Nodes : NodeRefs(k), NEW n \in Nodes, NodeRefs(n)',
           \A k \in Nodes \ {n} : /\ mem'[k] = mem[k] /\ surplus'[k] = surplus[k]
                                  /\ doubled'[k] = doubled[k] /\ clones'[k] = clones[k]
                                  /\ k \in handle' <=> k \in handle
                                  /\ Members(k)' = Members(k) /\ Holders(k)' = Holders(k)
    PROVE  \A k \in Nodes : NodeRefs(k)'
<1> SUFFICES ASSUME NEW k \in Nodes, k # n PROVE NodeRefs(k)'
  OBVIOUS
<1> QED
  BY DEF NodeRefs

\* Steps that leave the nodes alone and let no endpoint live or die.
LEMMA Quiet ==
    ASSUME IInv, Sound, UNCHANGED <<nodeVars, owner>>, slips \subseteq slips',
           \A e \in Endpoints : Live(e)' <=> Live(e)
    PROVE  CountInv'
<1>1. \A n \in Nodes : Members(n)' = Members(n) /\ Holders(n)' = Holders(n)
  BY DEF Members, Holders
<1>2. \A n \in Nodes : NodeRefs(n)'
  <2> SUFFICES ASSUME NEW n \in Nodes PROVE NodeRefs(n)'
    OBVIOUS
  <2>1. NodeRefs(n)
    BY DEF IInv, CountInv
  <2> QED
    BY <1>1, <2>1 DEF NodeRefs, nodeVars
<1>3. slips' = {} => slips = {}
  OBVIOUS
<1> QED
  BY <1>2, <1>3 DEF IInv, CountInv, nodeVars

\* Without a slip the objects a node's handle stands for are there.
LEMMA HandleIsThere ==
    ASSUME IInv, Sound, slips = {}, NEW n \in handle
    PROVE  mem[n].ok /\ mem[n].ref > 0 /\ mem[n].info > 0
<1>1. n \in Nodes /\ mem[n] \in NodeMemory /\ mem[n].ok
  BY DEF IInv, TypeOK, Sound
<1>2. NodeRefs(n) /\ surplus[n] = 0 /\ doubled[n] = 0 /\ clones[n] = 0
  BY <1>1 DEF IInv, CountInv
<1>3. mem[n].ref > 0
  BY <1>1, <1>2, MembersFinite DEF NodeRefs, NodeMemory
<1>4. Extra(mem[n]) >= 0
  BY <1>1, <1>2, MembersFinite DEF NodeRefs, NodeMemory, Extra
<1> QED
  BY <1>1, <1>3, <1>4 DEF Extra, NodeMemory

\* Failures and handles touch nothing that belongs to an endpoint.
LEMMA DataFrame ==
    ASSUME DataInv, UNCHANGED <<dataVars, messageVars, running>>, slips \subseteq slips'
    PROVE  DataInv'
BY DEF DataInv, OwnerInv, DeclaredInv, CallbacksHaveContext, QueueInv, RunningInv, Live,
       dataVars, messageVars

\* One node's memory is written.
LEMMA OneMemory ==
    ASSUME IInv, Sound, NEW n \in Nodes, NEW m \in NodeMemory, mem' = [mem EXCEPT ![n] = m]
    PROVE  /\ mem' \in [Nodes -> NodeMemory]
           /\ mem'[n] = m
           /\ \A k \in Nodes \ {n} : mem'[k] = mem[k]
           /\ Sound' <=> ~broken' /\ m.ok
BY DEF IInv, TypeOK, Sound

\* A creation that fails leaves the endpoints alone; what it does to the counts of its node
\* is remembered.
LEMMA Failure ==
    ASSUME IInv, Sound, NEW n \in handle, NEW m \in NodeMemory,
           NEW c \in Nat, NEW s \in Nat, NEW d \in Nat,
           mem' = [mem EXCEPT ![n] = m],
           clones' = [clones EXCEPT ![n] = @ + c],
           surplus' = [surplus EXCEPT ![n] = @ + s],
           doubled' = [doubled EXCEPT ![n] = @ + d],
           UNCHANGED <<handle, dataVars, messageVars, running>>,
           failures < FailureMax, failures' = failures + 1,
           slips \subseteq slips', slips' \subseteq Slips, broken' \in BOOLEAN,
           (~broken' /\ m.ok) => /\ m.ref + s = mem[n].ref + c
                                 /\ Extra(m) + d = Extra(mem[n])
                                 /\ m.announced <=> m.ref > 0,
           slips' = {} => c = 0 /\ s = 0 /\ d = 0 /\ ~broken' /\ m.ok
    PROVE  IInv'
<1>1. n \in Nodes /\ mem[n] \in NodeMemory
  BY DEF IInv, TypeOK
<1>2. /\ mem' \in [Nodes -> NodeMemory] /\ mem'[n] = m
      /\ (\A k \in Nodes \ {n} : mem'[k] = mem[k])
      /\ (Sound' <=> ~broken' /\ m.ok)
  BY <1>1, OneMemory
<1>3. /\ clones' \in [Nodes -> Nat] /\ surplus' \in [Nodes -> Nat] /\ doubled' \in [Nodes -> Nat]
      /\ clones'[n] = clones[n] + c /\ surplus'[n] = surplus[n] + s /\ doubled'[n] = doubled[n] + d
      /\ clones[n] \in Nat /\ surplus[n] \in Nat /\ doubled[n] \in Nat
      /\ \A k \in Nodes \ {n} : /\ clones'[k] = clones[k] /\ surplus'[k] = surplus[k]
                                /\ doubled'[k] = doubled[k]
  BY <1>1 DEF IInv, TypeOK
<1>4. TypeOK'
  <2>1. failures' \in 0..FailureMax
    BY BoundAssumption DEF IInv, TypeOK
  <2> QED
    BY <1>2, <1>3, <2>1 DEF IInv, TypeOK, dataVars, messageVars
<1>5. \A k \in Nodes : Members(k)' = Members(k) /\ Holders(k)' = Holders(k)
  BY DEF Members, Holders, Live, dataVars
<1>6. ASSUME Sound' PROVE \A k \in Nodes : NodeRefs(k)'
  <2>1. /\ m.ref + s = mem[n].ref + c /\ Extra(m) + d = Extra(mem[n])
        /\ (m.announced <=> m.ref > 0)
    BY <1>2, <1>6
  <2>2. NodeRefs(n) /\ \A k \in Nodes : NodeRefs(k)
    BY <1>1 DEF IInv, CountInv
  <2>3. mem[n].ref \in Nat /\ m.ref \in Nat /\ Extra(m) \in Int /\ Extra(mem[n]) \in Int
    BY <1>1 DEF Extra, NodeMemory
  <2>4. NodeRefs(n)'
    <3>1. m.ref + surplus'[n] = (IF n \in handle THEN 1 ELSE 0) + Cardinality(Holders(n)) + clones'[n]
      <4> DEFINE h == IF n \in handle THEN 1 ELSE 0
      <4>1. mem[n].ref + surplus[n] = h + Cardinality(Holders(n)) + clones[n]
        BY <2>2 DEF NodeRefs
      <4>2. h \in Nat /\ Cardinality(Holders(n)) \in Nat
        BY <1>1, MembersFinite
      <4> HIDE DEF h
      <4>3. m.ref + surplus'[n] = h + Cardinality(Holders(n)) + clones'[n]
        BY <1>3, <2>1, <2>3, <4>1, <4>2
      <4> QED
        BY <4>3 DEF h
    <3>2. Extra(m) + doubled'[n] = Cardinality(Members(n))
      BY <1>1, <1>3, <2>1, <2>2, <2>3, MembersFinite DEF NodeRefs
    <3> QED
      BY <1>1, <1>2, <1>5, <2>1, <3>1, <3>2 DEF NodeRefs
  <2> QED
    BY <1>1, <1>2, <1>3, <1>5, <2>2, <2>4, OtherNodes
<1>7. ASSUME slips' = {} PROVE \A k \in Nodes : surplus'[k] = 0 /\ doubled'[k] = 0 /\ clones'[k] = 0
  <2>1. \A k \in Nodes : surplus[k] = 0 /\ doubled[k] = 0 /\ clones[k] = 0
    BY <1>7 DEF IInv, CountInv
  <2> QED
    BY <1>1, <1>3, <1>7, <2>1
<1>8. CountInv'
  BY <1>6, <1>7 DEF CountInv
<1>9. DataInv'
  BY DataFrame DEF IInv
<1>10. UndefinedOnlyAfterSlip'
  BY <1>2 DEF UndefinedOnlyAfterSlip
<1> QED
  BY <1>4, <1>8, <1>9, <1>10 DEF IInv

-----------------------------------------------------------------------------
(* The steps that fail.                                                    *)

\* Without a slip a node that the application has can be counted up and down again.
LEMMA GiveWhatWasTaken ==
    ASSUME IInv, Sound, NEW n \in handle, NEW e \in Endpoints
    PROVE  LET t == TakeReferences(mem[n], Kind[e]) IN
           /\ mem[n] \in NodeMemory /\ (mem[n].announced <=> mem[n].ref > 0)
           /\ t \in NodeMemory
           /\ t.ok => /\ t.ref = mem[n].ref + (IF Kind[e] \in Counted THEN 1 ELSE 0)
                      /\ t.announced <=> t.ref > 0
                      /\ t.info > 0
                      /\ Extra(t) = Extra(mem[n]) + 1
                      /\ t.ref > 0
           /\ slips = {} => t.ok /\ Extra(t) > 0
<1>1. n \in Nodes /\ mem[n] \in NodeMemory /\ Kind[e] \in Kinds
  BY EndpointAssumption DEF IInv, TypeOK
<1>2. mem[n].announced <=> mem[n].ref > 0
  BY <1>1 DEF IInv, CountInv, NodeRefs
<1> DEFINE t == TakeReferences(mem[n], Kind[e])
<1>3. /\ t \in NodeMemory
      /\ t.ok => /\ mem[n].ok /\ mem[n].ref > 0
                 /\ t.ref = mem[n].ref + (IF Kind[e] \in Counted THEN 1 ELSE 0)
                 /\ t.announced <=> t.ref > 0
                 /\ t.info = mem[n].info + 1
                 /\ Extra(t) = Extra(mem[n]) + 1
      /\ (mem[n].ok /\ mem[n].ref > 0 /\ mem[n].info > 0) => t.ok
  BY <1>1, <1>2, TakeCounts
<1> HIDE DEF t
<1>4. t.ok => t.info > 0 /\ t.ref > 0
  BY <1>1, <1>3 DEF NodeMemory
<1>5. ASSUME slips = {} PROVE t.ok /\ Extra(t) > 0
  <2>1. mem[n].ok /\ mem[n].ref > 0 /\ mem[n].info > 0
    BY <1>5, HandleIsThere
  <2>2. Extra(mem[n]) >= 0 /\ Extra(mem[n]) \in Int
    BY <1>1, <2>1 DEF Extra, NodeMemory
  <2> QED
    BY <1>3, <2>1, <2>2
<1> QED
  BY <1>1, <1>2, <1>3, <1>4, <1>5 DEF t

\* generate_*_data fails without an entity.
LEMMA EarlyFailures ==
    ASSUME IInv, Sound, NEW e \in Endpoints, NEW n \in Nodes, NEW garbage \in BOOLEAN,
           GenerateFailsEarly(e, n, garbage) \/ ServiceGenerateFailsEarly(e, n, garbage)
    PROVE  IInv'
<1> DEFINE t == TakeReferences(mem[n], Kind[e])
           m == ReleaseInfo(t)
           c == IF Kind[e] \in Counted THEN 1 ELSE 0
<1>1. n \in handle /\ mem' = [mem EXCEPT ![n] = m]
  BY DEF GenerateFailsEarly, ServiceGenerateFailsEarly
<1>2. /\ mem[n] \in NodeMemory
      /\ t \in NodeMemory
      /\ t.ok => /\ t.ref = mem[n].ref + c
                 /\ t.announced <=> t.ref > 0
                 /\ t.info > 0
                 /\ Extra(t) = Extra(mem[n]) + 1
      /\ slips = {} => t.ok
  BY <1>1, GiveWhatWasTaken
<1>3. /\ m \in NodeMemory
      /\ m.ok => t.ok /\ m.ref = t.ref /\ m.announced = t.announced /\ Extra(m) = Extra(t) - 1
      /\ (t.ok /\ t.info > 0) => m.ok
  BY <1>2, ReleaseInfoCounts
<1>4. /\ clones \in [Nodes -> Nat] /\ surplus \in [Nodes -> Nat] /\ doubled \in [Nodes -> Nat]
      /\ slips \subseteq Slips
  BY DEF IInv, TypeOK
<1>5. /\ clones' = [clones EXCEPT ![n] = @ + c]
      /\ surplus' = [surplus EXCEPT ![n] = @ + 0]
      /\ doubled' = [doubled EXCEPT ![n] = @ + 0]
  <2>1. clones[n] + 0 = clones[n] /\ surplus[n] + 0 = surplus[n] /\ doubled[n] + 0 = doubled[n]
    BY <1>4
  <2>2. surplus' = surplus /\ doubled' = doubled
    BY DEF GenerateFailsEarly, ServiceGenerateFailsEarly
  <2>3. clones' = [clones EXCEPT ![n] = @ + c]
    BY <1>4, <2>1 DEF GenerateFailsEarly, ServiceGenerateFailsEarly, Counted, Uncounted
  <2> QED
    BY <1>4, <2>1, <2>2, <2>3
<1>6. /\ UNCHANGED <<handle, dataVars, messageVars, running>>
      /\ failures < FailureMax /\ failures' = failures + 1
      /\ slips \subseteq slips' /\ slips' \subseteq Slips /\ broken' \in BOOLEAN
      /\ slips' = {} => slips = {} /\ ~broken' /\ Kind[e] \notin Counted
  <2>1. CASE GenerateFailsEarly(e, n, garbage)
    BY <1>4, <2>1 DEF GenerateFailsEarly, Slips
  <2>2. CASE ServiceGenerateFailsEarly(e, n, garbage)
    <3>1. Kind[e] \notin Counted
      BY <2>2 DEF ServiceGenerateFailsEarly, Counted, Uncounted
    <3>2. CASE garbage
      BY <1>4, <2>2, <3>1, <3>2 DEF ServiceGenerateFailsEarly, Slips
    <3>3. CASE ~garbage
      BY <1>4, <2>2, <3>1, <3>3 DEF ServiceGenerateFailsEarly
    <3> QED
      BY <3>2, <3>3
  <2> QED
    BY <2>1, <2>2
<1>7. m.ok => /\ m.ref + 0 = mem[n].ref + c
              /\ Extra(m) + 0 = Extra(mem[n])
              /\ m.announced <=> m.ref > 0
  <2>1. m.ref \in Nat /\ mem[n].ref \in Nat /\ Extra(mem[n]) \in Int
    BY <1>2, <1>3 DEF Extra, NodeMemory
  <2> HIDE DEF t, m, c
  <2> QED
    BY <1>2, <1>3, <2>1
<1>8. slips' = {} => c = 0 /\ ~broken' /\ m.ok
  BY <1>2, <1>3, <1>6
<1>9. c \in Nat
  OBVIOUS
<1> HIDE DEF t, m, c
<1> QED
  BY <1>1, <1>3, <1>5, <1>6, <1>7, <1>8, <1>9, Failure

\* generate_*_data fails with an entity.
LEMMA LateFailure ==
    ASSUME IInv, Sound, NEW e \in Endpoints, NEW n \in Nodes, NEW garbage \in BOOLEAN,
           GenerateFailsLate(e, n, garbage)
    PROVE  IInv'
<1> DEFINE t == TakeReferences(mem[n], Kind[e])
           i == ReleaseInfo(t)
           m == ReleaseInfo(i)
           c == IF Kind[e] \in Counted THEN 1 ELSE 0
<1>1. n \in handle /\ mem' = [mem EXCEPT ![n] = m]
  BY DEF GenerateFailsLate
<1>2. /\ mem[n] \in NodeMemory
      /\ t \in NodeMemory
      /\ t.ok => /\ t.ref = mem[n].ref + c
                 /\ t.announced <=> t.ref > 0
                 /\ Extra(t) = Extra(mem[n]) + 1
  BY <1>1, GiveWhatWasTaken
<1>3. /\ i \in NodeMemory
      /\ i.ok => t.ok /\ i.ref = t.ref /\ i.announced = t.announced /\ Extra(i) = Extra(t) - 1
  BY <1>2, ReleaseInfoCounts
<1>4. /\ m \in NodeMemory
      /\ m.ok => i.ok /\ m.ref = i.ref /\ m.announced = i.announced /\ Extra(m) = Extra(i) - 1
  BY <1>3, ReleaseInfoCounts
<1>5. /\ clones \in [Nodes -> Nat] /\ surplus \in [Nodes -> Nat] /\ doubled \in [Nodes -> Nat]
      /\ slips \subseteq Slips
  BY DEF IInv, TypeOK
<1>6. /\ clones' = [clones EXCEPT ![n] = @ + c]
      /\ surplus' = [surplus EXCEPT ![n] = @ + 0]
      /\ doubled' = [doubled EXCEPT ![n] = @ + 1]
  <2>1. clones[n] + 0 = clones[n] /\ surplus[n] + 0 = surplus[n]
    BY <1>5
  <2>2. surplus' = surplus /\ doubled' = [doubled EXCEPT ![n] = @ + 1]
    BY DEF GenerateFailsLate
  <2>3. clones' = [clones EXCEPT ![n] = @ + c]
    BY <1>5, <2>1 DEF GenerateFailsLate
  <2> QED
    BY <1>5, <2>1, <2>2, <2>3
<1>7. /\ UNCHANGED <<handle, dataVars, messageVars, running>>
      /\ failures < FailureMax /\ failures' = failures + 1
      /\ slips \subseteq slips' /\ slips' \subseteq Slips /\ broken' \in BOOLEAN
      /\ slips' # {}
  BY <1>5 DEF GenerateFailsLate, Slips
<1>8. m.ok => /\ m.ref + 0 = mem[n].ref + c
              /\ Extra(m) + 1 = Extra(mem[n])
              /\ m.announced <=> m.ref > 0
  <2>1. m.ref \in Nat /\ mem[n].ref \in Nat /\ Extra(mem[n]) \in Int
    BY <1>2, <1>4 DEF Extra, NodeMemory
  <2> HIDE DEF t, i, m, c
  <2> QED
    BY <1>2, <1>3, <1>4, <2>1
<1>9. c \in Nat
  OBVIOUS
<1> HIDE DEF t, i, m, c
<1> QED
  BY <1>1, <1>4, <1>6, <1>7, <1>8, <1>9, Failure

\* The declaration or the rmw handle fails: what was generated is destroyed.
LEMMA DeclarationFailures ==
    ASSUME IInv, Sound, NEW e \in Endpoints, NEW n \in Nodes,
           CreateFails(e, n) \/ ServiceCreateFails(e, n)
    PROVE  IInv'
<1> DEFINE t == TakeReferences(mem[n], Kind[e])
           m == GiveReferences(t)
           s == IF Kind[e] \in Counted THEN 0 ELSE 1
<1>1. n \in handle /\ mem' = [mem EXCEPT ![n] = m]
  BY DEF CreateFails, ServiceCreateFails
<1>2. /\ mem[n] \in NodeMemory
      /\ t \in NodeMemory
      /\ t.ok => /\ t.ref = mem[n].ref + (IF Kind[e] \in Counted THEN 1 ELSE 0)
                 /\ t.announced <=> t.ref > 0
                 /\ Extra(t) = Extra(mem[n]) + 1
                 /\ t.ref > 0
      /\ slips = {} => t.ok /\ Extra(t) > 0
  BY <1>1, GiveWhatWasTaken
<1>3. t.announced <=> t.ref > 0
  <2>1. mem[n].announced <=> mem[n].ref > 0
    BY <1>1, GiveWhatWasTaken
  <2>2. Kind[e] \in Kinds
    BY EndpointAssumption
  <2> HIDE DEF t
  <2>3. t = CloneInfo(CloneNode(mem[n], Kind[e]))
    BY DEF t, TakeReferences
  <2>4. ASSUME NEW k \in NodeMemory, k.announced <=> k.ref > 0
        PROVE  CloneInfo(k).announced <=> CloneInfo(k).ref > 0
    BY <2>4 DEF CloneInfo, NodeMemory
  <2>5. CloneNode(mem[n], Kind[e]) \in NodeMemory
    BY <1>2, <2>1, <2>2, CloneNodeCounts
  <2>6. CloneNode(mem[n], Kind[e]).announced <=> CloneNode(mem[n], Kind[e]).ref > 0
    BY <1>2, <2>1 DEF CloneNode, NodeMemory
  <2> QED
    BY <2>3, <2>4, <2>5, <2>6
<1>4. /\ m \in NodeMemory
      /\ m.ok => /\ t.ok /\ t.ref > 0
                 /\ m.ref = t.ref - 1
                 /\ m.announced <=> m.ref > 0
                 /\ Extra(m) = Extra(t) - 1
      /\ (t.ok /\ t.ref > 0 /\ Extra(t) > 0) => m.ok
  BY <1>2, <1>3, GiveCounts
<1>5. /\ clones \in [Nodes -> Nat] /\ surplus \in [Nodes -> Nat] /\ doubled \in [Nodes -> Nat]
      /\ slips \subseteq Slips /\ broken = FALSE
  BY DEF IInv, TypeOK, Sound
<1>6. /\ clones' = [clones EXCEPT ![n] = @ + 0]
      /\ surplus' = [surplus EXCEPT ![n] = @ + s]
      /\ doubled' = [doubled EXCEPT ![n] = @ + 0]
  <2>1. clones[n] + 0 = clones[n] /\ surplus[n] + 0 = surplus[n] /\ doubled[n] + 0 = doubled[n]
    BY <1>5
  <2>2. clones' = clones /\ doubled' = doubled
    BY DEF CreateFails, ServiceCreateFails
  <2>3. surplus' = [surplus EXCEPT ![n] = @ + s]
    BY <1>5, <2>1 DEF CreateFails, ServiceCreateFails, Counted, Uncounted
  <2> QED
    BY <1>5, <2>1, <2>2, <2>3
<1>7. /\ UNCHANGED <<handle, dataVars, messageVars, running>>
      /\ failures < FailureMax /\ failures' = failures + 1
      /\ slips \subseteq slips' /\ slips' \subseteq Slips /\ broken' = FALSE
      /\ slips' = {} => slips = {} /\ Kind[e] \in Counted
  BY <1>5 DEF CreateFails, ServiceCreateFails, Slips, Counted, Uncounted
<1>8. m.ok => /\ m.ref + s = mem[n].ref + 0
              /\ Extra(m) + 0 = Extra(mem[n])
              /\ m.announced <=> m.ref > 0
  <2>1. m.ref \in Nat /\ mem[n].ref \in Nat /\ Extra(mem[n]) \in Int /\ t.ref \in Nat
    BY <1>2, <1>4 DEF Extra, NodeMemory
  <2>2. t.ok => t.ref + s = mem[n].ref + 1
    BY <1>2, <2>1
  <2> HIDE DEF t, m, s
  <2>3. s \in Nat
    BY DEF s
  <2> QED
    BY <1>2, <1>4, <2>1, <2>2, <2>3
<1>9. slips' = {} => s = 0 /\ m.ok
  BY <1>2, <1>4, <1>7
<1>10. s \in Nat
  OBVIOUS
<1> HIDE DEF t, m, s
<1> QED
  BY <1>1, <1>4, <1>6, <1>7, <1>8, <1>9, <1>10, Failure

-----------------------------------------------------------------------------
(* Nodes and the creation of endpoints.                                    *)

\* A new node has one reference, its handle, and no endpoint.
LEMMA CreateNodeInv ==
    ASSUME IInv, Sound, NEW n \in Nodes, CreateNode(n)
    PROVE  IInv'
<1> USE DEF CreateNode
<1>1. NewNode \in NodeMemory
  BY DEF NewNode, NodeMemory
<1>2. /\ mem' \in [Nodes -> NodeMemory] /\ mem'[n] = NewNode
      /\ (\A k \in Nodes \ {n} : mem'[k] = mem[k])
      /\ (Sound' <=> ~broken' /\ NewNode.ok)
  BY <1>1, OneMemory
<1>3. TypeOK'
  BY <1>2 DEF IInv, TypeOK, dataVars, messageVars
<1>4. \A k \in Nodes : Members(k)' = Members(k) /\ Holders(k)' = Holders(k)
  BY DEF Members, Holders, Live, dataVars
<1>5. /\ clones'[n] = 0 /\ surplus'[n] = 0 /\ doubled'[n] = 0
      /\ \A k \in Nodes \ {n} : /\ clones'[k] = clones[k] /\ surplus'[k] = surplus[k]
                                /\ doubled'[k] = doubled[k]
  BY DEF IInv, TypeOK
<1>6. NodeRefs(n)'
  <2>1. Members(n)' = {} /\ Holders(n)' = {}
    BY <1>4 DEF Unused, Holders
  <2>2. Cardinality(Members(n)') = 0 /\ Cardinality(Holders(n)') = 0
    BY <2>1, FS_EmptySet
  <2>3. mem'[n].ref = 1 /\ mem'[n].info = 1 /\ mem'[n].announced
    BY <1>2 DEF NewNode
  <2>4. Extra(mem'[n]) = 0
    BY <2>3 DEF Extra
  <2>5. n \in handle'
    OBVIOUS
  <2>6. mem'[n].ref + surplus'[n] = (IF n \in handle' THEN 1 ELSE 0)
                                     + Cardinality(Holders(n)') + clones'[n]
    BY <1>5, <2>2, <2>3, <2>5
  <2>7. Extra(mem'[n]) + doubled'[n] = Cardinality(Members(n)')
    BY <1>5, <2>2, <2>4
  <2>8. mem'[n].announced <=> mem'[n].ref > 0
    BY <2>3
  <2> QED
    BY <2>6, <2>7, <2>8 DEF NodeRefs
<1>7. \A k \in Nodes : NodeRefs(k)'
  BY <1>2, <1>4, <1>5, <1>6, OtherNodes DEF IInv, CountInv
<1>8. CountInv'
  BY <1>5, <1>7 DEF IInv, CountInv
<1>9. DataInv'
  BY DataFrame DEF IInv
<1>10. UndefinedOnlyAfterSlip'
  BY <1>2 DEF IInv, UndefinedOnlyAfterSlip, Sound, NewNode
<1> QED
  BY <1>3, <1>8, <1>9, <1>10 DEF IInv

\* A node that cannot be created leaves nothing, or is a slip.
LEMMA CreateNodeFailsInv ==
    ASSUME IInv, Sound, NEW n \in Nodes, NEW garbage \in BOOLEAN, NEW stage,
           CreateNodeFails(n, stage, garbage)
    PROVE  IInv'
<1>1. /\ UNCHANGED <<nodeVars, dataVars, messageVars, running>>
      /\ failures < FailureMax /\ failures' = failures + 1
      /\ slips \subseteq slips' /\ slips' \subseteq Slips /\ broken' \in BOOLEAN
      /\ slips' = {} => broken' = FALSE
  <2>1. slips \subseteq Slips /\ broken = FALSE
    BY DEF IInv, TypeOK, Sound
  <2> QED
    BY <2>1 DEF CreateNodeFails, Slips
<1>2. TypeOK'
  <2>1. failures' \in 0..FailureMax
    BY <1>1, BoundAssumption DEF IInv, TypeOK
  <2> QED
    BY <1>1, <2>1 DEF IInv, TypeOK, nodeVars, dataVars, messageVars
<1>3. CountInv'
  <2>1. UNCHANGED <<nodeVars, owner>> /\ \A e \in Endpoints : Live(e)' <=> Live(e)
    BY <1>1 DEF dataVars, Live
  <2> QED
    BY <1>1, <2>1, Quiet
<1>4. DataInv'
  BY <1>1, DataFrame DEF IInv
<1>5. UndefinedOnlyAfterSlip'
  BY <1>1 DEF IInv, UndefinedOnlyAfterSlip, Sound, nodeVars
<1> QED
  BY <1>2, <1>3, <1>4, <1>5 DEF IInv

\* The handle gives its reference back.
LEMMA DestroyNodeInv ==
    ASSUME IInv, Sound, NEW n \in Nodes, DestroyNode(n)
    PROVE  IInv'
<1> USE DEF DestroyNode
<1> DEFINE m == ReleaseNode(mem[n])
<1>1. mem[n] \in NodeMemory /\ NodeRefs(n)
  BY DEF IInv, TypeOK, CountInv
<1>2. /\ m \in NodeMemory
      /\ m.ok => /\ mem[n].ref > 0
                 /\ m.ref = mem[n].ref - 1
                 /\ m.announced <=> m.ref > 0
                 /\ Extra(m) = Extra(mem[n])
      /\ (mem[n].ok /\ mem[n].ref > 0 /\ mem[n].info > 0) => m.ok
  BY <1>1, ReleaseNodeCounts DEF NodeRefs
<1>3. mem' = [mem EXCEPT ![n] = m]
  OBVIOUS
<1> HIDE DEF m
<1>4. /\ mem' \in [Nodes -> NodeMemory] /\ mem'[n] = m
      /\ (\A k \in Nodes \ {n} : mem'[k] = mem[k])
      /\ (Sound' <=> ~broken' /\ m.ok)
  BY <1>2, <1>3, OneMemory
<1>5. TypeOK'
  BY <1>4 DEF IInv, TypeOK, dataVars, messageVars
<1>6. \A k \in Nodes : Members(k)' = Members(k) /\ Holders(k)' = Holders(k)
  BY DEF Members, Holders, Live, dataVars
<1>7. ASSUME Sound' PROVE \A k \in Nodes : NodeRefs(k)'
  <2>1. m.ref = mem[n].ref - 1 /\ (m.announced <=> m.ref > 0) /\ Extra(m) = Extra(mem[n])
    BY <1>2, <1>4, <1>7
  <2>2. /\ mem[n].ref \in Nat /\ m.ref \in Nat /\ surplus[n] \in Nat /\ clones[n] \in Nat
        /\ Cardinality(Holders(n)) \in Nat
    BY <1>1, <1>2, MembersFinite DEF IInv, TypeOK, NodeMemory
  <2>3. mem[n].ref + surplus[n] = 1 + Cardinality(Holders(n)) + clones[n]
    BY <1>1 DEF NodeRefs
  <2>4. m.ref + surplus[n] = Cardinality(Holders(n)) + clones[n]
    BY <2>1, <2>2, <2>3
  <2>5. n \notin handle'
    OBVIOUS
  <2>6. m.ref + surplus[n] = (IF n \in handle' THEN 1 ELSE 0) + Cardinality(Holders(n)) + clones[n]
    BY <2>2, <2>4, <2>5
  <2>7. Extra(m) + doubled[n] = Cardinality(Members(n))
    BY <1>1, <2>1 DEF NodeRefs
  <2>8. NodeRefs(n)'
    BY <1>4, <1>6, <2>1, <2>6, <2>7 DEF NodeRefs
  <2> QED
    BY <1>4, <1>6, <2>8, OtherNodes DEF IInv, CountInv
<1>8. CountInv'
  BY <1>7 DEF IInv, CountInv
<1>9. DataInv'
  BY DataFrame DEF IInv
<1>10. UndefinedOnlyAfterSlip'
  <2>1. slips = {} => m.ok
    BY <1>2, HandleIsThere
  <2> QED
    BY <1>4, <2>1 DEF UndefinedOnlyAfterSlip, Sound
<1> QED
  BY <1>5, <1>8, <1>9, <1>10 DEF IInv

\* An endpoint that begins to live joins the endpoints of its node.
LEMMA Join ==
    ASSUME IInv, NEW e \in Endpoints, NEW n \in Nodes, life[e] = "none",
           life' = [life EXCEPT ![e] = "declaring"], owner' = [owner EXCEPT ![e] = n]
    PROVE  /\ Cardinality(Members(n)') = Cardinality(Members(n)) + 1
           /\ Cardinality(Holders(n)') =
                  Cardinality(Holders(n)) + (IF Kind[e] \in Counted THEN 1 ELSE 0)
           /\ \A k \in Nodes \ {n} : Members(k)' = Members(k) /\ Holders(k)' = Holders(k)
           /\ \A x \in Endpoints : Live(x)' <=> Live(x) \/ x = e
<1>1. /\ life'[e] = "declaring" /\ owner'[e] = n
      /\ \A x \in Endpoints \ {e} : life'[x] = life[x] /\ owner'[x] = owner[x]
  BY DEF IInv, TypeOK
<1>2. Members(n)' = Members(n) \cup {e} /\ e \notin Members(n)
  BY <1>1 DEF Members, Live
<1>3. Holders(n)' = (IF Kind[e] \in Counted THEN Holders(n) \cup {e} ELSE Holders(n))
      /\ e \notin Holders(n)
  BY <1>2 DEF Holders
<1>4. \A k \in Nodes \ {n} : Members(k)' = Members(k)
  BY <1>1 DEF Members, Live
<1>5. \A k \in Nodes \ {n} : Holders(k)' = Holders(k)
  BY <1>4 DEF Holders
<1>6. \A x \in Endpoints : Live(x)' <=> Live(x) \/ x = e
  BY <1>1 DEF Live
<1>7. Cardinality(Members(n) \cup {e}) = Cardinality(Members(n)) + 1
  BY <1>2, MembersFinite, FS_AddElement
<1>8. Cardinality(Holders(n) \cup {e}) = Cardinality(Holders(n)) + 1
  BY <1>3, MembersFinite, FS_AddElement
<1>9. Cardinality(Holders(n)) + 0 = Cardinality(Holders(n))
  BY MembersFinite
<1> QED
  BY <1>2, <1>3, <1>4, <1>5, <1>6, <1>7, <1>8, <1>9

\* A new endpoint takes its references.
LEMMA DeclareInv ==
    ASSUME IInv, Sound, NEW e \in Endpoints, NEW n \in Nodes, Declare(e, n)
    PROVE  IInv'
<1> USE DEF Declare
<1> DEFINE c == IF Kind[e] \in Counted THEN 1 ELSE 0
           m == TakeReferences(mem[n], Kind[e])
<1>1. mem[n] \in NodeMemory /\ NodeRefs(n) /\ n \in handle /\ c \in Nat
  BY DEF IInv, TypeOK, CountInv
<1>2. /\ m \in NodeMemory
      /\ m.ok => /\ m.ref = mem[n].ref + c
                 /\ m.announced <=> m.ref > 0
                 /\ Extra(m) = Extra(mem[n]) + 1
      /\ slips = {} => m.ok
  BY <1>1, GiveWhatWasTaken
<1>3. mem' = [mem EXCEPT ![n] = m]
  OBVIOUS
<1>4. /\ Cardinality(Members(n)') = Cardinality(Members(n)) + 1
      /\ Cardinality(Holders(n)') = Cardinality(Holders(n)) + c
      /\ \A k \in Nodes \ {n} : Members(k)' = Members(k) /\ Holders(k)' = Holders(k)
      /\ \A x \in Endpoints : Live(x)' <=> Live(x) \/ x = e
  BY Join DEF Fresh
<1> HIDE DEF m, c
<1>5. /\ mem' \in [Nodes -> NodeMemory] /\ mem'[n] = m
      /\ (\A k \in Nodes \ {n} : mem'[k] = mem[k])
      /\ (Sound' <=> ~broken' /\ m.ok)
  BY <1>2, <1>3, OneMemory
<1>6. /\ life' \in [Endpoints -> Phases] /\ owner' \in [Endpoints -> Nodes \cup {NoOne}]
      /\ life'[e] = "declaring" /\ owner'[e] = n
      /\ \A x \in Endpoints \ {e} : life'[x] = life[x] /\ owner'[x] = owner[x]
  BY DEF IInv, TypeOK, Phases
<1>7. TypeOK'
  BY <1>5, <1>6 DEF IInv, TypeOK, messageVars
<1>8. ASSUME Sound' PROVE \A k \in Nodes : NodeRefs(k)'
  <2>1. m.ref = mem[n].ref + c /\ (m.announced <=> m.ref > 0) /\ Extra(m) = Extra(mem[n]) + 1
    BY <1>2, <1>5, <1>8
  <2> DEFINE h == IF n \in handle THEN 1 ELSE 0
  <2>2. /\ mem[n].ref \in Nat /\ m.ref \in Nat /\ surplus[n] \in Nat /\ clones[n] \in Nat
        /\ doubled[n] \in Nat /\ Extra(mem[n]) \in Int /\ h \in Nat
        /\ Cardinality(Holders(n)) \in Nat /\ Cardinality(Members(n)) \in Nat
    BY <1>1, <1>2, MembersFinite DEF IInv, TypeOK, NodeMemory, Extra
  <2>3. mem[n].ref + surplus[n] = h + Cardinality(Holders(n)) + clones[n]
        /\ Extra(mem[n]) + doubled[n] = Cardinality(Members(n))
    BY <1>1 DEF NodeRefs
  <2>4. h = IF n \in handle' THEN 1 ELSE 0
    OBVIOUS
  <2> HIDE DEF h
  <2>5. m.ref + surplus[n] = h + Cardinality(Holders(n)') + clones[n]
    BY <1>1, <1>4, <2>1, <2>2, <2>3
  <2>6. Extra(m) + doubled[n] = Cardinality(Members(n)')
    BY <1>4, <2>1, <2>2, <2>3
  <2>7. NodeRefs(n)'
    BY <1>5, <2>1, <2>4, <2>5, <2>6 DEF NodeRefs
  <2> QED
    BY <1>4, <1>5, <2>7, OtherNodes DEF IInv, CountInv
<1>9. CountInv'
  BY <1>8 DEF IInv, CountInv
<1>10. DataInv'
  <2>1. OwnerInv'
    BY <1>4, <1>6 DEF IInv, DataInv, OwnerInv
  <2>2. DeclaredInv'
    <3>1. e \notin announced
      BY DEF IInv, DataInv, DeclaredInv, Fresh
    <3> QED
      BY <1>6, <3>1 DEF IInv, DataInv, DeclaredInv, CallbacksHaveContext, TypeOK
  <2>3. QueueInv'
    BY <1>4 DEF IInv, DataInv, QueueInv, messageVars
  <2>4. RunningInv'
    BY <1>6 DEF IInv, DataInv, RunningInv, TypeOK, messageVars, Fresh
  <2> QED
    BY <2>1, <2>2, <2>3, <2>4 DEF DataInv
<1>11. UndefinedOnlyAfterSlip'
  BY <1>2, <1>5 DEF UndefinedOnlyAfterSlip, Sound
<1> QED
  BY <1>7, <1>9, <1>10, <1>11 DEF IInv

\* The steps from declaration to use and from use to undeclaration let no endpoint live or die.
LEMMA LifeInv ==
    ASSUME IInv, Sound, NEW e \in Endpoints,
           FinishCreate(e) \/ TokenFails(e) \/ ServiceTokenFails(e) \/ Undeclare(e)
           \/ ServiceUndeclare(e)
    PROVE  IInv'
<1> USE DEF FinishCreate, TokenFails, ServiceTokenFails, Undeclare, ServiceUndeclare
<1>1. /\ life[e] \in {"declaring", "open"}
      /\ \E phase \in {"open", "undeclared"} : life' = [life EXCEPT ![e] = phase]
      /\ UNCHANGED <<nodeVars, owner, messageVars, running, broken>>
      /\ failures' = failures \/ (failures < FailureMax /\ failures' = failures + 1)
  BY DEF Destroyable
<1>2. /\ life' \in [Endpoints -> Phases]
      /\ \A x \in Endpoints \ {e} : life'[x] = life[x]
      /\ \A x \in Endpoints : Live(x)' <=> Live(x)
  BY <1>1 DEF IInv, TypeOK, Phases, Live
<1>3. slips \subseteq slips' /\ slips' \subseteq Slips
  <2>1. slips \subseteq Slips
    BY DEF IInv, TypeOK
  <2>2. Overlap(e) \subseteq Slips
    BY DEF Overlap, Slips
  <2>3. {"queryableLeft"} \subseteq Slips /\ {"openQuery"} \subseteq Slips
    BY DEF Slips
  <2> QED
    BY <2>1, <2>2, <2>3
<1>4. TypeOK'
  <2>1. failures' \in 0..FailureMax
    BY <1>1, BoundAssumption DEF IInv, TypeOK
  <2>2. declared' \subseteq Endpoints /\ announced' \subseteq Endpoints
    BY DEF IInv, TypeOK, Withdrawn
  <2> QED
    BY <1>1, <1>2, <1>3, <2>1, <2>2 DEF IInv, TypeOK, nodeVars, messageVars
<1>5. CountInv'
  BY <1>1, <1>2, <1>3, Quiet
<1>6. OwnerInv'
  BY <1>1, <1>2 DEF IInv, DataInv, OwnerInv
<1>7. DeclaredInv'
  <2> USE DEF IInv, TypeOK, DataInv, DeclaredInv, CallbacksHaveContext
  <2>1. CASE FinishCreate(e)
    <3>1. e \in declared
      BY <2>1
    <3> QED
      BY <1>2, <2>1, <3>1
  <2>2. CASE TokenFails(e)
    BY <1>2, <2>2
  <2>3. CASE ServiceTokenFails(e)
    BY <1>2, <2>3
  <2>4. CASE Undeclare(e) \/ ServiceUndeclare(e)
    <3>1. declared' = declared \ {e} /\ announced' = announced \ {e}
      BY <2>4 DEF Withdrawn
    <3> QED
      BY <1>2, <1>3, <3>1
  <2> QED
    BY <2>1, <2>2, <2>3, <2>4
<1>8. QueueInv'
  BY <1>1, <1>2 DEF IInv, DataInv, QueueInv, messageVars
<1>9. RunningInv'
  <2>1. ASSUME slips' = {}, running = e PROVE life'[e] \in {"declaring", "open"}
    BY <2>1 DEF Overlap, IInv, TypeOK
  <2>2. ASSUME slips' = {}, queries[e] > 0 PROVE life'[e] = "open"
    <3>1. Kind[e] = "Client" /\ life[e] = "open"
      BY <1>3, <2>2 DEF IInv, DataInv, RunningInv
    <3> QED
      BY <2>2, <3>1 DEF Counted, Destroyable
  <2> QED
    BY <1>1, <1>2, <1>3, <2>1, <2>2 DEF IInv, DataInv, RunningInv, TypeOK, messageVars
<1>10. UndefinedOnlyAfterSlip'
  BY <1>1, <1>3 DEF IInv, UndefinedOnlyAfterSlip, Sound, nodeVars
<1> QED
  BY <1>4, <1>5, <1>6, <1>7, <1>8, <1>9, <1>10 DEF IInv, DataInv

-----------------------------------------------------------------------------
(* The end of endpoints.                                                   *)

\* An endpoint that ends leaves the endpoints of its node.
LEMMA Leave ==
    ASSUME IInv, NEW e \in Endpoints, NEW n \in Nodes, Live(e), owner[e] = n,
           life' = [life EXCEPT ![e] = "none"], owner' = [owner EXCEPT ![e] = NoOne]
    PROVE  /\ Cardinality(Members(n)') = Cardinality(Members(n)) - 1
           /\ Cardinality(Holders(n)') =
                  Cardinality(Holders(n)) - (IF Kind[e] \in Counted THEN 1 ELSE 0)
           /\ Cardinality(Members(n)) > 0
           /\ Kind[e] \in Counted => Cardinality(Holders(n)) > 0
           /\ \A k \in Nodes \ {n} : Members(k)' = Members(k) /\ Holders(k)' = Holders(k)
           /\ \A x \in Endpoints : Live(x)' <=> Live(x) /\ x # e
<1>1. life'[e] = "none" /\ \A x \in Endpoints \ {e} : life'[x] = life[x] /\ owner'[x] = owner[x]
  BY DEF IInv, TypeOK
<1>2. Members(n)' = Members(n) \ {e} /\ e \in Members(n)
  BY <1>1 DEF Members, Live
<1>3. /\ Holders(n)' = (IF Kind[e] \in Counted THEN Holders(n) \ {e} ELSE Holders(n))
      /\ Kind[e] \in Counted => e \in Holders(n)
  BY <1>2 DEF Holders
<1>4. \A k \in Nodes \ {n} : Members(k)' = Members(k)
  BY <1>1 DEF Members, Live
<1>5. \A k \in Nodes \ {n} : Holders(k)' = Holders(k)
  BY <1>4 DEF Holders
<1>6. \A x \in Endpoints : Live(x)' <=> Live(x) /\ x # e
  BY <1>1 DEF Live
<1>7. Cardinality(Members(n) \ {e}) = Cardinality(Members(n)) - 1
  BY <1>2, MembersFinite, FS_RemoveElement
<1>8. Kind[e] \in Counted => Cardinality(Holders(n) \ {e}) = Cardinality(Holders(n)) - 1
  BY <1>3, MembersFinite, FS_RemoveElement
<1>9. Cardinality(Members(n)) > 0
  BY <1>2, MembersFinite, FS_EmptySet
<1>10. Kind[e] \in Counted => Cardinality(Holders(n)) > 0
  BY <1>3, MembersFinite, FS_EmptySet
<1>11. Cardinality(Holders(n)) - 0 = Cardinality(Holders(n))
  BY MembersFinite
<1> QED
  BY <1>2, <1>3, <1>4, <1>5, <1>6, <1>7, <1>8, <1>9, <1>10, <1>11

\* An endpoint that ends gives a reference to each object back, of which a service and a
\* client had taken one only.
LEMMA DestroyDataInv ==
    ASSUME IInv, Sound, NEW e \in Endpoints,
           DestroyPublisherData(e) \/ DestroySubscriptionData(e) \/ DestroyServiceData(e)
    PROVE  IInv'
<1>1. DataGone(e)
  BY DEF DestroyPublisherData, DestroySubscriptionData, DestroyServiceData
<1>2. PICK n \in Nodes : n = owner[e]
  BY <1>1 DEF DataGone, IInv, DataInv, OwnerInv, Live
<1> DEFINE m == GiveReferences(mem[n])
           c == IF Kind[e] \in Counted THEN 1 ELSE 0
<1>3. /\ mem[n] \in NodeMemory /\ NodeRefs(n) /\ c \in Nat
      /\ mem' = [mem EXCEPT ![n] = m]
      /\ Live(e)
      /\ life' = [life EXCEPT ![e] = "none"] /\ owner' = [owner EXCEPT ![e] = NoOne]
      /\ UNCHANGED <<handle, clones, doubled, declared, announced, queries, running, broken,
                     failures>>
  BY <1>1, <1>2 DEF DataGone, IInv, TypeOK, CountInv, Live
<1>4. /\ m \in NodeMemory
      /\ m.ok => /\ mem[n].ref > 0 /\ m.ref = mem[n].ref - 1
                 /\ m.announced <=> m.ref > 0
                 /\ Extra(m) = Extra(mem[n]) - 1
      /\ (mem[n].ok /\ mem[n].ref > 0 /\ Extra(mem[n]) > 0) => m.ok
  BY <1>3, GiveCounts DEF NodeRefs
<1>5. /\ Cardinality(Members(n)') = Cardinality(Members(n)) - 1
      /\ Cardinality(Holders(n)') = Cardinality(Holders(n)) - c
      /\ Cardinality(Members(n)) > 0
      /\ Kind[e] \in Counted => Cardinality(Holders(n)) > 0
      /\ \A k \in Nodes \ {n} : Members(k)' = Members(k) /\ Holders(k)' = Holders(k)
      /\ \A x \in Endpoints : Live(x)' <=> Live(x) /\ x # e
  BY <1>2, <1>3, Leave
<1>6. /\ surplus' \in [Nodes -> Nat]
      /\ surplus'[n] + c = surplus[n] + 1
      /\ \A k \in Nodes \ {n} : surplus'[k] = surplus[k]
      /\ slips \subseteq slips' /\ slips' \subseteq Slips
      /\ slips' = {} => Kind[e] \in Counted /\ surplus' = surplus
  <2>1. surplus \in [Nodes -> Nat] /\ slips \subseteq Slips /\ surplus[n] \in Nat
    BY DEF IInv, TypeOK
  <2>2. CASE DestroyPublisherData(e) \/ DestroySubscriptionData(e)
    <3>1. Kind[e] \in Counted /\ surplus' = surplus /\ slips' = slips
      BY <2>2 DEF DestroyPublisherData, DestroySubscriptionData, Counted
    <3> QED
      BY <2>1, <3>1
  <2>3. CASE DestroyServiceData(e)
    <3>1. /\ Kind[e] \notin Counted /\ surplus' = [surplus EXCEPT ![n] = @ + 1]
          /\ slips' = slips \cup {"serviceGone"}
      BY <1>2, <2>3 DEF DestroyServiceData, Counted, Uncounted
    <3>2. c = 0
      BY <3>1
    <3>3. slips' \subseteq Slips
      BY <2>1, <3>1 DEF Slips
    <3> QED
      BY <2>1, <3>1, <3>2, <3>3
  <2> QED
    BY <2>2, <2>3
<1> HIDE DEF m, c
<1>7. /\ mem' \in [Nodes -> NodeMemory] /\ mem'[n] = m
      /\ (\A k \in Nodes \ {n} : mem'[k] = mem[k])
      /\ (Sound' <=> ~broken' /\ m.ok)
  BY <1>3, <1>4, OneMemory
<1>8. /\ queue' \in [Endpoints -> Nat]
      /\ Kind[e] # "Publisher" => queue'[e] = 0
      /\ \A x \in Endpoints \ {e} : queue'[x] = queue[x]
      /\ Kind[e] = "Publisher" => queue' = queue
      /\ lost' = lost \/ (lost' = lost \cup {e} /\ Kind[e] = "Subscription")
  <2>1. queue \in [Endpoints -> Nat]
    BY DEF IInv, TypeOK
  <2>2. CASE DestroyPublisherData(e)
    BY <2>1, <2>2 DEF DestroyPublisherData
  <2>3. CASE DestroySubscriptionData(e)
    BY <2>1, <2>3 DEF DestroySubscriptionData
  <2>4. CASE DestroyServiceData(e)
    BY <2>1, <2>4 DEF DestroyServiceData, DeleteMessages, Uncounted
  <2> QED
    BY <2>2, <2>3, <2>4
<1>9. /\ life' \in [Endpoints -> Phases] /\ owner' \in [Endpoints -> Nodes \cup {NoOne}]
      /\ \A x \in Endpoints \ {e} : life'[x] = life[x] /\ owner'[x] = owner[x]
  BY <1>3 DEF IInv, TypeOK, Phases
<1>10. TypeOK'
  <2>1. lost' \subseteq Endpoints
    BY <1>8 DEF IInv, TypeOK
  <2>2. /\ clones' \in [Nodes -> Nat] /\ doubled' \in [Nodes -> Nat]
        /\ queries' \in [Endpoints -> Nat] /\ running' \in Endpoints \cup {NoOne}
        /\ broken' \in BOOLEAN /\ failures' \in 0..FailureMax
        /\ handle' \subseteq Nodes /\ declared' \subseteq Endpoints /\ announced' \subseteq Endpoints
    BY <1>3 DEF IInv, TypeOK
  <2>3. queue' \in [Endpoints -> Nat] /\ surplus' \in [Nodes -> Nat] /\ slips' \subseteq Slips
    BY <1>6, <1>8
  <2> QED
    BY <1>7, <1>9, <2>1, <2>2, <2>3 DEF TypeOK
<1>11. ASSUME Sound' PROVE \A k \in Nodes : NodeRefs(k)'
  <2>1. /\ m.ref = mem[n].ref - 1 /\ (m.announced <=> m.ref > 0)
        /\ Extra(m) = Extra(mem[n]) - 1
    BY <1>4, <1>7, <1>11
  <2> DEFINE h == IF n \in handle THEN 1 ELSE 0
  <2>2. /\ mem[n].ref \in Nat /\ m.ref \in Nat /\ surplus[n] \in Nat /\ clones[n] \in Nat
        /\ doubled[n] \in Nat /\ Extra(mem[n]) \in Int /\ h \in Nat /\ surplus'[n] \in Nat
        /\ Cardinality(Holders(n)) \in Nat /\ Cardinality(Members(n)) \in Nat
    <3>1. mem[n].ref \in Nat /\ m.ref \in Nat /\ Extra(mem[n]) \in Int
      BY <1>3, <1>4 DEF NodeMemory, Extra
    <3>2. surplus[n] \in Nat /\ clones[n] \in Nat /\ doubled[n] \in Nat /\ surplus'[n] \in Nat
      BY <1>6 DEF IInv, TypeOK
    <3> QED
      BY <3>1, <3>2, MembersFinite
  <2>3. /\ mem[n].ref + surplus[n] = h + Cardinality(Holders(n)) + clones[n]
        /\ Extra(mem[n]) + doubled[n] = Cardinality(Members(n))
    BY <1>3 DEF NodeRefs
  <2>4. h = IF n \in handle' THEN 1 ELSE 0
    BY <1>3
  <2> HIDE DEF h
  <2>5. m.ref + surplus'[n] = h + Cardinality(Holders(n)') + clones[n]
    BY <1>3, <1>5, <1>6, <2>1, <2>2, <2>3
  <2>6. Extra(m) + doubled[n] = Cardinality(Members(n)')
    BY <1>5, <2>1, <2>2, <2>3
  <2>7. NodeRefs(n)'
    BY <1>3, <1>7, <2>1, <2>4, <2>5, <2>6 DEF NodeRefs
  <2> QED
    BY <1>3, <1>5, <1>6, <1>7, <2>7, OtherNodes DEF IInv, CountInv
<1>12. CountInv'
  BY <1>3, <1>6, <1>11 DEF IInv, CountInv
<1>13. OwnerInv'
  BY <1>5, <1>9 DEF IInv, DataInv, OwnerInv
<1>14. DeclaredInv'
  <2>1. life[e] = "undeclared" /\ life'[e] = "none"
    BY <1>1 DEF DataGone, IInv, TypeOK
  <2>2. "queryableLeft" \in slips => "queryableLeft" \in slips'
    BY <1>6
  <2> QED
    BY <1>3, <1>9, <2>1, <2>2 DEF IInv, TypeOK, DataInv, DeclaredInv, CallbacksHaveContext
<1>15. QueueInv'
  <2> SUFFICES ASSUME NEW x \in Endpoints
               PROVE  /\ queue'[x] > 0 => Live(x)' /\ Kind[x] # "Publisher"
                      /\ x \in lost' => Kind[x] = "Subscription"
    BY DEF QueueInv
  <2>1. /\ queue[x] > 0 => Live(x) /\ Kind[x] # "Publisher"
        /\ x \in lost => Kind[x] = "Subscription"
    BY DEF IInv, DataInv, QueueInv
  <2>2. CASE x = e
    <3>1. ~(queue'[e] > 0)
      BY <1>8, <2>1, <2>2
    <3> QED
      BY <1>8, <2>1, <2>2, <3>1
  <2>3. CASE x # e
    BY <1>5, <1>8, <2>1, <2>3
  <2> QED
    BY <2>2, <2>3
<1>16. RunningInv'
  <2>1. life[e] = "undeclared"
    BY <1>1 DEF DataGone
  <2>2. slips' = {} => slips = {}
    BY <1>6
  <2> QED
    BY <1>3, <1>9, <2>1, <2>2 DEF IInv, TypeOK, DataInv, RunningInv
<1>17. UndefinedOnlyAfterSlip'
  <2>1. ASSUME slips' = {} PROVE m.ok
    <3>1. /\ Kind[e] \in Counted /\ slips = {}
      BY <1>6, <2>1
    <3>2. surplus[n] = 0 /\ doubled[n] = 0 /\ clones[n] = 0
      BY <3>1 DEF IInv, CountInv
    <3>3. mem[n].ok /\ mem[n].ref \in Nat /\ Extra(mem[n]) \in Int
      BY <1>3 DEF Sound, NodeMemory, Extra
    <3>4. mem[n].ref > 0
      BY <1>3, <1>5, <3>1, <3>2, <3>3, MembersFinite DEF NodeRefs
    <3>5. Extra(mem[n]) > 0
      BY <1>3, <1>5, <3>2, <3>3, MembersFinite DEF NodeRefs
    <3> QED
      BY <1>4, <3>3, <3>4, <3>5
  <2>2. ~broken'
    BY <1>3 DEF Sound
  <2> QED
    BY <1>7, <2>1, <2>2 DEF UndefinedOnlyAfterSlip
<1> QED
  BY <1>10, <1>12, <1>13, <1>14, <1>15, <1>16, <1>17 DEF IInv, DataInv

-----------------------------------------------------------------------------
(* Use.                                                                    *)

\* Callbacks, takes and queries count nothing; a callback that was started without a slip
\* finds its endpoint.
LEMMA UseInv ==
    ASSUME IInv, Sound, NEW e \in Endpoints,
           \/ SubscriptionHandlerStart(e) \/ RequestHandlerStart(e) \/ ReplyStart(e)
           \/ HandlerEnd(e) \/ HandlerGivesUp(e)
           \/ Take(e) \/ SendRequest(e) \/ ReplyDropper(e)
    PROVE  IInv'
<1> USE DEF SubscriptionHandlerStart, RequestHandlerStart, ReplyStart, HandlerEnd,
            HandlerGivesUp, Take, SendRequest, ReplyDropper
<1>1. /\ UNCHANGED <<nodeVars, dataVars, failures, slips>>
      /\ lost' = lost
      /\ broken' = broken \/ (broken' = TRUE /\ running = e /\ ~Live(e))
  BY DEF messageVars
<1>2. /\ \A x \in Endpoints \ {e} : queue'[x] = queue[x] /\ queries'[x] = queries[x]
      /\ queue' \in [Endpoints -> Nat] /\ queries' \in [Endpoints -> Nat]
  <2>1. queue \in [Endpoints -> Nat] /\ queries \in [Endpoints -> Nat]
    BY DEF IInv, TypeOK
  <2>2. \/ queue' = queue
        \/ queue' = [queue EXCEPT ![e] = queue[e] + 1]
        \/ queue' = [queue EXCEPT ![e] = queue[e] - 1] /\ queue[e] > 0
    BY DEF messageVars, DeleteMessages
  <2>3. \/ queries' = queries
        \/ queries' = [queries EXCEPT ![e] = queries[e] + 1]
        \/ queries' = [queries EXCEPT ![e] = queries[e] - 1] /\ queries[e] > 0
    BY DEF messageVars
  <2>4. queue[e] \in Nat /\ queries[e] \in Nat
    BY <2>1
  <2>5. (queue[e] > 0 => queue[e] - 1 \in Nat) /\ (queries[e] > 0 => queries[e] - 1 \in Nat)
    BY <2>4
  <2> QED
    BY <2>1, <2>2, <2>3, <2>4, <2>5
<1>3. running' \in {running, e, NoOne}
  OBVIOUS
<1>4. TypeOK'
  <2>1. running' \in Endpoints \cup {NoOne} /\ broken' \in BOOLEAN
    BY <1>1, <1>3 DEF IInv, TypeOK
  <2> QED
    BY <1>1, <1>2, <2>1 DEF IInv, TypeOK, nodeVars, dataVars
<1>5. \A x \in Endpoints : Live(x)' <=> Live(x)
  BY <1>1 DEF Live, dataVars
<1>6. CountInv'
  <2>1. UNCHANGED <<nodeVars, owner>> /\ slips \subseteq slips'
    BY <1>1 DEF dataVars
  <2> QED
    BY <1>5, <2>1, Quiet
<1>7. OwnerInv' /\ DeclaredInv'
  BY <1>1, <1>5 DEF IInv, DataInv, OwnerInv, DeclaredInv, CallbacksHaveContext, dataVars
<1>8. QueueInv'
  <2>1. ASSUME queue'[e] > 0 PROVE Live(e) /\ Kind[e] # "Publisher"
    <3>1. CASE queue[e] > 0
      BY <3>1 DEF IInv, DataInv, QueueInv
    <3>2. CASE ~(queue[e] > 0)
      <4>1. HandlerEnd(e) /\ Live(e)
        BY <2>1, <3>2 DEF messageVars
      <4>2. running = e /\ e # NoOne
        BY <4>1, NoOneAssumption
      <4> QED
        BY <4>1, <4>2 DEF IInv, DataInv, RunningInv
    <3> QED
      BY <3>1, <3>2
  <2> QED
    BY <1>1, <1>2, <1>5, <2>1 DEF IInv, DataInv, QueueInv
<1>9. RunningInv'
  <2>1. ASSUME running' = e
        PROVE  Kind[e] # "Publisher" /\ (slips = {} => life[e] \in {"declaring", "open"})
    <3>0. e # NoOne
      BY NoOneAssumption
    <3>1. CASE running = e
      BY <3>0, <3>1 DEF IInv, DataInv, RunningInv
    <3>2. CASE SubscriptionHandlerStart(e) \/ RequestHandlerStart(e)
      BY <3>2 DEF IInv, DataInv, DeclaredInv, CallbacksHaveContext, Uncounted
    <3>3. CASE ReplyStart(e)
      BY <3>3 DEF IInv, DataInv, RunningInv
    <3> QED
      BY <2>1, <3>0, <3>1, <3>2, <3>3
  <2>2. ASSUME queries'[e] > 0
        PROVE  Kind[e] = "Client" /\ (slips = {} => life[e] = "open")
    <3>1. CASE queries[e] > 0
      BY <3>1 DEF IInv, DataInv, RunningInv
    <3>2. CASE ~(queries[e] > 0)
      <4>1. SendRequest(e)
        BY <2>2, <3>2 DEF messageVars
      <4> QED
        BY <4>1
    <3> QED
      BY <3>1, <3>2
  <2>3. running' # NoOne => running' \in {running, e}
    BY <1>3
  <2>4. life' = life /\ slips' = slips
    BY <1>1 DEF dataVars
  <2>5. running' # NoOne =>
            Kind[running'] # "Publisher" /\ (slips = {} => life[running'] \in {"declaring", "open"})
    BY <2>1, <2>3 DEF IInv, DataInv, RunningInv
  <2>6. \A x \in Endpoints : queries'[x] > 0 =>
            Kind[x] = "Client" /\ (slips = {} => life[x] = "open")
    BY <1>2, <2>2 DEF IInv, DataInv, RunningInv
  <2> QED
    BY <2>4, <2>5, <2>6 DEF RunningInv
<1>10. UndefinedOnlyAfterSlip'
  <2>1. ASSUME broken' # broken PROVE slips # {}
    <3>1. running = e /\ ~Live(e) /\ e # NoOne
      BY <1>1, <2>1, NoOneAssumption
    <3> QED
      BY <3>1 DEF IInv, DataInv, RunningInv, Live
  <2> QED
    BY <1>1, <2>1 DEF UndefinedOnlyAfterSlip, Sound, nodeVars
<1> QED
  BY <1>4, <1>6, <1>7, <1>8, <1>9, <1>10 DEF IInv, DataInv

-----------------------------------------------------------------------------
(* The theorems.                                                           *)

\* Every step keeps the invariant.
LEMMA StepInv == IInv /\ [Next]_vars => IInv'
<1> SUFFICES ASSUME IInv, [Next]_vars PROVE IInv'
  OBVIOUS
<1>1. CASE UNCHANGED vars
  <2> USE <1>1 DEF vars
  <2>1. TypeOK'
    BY DEF IInv, TypeOK
  <2>2. CountInv'
    <3>1. \A n \in Nodes : Members(n)' = Members(n) /\ Holders(n)' = Holders(n)
      BY DEF Members, Holders, Live
    <3>2. \A n \in Nodes : NodeRefs(n)' <=> NodeRefs(n)
      BY <3>1 DEF NodeRefs
    <3> QED
      BY <3>2 DEF IInv, CountInv, Sound
  <2>3. DataInv'
    BY DataFrame DEF IInv, dataVars, messageVars
  <2>4. UndefinedOnlyAfterSlip'
    BY DEF IInv, UndefinedOnlyAfterSlip, Sound
  <2> QED
    BY <2>1, <2>2, <2>3, <2>4 DEF IInv
<1>2. CASE Next
  <2>1. Sound
    BY <1>2 DEF Next
  <2>2. CASE \E n \in Nodes : NodeStep(n)
    <3>1. PICK n \in Nodes : NodeStep(n)
      BY <2>2
    <3>2. CASE CreateNode(n) \/ DestroyNode(n)
      BY <2>1, <3>2, CreateNodeInv, DestroyNodeInv
    <3>3. ASSUME NEW garbage \in BOOLEAN, NEW stage, CreateNodeFails(n, stage, garbage)
          PROVE  IInv'
      BY <2>1, <3>3, CreateNodeFailsInv
    <3> QED
      BY <3>1, <3>2, <3>3 DEF NodeStep
  <2>3. CASE \E e \in Endpoints, n \in Nodes : CreationStep(e, n)
    BY <2>1, <2>3, DeclareInv, DeclarationFailures, LateFailure, EarlyFailures
       DEF CreationStep
  <2>4. CASE \E e \in Endpoints : EndpointStep(e)
    <3>1. PICK e \in Endpoints : EndpointStep(e)
      BY <2>4
    <3> QED
      BY <2>1, <3>1, LifeInv, DestroyDataInv, UseInv DEF EndpointStep
  <2> QED
    BY <1>2, <2>2, <2>3, <2>4 DEF Next
<1> QED
  BY <1>1, <1>2

\* The invariant holds in every state, whatever is created, destroyed or fails in what order.
THEOREM Invariance == Spec => []IInv
<1>1. Init => IInv
  BY InitInv
<1>2. IInv /\ [Next]_vars => IInv'
  BY StepInv
<1> QED
  BY <1>1, <1>2, PTL DEF Spec

\* Every variable keeps its type.
THEOREM TypeCorrect == Spec => []TypeOK
BY Invariance, PTL DEF IInv

\* The counts of nodes and node information are what holds them, put out only by the
\* references that error paths and services remember wrongly (rmw_service.c:168,
\* rmw_publisher.c:98-112).
THEOREM CountsAreReferences == Spec => []ReferencesAreCounted
<1>1. IInv => ReferencesAreCounted
  <2> SUFFICES ASSUME IInv, Sound, NEW n \in Nodes
               PROVE  /\ mem[n].ref + surplus[n] = (IF n \in handle THEN 1 ELSE 0)
                                                 + Cardinality(Holders(n)) + clones[n]
                      /\ mem[n].info + doubled[n] = (IF mem[n].ref > 0 THEN 1 ELSE 0)
                                                    + Cardinality(Members(n))
    BY DEF ReferencesAreCounted
  <2>1. NodeRefs(n)
    BY DEF IInv, CountInv
  <2>2. mem[n].info \in Nat /\ doubled[n] \in Nat /\ Cardinality(Members(n)) \in Nat
    BY MembersFinite DEF IInv, TypeOK, NodeMemory
  <2> DEFINE d == IF mem[n].ref > 0 THEN 1 ELSE 0
  <2>3. mem[n].info - d + doubled[n] = Cardinality(Members(n)) /\ d \in Nat
    BY <2>1 DEF NodeRefs, Extra
  <2> HIDE DEF d
  <2>4. mem[n].info + doubled[n] = d + Cardinality(Members(n))
    BY <2>2, <2>3
  <2> QED
    BY <2>1, <2>4 DEF NodeRefs, d
<1> QED
  BY <1>1, Invariance, PTL

\* Without a slip nothing that was freed is used.
THEOREM SoundWithoutSlip == Spec => []UndefinedOnlyAfterSlip
BY Invariance, PTL DEF IInv

\* A callback that zenoh may call has the data it was declared with.
THEOREM ContextsLive == Spec => []CallbacksHaveContext
BY Invariance, PTL DEF IInv, DataInv, DeclaredInv

\* The graph shows the endpoints that are open and the nodes whose data lives.
THEOREM TokensAreTrue == Spec => []TokensFollowData
<1>1. IInv => TokensFollowData
  <2> SUFFICES ASSUME IInv PROVE TokensFollowData
    OBVIOUS
  <2>1. \A e \in announced : life[e] = "open" /\ e \in declared
    BY DEF IInv, DataInv, DeclaredInv
  <2>2. Sound => \A n \in Nodes : mem[n].announced <=> mem[n].ref > 0
    BY DEF IInv, CountInv, NodeRefs
  <2> QED
    BY <2>1, <2>2 DEF TokensFollowData
<1> QED
  BY <1>1, Invariance, PTL

\* A program that slips nowhere leaves nothing behind but messages of its subscriptions.
THEOREM NothingIsLeft == Spec => []AllGivenBack
<1>1. IInv => AllGivenBack
  <2> SUFFICES ASSUME IInv, handle = {}, slips = {}, \A e \in Endpoints : ~Live(e)
               PROVE  /\ \A n \in Nodes : mem[n].ref = 0 /\ mem[n].info = 0
                      /\ declared = {} /\ announced = {}
                      /\ \A e \in Endpoints : queue[e] = 0 /\ (e \in lost => Kind[e] = "Subscription")
    BY DEF AllGivenBack
  <2>1. Sound
    BY DEF IInv, UndefinedOnlyAfterSlip
  <2>2. ASSUME NEW n \in Nodes PROVE mem[n].ref = 0 /\ mem[n].info = 0
    <3>1. Members(n) = {} /\ Holders(n) = {}
      BY DEF Members, Holders
    <3>2. Cardinality(Members(n)) = 0 /\ Cardinality(Holders(n)) = 0
      BY <3>1, FS_EmptySet
    <3>3. NodeRefs(n) /\ surplus[n] = 0 /\ doubled[n] = 0 /\ clones[n] = 0
      BY <2>1 DEF IInv, CountInv
    <3>4. mem[n].ref \in Nat /\ mem[n].info \in Nat
      BY DEF IInv, TypeOK, NodeMemory
    <3>5. mem[n].ref = 0
      BY <3>2, <3>3, <3>4 DEF NodeRefs
    <3>6. Extra(mem[n]) + 0 = 0
      BY <3>2, <3>3 DEF NodeRefs
    <3> QED
      BY <3>4, <3>5, <3>6 DEF Extra
  <2>3. declared = {}
    BY DEF IInv, TypeOK, DataInv, DeclaredInv, CallbacksHaveContext, Live
  <2>4. announced = {}
    BY <2>3 DEF IInv, DataInv, DeclaredInv
  <2>5. \A e \in Endpoints : queue[e] = 0 /\ (e \in lost => Kind[e] = "Subscription")
    BY DEF IInv, TypeOK, DataInv, QueueInv
  <2> QED
    BY <2>2, <2>3, <2>4, <2>5
<1> QED
  BY <1>1, Invariance, PTL

=============================================================================
