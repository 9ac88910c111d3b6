----------------------------- MODULE SeqRemoval -----------------------------
(***************************************************************************)
(* Lemmas on sequences from whose middle an element is removed: the queues *)
(* of a service and the lists behind them.                                 *)
(***************************************************************************)
EXTENDS Naturals, Sequences, SequencesExt, SequenceTheorems, FiniteSetTheorems, TLAPS

\* RemoveAt closes the gap it leaves.
LEMMA RemoveAtProperties ==
    ASSUME NEW S, NEW s \in Seq(S), NEW i \in 1..Len(s)
    PROVE  /\ RemoveAt(s, i) \in Seq(S)
           /\ Len(RemoveAt(s, i)) = Len(s) - 1
           /\ \A j \in 1..(Len(s) - 1) :
                 RemoveAt(s, i)[j] = IF j < i THEN s[j] ELSE s[j + 1]
<1> DEFINE a == SubSeq(s, 1, i - 1)
           b == SubSeq(s, i + 1, Len(s))
<1>1. /\ a \in Seq(S) /\ Len(a) = i - 1
      /\ \A j \in 1..(i - 1) : a[j] = s[j]
  OBVIOUS
<1>2. /\ b \in Seq(S) /\ Len(b) = Len(s) - i
      /\ \A j \in 1..(Len(s) - i) : b[j] = s[i + j]
  OBVIOUS
<1>3. RemoveAt(s, i) = a \o b
  BY DEF RemoveAt
<1> HIDE DEF a, b
<1>4. /\ a \o b \in Seq(S) /\ Len(a \o b) = Len(s) - 1
      /\ \A j \in 1..(Len(s) - 1) :
            (a \o b)[j] = IF j <= i - 1 THEN a[j] ELSE b[j - (i - 1)]
  <2>1. Len(a) + Len(b) = Len(s) - 1
    BY <1>1, <1>2
  <2>2. /\ a \o b \in Seq(S) /\ Len(a \o b) = Len(a) + Len(b)
        /\ \A j \in 1..(Len(a) + Len(b)) :
              (a \o b)[j] = IF j <= Len(a) THEN a[j] ELSE b[j - Len(a)]
    BY <1>1, <1>2, ConcatProperties
  <2> QED
    BY <1>1, <2>1, <2>2
<1>5. \A j \in 1..(Len(s) - 1) : (a \o b)[j] = IF j < i THEN s[j] ELSE s[j + 1]
  <2> SUFFICES ASSUME NEW j \in 1..(Len(s) - 1)
               PROVE  (a \o b)[j] = IF j < i THEN s[j] ELSE s[j + 1]
    OBVIOUS
  <2>1. CASE j < i
    BY <2>1, <1>1, <1>4
  <2>2. CASE ~(j < i)
    <3>1. j - (i - 1) \in 1..(Len(s) - i) /\ i + (j - (i - 1)) = j + 1
      BY <2>2
    <3> QED
      BY <2>2, <3>1, <1>2, <1>4
  <2> QED
    BY <2>1, <2>2
<1> QED
  BY <1>3, <1>4, <1>5

\* What Append and Tail do to the elements of a sequence.
LEMMA ElementsAfterAppend ==
    ASSUME NEW S, NEW s \in Seq(S), NEW e \in S
    PROVE  ToSet(Append(s, e)) = ToSet(s) \cup {e}
<1>1. ToSet(s) = {s[i] : i \in 1..Len(s)}
  BY DEF ToSet
<1>2. ToSet(Append(s, e)) = {Append(s, e)[i] : i \in 1..(Len(s) + 1)}
  BY DEF ToSet
<1>3. /\ \A i \in 1..Len(s) : Append(s, e)[i] = s[i] /\ i \in 1..(Len(s) + 1)
      /\ Append(s, e)[Len(s) + 1] = e /\ Len(s) + 1 \in 1..(Len(s) + 1)
      /\ \A i \in 1..(Len(s) + 1) : i \in 1..Len(s) \/ i = Len(s) + 1
  OBVIOUS
<1> QED
  BY <1>1, <1>2, <1>3, Zenon

\* Tail brings no element that was not there.
LEMMA ElementsAfterTail ==
    ASSUME NEW S, NEW s \in Seq(S), s # <<>>
    PROVE  ToSet(Tail(s)) \subseteq ToSet(s)
<1>1. ToSet(s) = {s[i] : i \in 1..Len(s)}
  BY DEF ToSet
<1>2. Len(Tail(s)) = Len(s) - 1 /\ Tail(s) \in Seq(S)
  BY HeadTailProperties
<1>3. ToSet(Tail(s)) = {Tail(s)[i] : i \in 1..(Len(s) - 1)}
  <2>1. DOMAIN Tail(s) = 1..(Len(s) - 1)
    BY <1>2
  <2> QED
    BY <2>1 DEF ToSet
<1>4. \A i \in 1..(Len(s) - 1) : Tail(s)[i] = s[i + 1] /\ i + 1 \in 1..Len(s)
  BY HeadTailProperties
<1> QED
  BY <1>1, <1>3, <1>4

-----------------------------------------------------------------------------
(* Sequences in which no element stands twice.                             *)

\* An element that was not there may be appended.
LEMMA InjectiveAppend ==
    ASSUME NEW S, NEW s \in Seq(S), NEW e \in S, IsInjective(s), e \notin ToSet(s)
    PROVE  IsInjective(Append(s, e))
<1> DEFINE t == Append(s, e)
<1>1. DOMAIN t = 1..(Len(s) + 1) /\ Len(s) \in Nat /\ DOMAIN s = 1..Len(s)
      /\ t[Len(s) + 1] = e /\ \A i \in 1..Len(s) : t[i] = s[i]
  OBVIOUS
<1>2. \A i \in 1..Len(s) : s[i] # e
  BY <1>1 DEF ToSet
<1> HIDE DEF t
<1>3. ASSUME NEW i \in DOMAIN t, NEW j \in DOMAIN t, t[i] = t[j] PROVE i = j
  <2>1. (i \in 1..Len(s) \/ i = Len(s) + 1) /\ (j \in 1..Len(s) \/ j = Len(s) + 1)
    BY <1>1
  <2> QED
    BY <1>1, <1>2, <1>3, <2>1 DEF IsInjective
<1> QED
  BY <1>3 DEF IsInjective, t

\* What leaves from position i, and only that, is no longer there.
LEMMA InjectiveRemoval ==
    ASSUME NEW S, NEW s \in Seq(S), NEW i \in 1..Len(s), IsInjective(s)
    PROVE  IsInjective(RemoveAt(s, i)) /\ ToSet(RemoveAt(s, i)) = ToSet(s) \ {s[i]}
<1> DEFINE t == RemoveAt(s, i)
           at(j) == IF j < i THEN j ELSE j + 1
           back(o) == IF o < i THEN o ELSE o - 1
<1>1. /\ t \in Seq(S) /\ Len(t) = Len(s) - 1 /\ Len(s) \in Nat /\ DOMAIN s = 1..Len(s)
      /\ \A j \in 1..(Len(s) - 1) : t[j] = IF j < i THEN s[j] ELSE s[j + 1]
  BY RemoveAtProperties
<1> HIDE DEF t
<1>2. DOMAIN t = 1..(Len(s) - 1)
  BY <1>1
<1>3. /\ \A j \in DOMAIN t : at(j) \in DOMAIN s /\ at(j) # i /\ t[j] = s[at(j)]
      /\ \A j, o \in DOMAIN t : at(j) = at(o) => j = o
  BY <1>1, <1>2
<1>4. \A o \in DOMAIN s \ {i} : back(o) \in DOMAIN t /\ at(back(o)) = o
  BY <1>1, <1>2
<1> HIDE DEF at, back
<1>5. IsInjective(t)
  BY <1>3 DEF IsInjective
<1>6. ASSUME NEW x \in ToSet(t) PROVE x \in ToSet(s) \ {s[i]}
  <2>1. PICK j \in DOMAIN t : x = t[j]
    BY DEF ToSet
  <2>2. x = s[at(j)] /\ at(j) \in DOMAIN s /\ s[at(j)] # s[i]
    BY <1>1, <1>3, <2>1 DEF IsInjective
  <2> QED
    BY <2>2 DEF ToSet
<1>7. ASSUME NEW x \in ToSet(s) \ {s[i]} PROVE x \in ToSet(t)
  <2>1. PICK o \in DOMAIN s : x = s[o] /\ o # i
    BY DEF ToSet
  <2>2. back(o) \in DOMAIN t /\ t[back(o)] = x
    BY <1>3, <1>4, <2>1
  <2> QED
    BY <2>2 DEF ToSet
<1> QED
  BY <1>5, <1>6, <1>7 DEF t

\* Tail is the removal of the first element.
LEMMA TailIsRemoval ==
    ASSUME NEW S, NEW s \in Seq(S), s # <<>>
    PROVE  /\ 1 \in 1..Len(s) /\ s[1] = Head(s) /\ Head(s) \in S /\ Tail(s) \in Seq(S)
           /\ Tail(s) = RemoveAt(s, 1)
<1>1. /\ 1 \in 1..Len(s) /\ s[1] = Head(s) /\ Head(s) \in S /\ Tail(s) \in Seq(S)
      /\ Len(Tail(s)) = Len(s) - 1 /\ \A i \in 1..(Len(s) - 1) : Tail(s)[i] = s[i + 1]
  BY HeadTailProperties, SMTT(30)
<1> DEFINE t == Tail(s)
           r == RemoveAt(s, 1)
<1>2. /\ r \in Seq(S) /\ Len(r) = Len(s) - 1
      /\ \A j \in 1..(Len(s) - 1) : r[j] = IF j < 1 THEN s[j] ELSE s[j + 1]
  BY <1>1, RemoveAtProperties
<1> HIDE DEF r, t
<1>3. t \in Seq(S) /\ Len(t) = Len(r) /\ \A j \in 1..Len(t) : t[j] = r[j]
  <2>1. t \in Seq(S) /\ Len(t) = Len(s) - 1 /\ \A j \in 1..(Len(s) - 1) : t[j] = s[j + 1]
    BY <1>1 DEF t
  <2>2. \A j \in 1..(Len(s) - 1) : ~(j < 1)
    OBVIOUS
  <2> QED
    BY <1>2, <2>1, <2>2
<1>4. t = r
  BY <1>2, <1>3, SeqEqual
<1> QED
  BY <1>1, <1>4 DEF t, r

-----------------------------------------------------------------------------
(* How often elements of a set occur.                                      *)

\* The positions of a sequence that hold an element of T.
Places(s, T) == {i \in DOMAIN s : s[i] \in T}

\* The places can be counted.
LEMMA PlacesAreFinite ==
    ASSUME NEW S, NEW s \in Seq(S), NEW T
    PROVE  IsFiniteSet(Places(s, T)) /\ Cardinality(Places(s, T)) \in Nat
<1>1. Places(s, T) \in SUBSET (1..Len(s))
  BY DEF Places
<1>2. IsFiniteSet(1..Len(s))
  BY FS_Interval
<1>3. IsFiniteSet(Places(s, T))
  BY <1>1, <1>2, FS_Subset
<1> QED
  BY <1>3, FS_CardinalityType

\* Appending an element adds a place at most, and does so if it is in T.
LEMMA PlacesAfterAppend ==
    ASSUME NEW S, NEW s \in Seq(S), NEW e \in S, NEW T
    PROVE  Cardinality(Places(Append(s, e), T)) =
              Cardinality(Places(s, T)) + (IF e \in T THEN 1 ELSE 0)
<1>1. Places(Append(s, e), T) =
         IF e \in T THEN Places(s, T) \cup {Len(s) + 1} ELSE Places(s, T)
  BY DEF Places
<1>2. Len(s) + 1 \notin Places(s, T)
  BY DEF Places
<1>3. IsFiniteSet(Places(s, T)) /\ Cardinality(Places(s, T)) \in Nat
  BY PlacesAreFinite
<1>4. CASE e \in T
  <2>1. Cardinality(Places(s, T) \cup {Len(s) + 1}) = Cardinality(Places(s, T)) + 1
    BY <1>2, <1>3, FS_AddElement
  <2> QED
    BY <1>1, <1>4, <2>1
<1>5. CASE e \notin T
  BY <1>1, <1>3, <1>5
<1> QED
  BY <1>4, <1>5

\* Removing an element takes away its place, if it had one, and only that.
LEMMA PlacesAfterRemoval ==
    ASSUME NEW S, NEW s \in Seq(S), NEW i \in 1..Len(s), NEW T
    PROVE  Cardinality(Places(RemoveAt(s, i), T)) =
              Cardinality(Places(s, T)) - (IF s[i] \in T THEN 1 ELSE 0)
<1> DEFINE q == RemoveAt(s, i)
           A == Places(s, T) \ {i}
           B == Places(q, T)
           f == [j \in A |-> IF j < i THEN j ELSE j - 1]
<1>1. /\ q \in Seq(S) /\ Len(q) = Len(s) - 1
      /\ \A j \in 1..(Len(s) - 1) : q[j] = IF j < i THEN s[j] ELSE s[j + 1]
  BY RemoveAtProperties
<1>2. A = {j \in 1..Len(s) : s[j] \in T /\ j # i}
  BY DEF Places
<1> HIDE DEF q
<1>3. B = {j \in 1..(Len(s) - 1) : q[j] \in T}
  BY <1>1 DEF Places
<1> HIDE DEF A, B
<1>4. \A j \in A : f[j] \in B
  <2> SUFFICES ASSUME NEW j \in A PROVE f[j] \in B
    OBVIOUS
  <2>1. CASE j < i
    BY <2>1, <1>1, <1>2, <1>3
  <2>2. CASE ~(j < i)
    <3>1. j - 1 \in 1..(Len(s) - 1) /\ ~(j - 1 < i) /\ (j - 1) + 1 = j
      BY <2>2, <1>2
    <3> QED
      BY <2>2, <3>1, <1>1, <1>2, <1>3
  <2> QED
    BY <2>1, <2>2
<1>5. \A j, k \in A : f[j] = f[k] => j = k
  BY <1>2
<1>6. \A k \in B : \E j \in A : f[j] = k
  <2> SUFFICES ASSUME NEW k \in B PROVE \E j \in A : f[j] = k
    OBVIOUS
  <2>1. CASE k < i
    <3>1. k \in A
      BY <2>1, <1>1, <1>2, <1>3
    <3> QED
      BY <2>1, <3>1
  <2>2. CASE ~(k < i)
    <3>1. k + 1 \in A /\ ~(k + 1 < i) /\ (k + 1) - 1 = k
      BY <2>2, <1>1, <1>2, <1>3
    <3> QED
      BY <3>1
  <2> QED
    BY <2>1, <2>2
<1>7. ExistsBijection(A, B)
  <2>1. f \in [A -> B]
    BY <1>4
  <2> HIDE DEF f
  <2>2. f \in Bijection(A, B)
    BY <2>1, <1>5, <1>6 DEF Bijection, Injection, Surjection, IsInjective
  <2> QED
    BY <2>2 DEF ExistsBijection
<1>8. IsFiniteSet(Places(s, T)) /\ Cardinality(Places(s, T)) \in Nat
  BY PlacesAreFinite
<1>9. /\ IsFiniteSet(A)
      /\ Cardinality(A) = IF i \in Places(s, T) THEN Cardinality(Places(s, T)) - 1
                          ELSE Cardinality(Places(s, T))
  BY <1>8, FS_RemoveElement DEF A
<1>10. Cardinality(B) = Cardinality(A)
  BY <1>7, <1>9, FS_Bijection
<1>11. i \in Places(s, T) <=> s[i] \in T
  BY DEF Places
<1> QED
  BY <1>8, <1>9, <1>10, <1>11 DEF B, q

-----------------------------------------------------------------------------
(* Two sequences one after the other, as a pair of queues.                 *)

\* The element at the front of v moves to the end of u.
LEMMA MoveAcross ==
    ASSUME NEW S, NEW u \in Seq(S), NEW v \in Seq(S), v # <<>>
    PROVE  Append(u, Head(v)) \o Tail(v) = u \o v
<1> DEFINE x == Append(u, Head(v))
           w == Tail(v)
<1>1. /\ x \in Seq(S) /\ Len(x) = Len(u) + 1 /\ x[Len(u) + 1] = v[1]
      /\ \A i \in 1..Len(u) : x[i] = u[i]
  <2>1. Head(v) \in S /\ Head(v) = v[1]
    BY HeadTailProperties
  <2> QED
    BY <2>1
<1>2. /\ w \in Seq(S) /\ Len(w) = Len(v) - 1
      /\ \A i \in 1..(Len(v) - 1) : w[i] = v[i + 1]
  BY HeadTailProperties
<1> HIDE DEF x, w
<1>3. /\ x \o w \in Seq(S) /\ Len(x \o w) = Len(x) + Len(w)
      /\ \A i \in 1..(Len(x) + Len(w)) :
            (x \o w)[i] = IF i <= Len(x) THEN x[i] ELSE w[i - Len(x)]
  BY <1>1, <1>2, ConcatProperties
<1>4. /\ u \o v \in Seq(S) /\ Len(u \o v) = Len(u) + Len(v)
      /\ \A i \in 1..(Len(u) + Len(v)) :
            (u \o v)[i] = IF i <= Len(u) THEN u[i] ELSE v[i - Len(u)]
  BY ConcatProperties
<1>5. Len(x \o w) = Len(u \o v)
  BY <1>1, <1>2, <1>3, <1>4
<1>6. \A i \in 1..(Len(u) + Len(v)) : (x \o w)[i] = (u \o v)[i]
  <2> SUFFICES ASSUME NEW i \in 1..(Len(u) + Len(v)) PROVE (x \o w)[i] = (u \o v)[i]
    OBVIOUS
  <2>1. CASE i <= Len(u)
    BY <2>1, <1>1, <1>2, <1>3, <1>4
  <2>2. CASE i = Len(u) + 1
    BY <2>2, <1>1, <1>2, <1>3, <1>4
  <2>3. CASE i > Len(u) + 1
    <3>1. i - Len(x) \in 1..(Len(v) - 1) /\ (i - Len(x)) + 1 = i - Len(u)
      BY <2>3, <1>1
    <3>2. (x \o w)[i] = w[i - Len(x)]
      BY <2>3, <1>1, <1>2, <1>3
    <3>3. w[i - Len(x)] = v[i - Len(u)]
      BY <3>1, <1>2
    <3>4. (u \o v)[i] = v[i - Len(u)]
      BY <2>3, <1>4
    <3> QED
      BY <3>2, <3>3, <3>4
  <2>4. i <= Len(u) \/ i = Len(u) + 1 \/ i > Len(u) + 1
    OBVIOUS
  <2> QED
    BY <2>1, <2>2, <2>3, <2>4, Zenon
<1> QED
  BY <1>3, <1>4, <1>5, <1>6, SeqEqual DEF x, w

\* An element of u leaves.
LEMMA RemovalInFront ==
    ASSUME NEW S, NEW u \in Seq(S), NEW v \in Seq(S), NEW i \in 1..Len(u)
    PROVE  RemoveAt(u, i) \o v = RemoveAt(u \o v, i)
<1> DEFINE x == RemoveAt(u, i)
           c == u \o v
           y == RemoveAt(c, i)
<1>1. /\ x \in Seq(S) /\ Len(x) = Len(u) - 1
      /\ \A j \in 1..(Len(u) - 1) : x[j] = IF j < i THEN u[j] ELSE u[j + 1]
  BY RemoveAtProperties
<1>2. /\ c \in Seq(S) /\ Len(c) = Len(u) + Len(v)
      /\ \A j \in 1..(Len(u) + Len(v)) :
            c[j] = IF j <= Len(u) THEN u[j] ELSE v[j - Len(u)]
  BY ConcatProperties
<1>3. i \in 1..Len(c)
  BY <1>2
<1>4. /\ y \in Seq(S) /\ Len(y) = Len(c) - 1
      /\ \A j \in 1..(Len(c) - 1) : y[j] = IF j < i THEN c[j] ELSE c[j + 1]
  BY <1>2, <1>3, RemoveAtProperties
<1> HIDE DEF x, c, y
<1>5. /\ x \o v \in Seq(S) /\ Len(x \o v) = Len(x) + Len(v)
      /\ \A j \in 1..(Len(x) + Len(v)) :
            (x \o v)[j] = IF j <= Len(x) THEN x[j] ELSE v[j - Len(x)]
  BY <1>1, ConcatProperties
<1>6. Len(x \o v) = Len(y)
  BY <1>1, <1>2, <1>4, <1>5
<1>7. \A j \in 1..Len(y) : (x \o v)[j] = y[j]
  <2> SUFFICES ASSUME NEW j \in 1..Len(y) PROVE (x \o v)[j] = y[j]
    OBVIOUS
  <2>1. CASE j <= Len(x)
    BY <2>1, <1>1, <1>2, <1>4, <1>5
  <2>2. CASE j > Len(x)
    <3>1. j + 1 \in 1..(Len(u) + Len(v)) /\ ~(j + 1 <= Len(u)) /\ ~(j < i)
      BY <2>2, <1>1, <1>2, <1>4
    <3>2. (j + 1) - Len(u) = j - Len(x)
      BY <1>1
    <3> QED
      BY <2>2, <3>1, <3>2, <1>1, <1>2, <1>4, <1>5
  <2>3. Len(x) \in Nat /\ j \in Nat
    BY <1>1, <1>4
  <2>4. j <= Len(x) \/ j > Len(x)
    BY <2>3
  <2> QED
    BY <2>1, <2>2, <2>4, Zenon
<1> QED
  BY <1>4, <1>5, <1>6, <1>7, SeqEqual DEF x, c, y

-----------------------------------------------------------------------------
(* Sequences in an order.                                                  *)

Ordered(q, R) == \A i, j \in DOMAIN q : i < j => <<q[i], q[j]>> \in R

\* An element that comes after all the others goes to the end.
LEMMA OrderedAfterAppend ==
    ASSUME NEW S, NEW q \in Seq(S), NEW e \in S, NEW R, Ordered(q, R),
           \A a \in ToSet(q) : <<a, e>> \in R
    PROVE  Ordered(Append(q, e), R)
<1> DEFINE t == Append(q, e)
<1>1. /\ Len(q) \in Nat /\ DOMAIN q = 1..Len(q) /\ DOMAIN t = 1..(Len(q) + 1)
      /\ t[Len(q) + 1] = e /\ \A i \in 1..Len(q) : t[i] = q[i]
  OBVIOUS
<1>2. \A i \in 1..Len(q) : <<q[i], e>> \in R
  BY <1>1 DEF ToSet
<1> HIDE DEF t
<1>3. ASSUME NEW i \in DOMAIN t, NEW j \in DOMAIN t, i < j PROVE <<t[i], t[j]>> \in R
  <2>1. i \in 1..Len(q) /\ (j \in 1..Len(q) \/ j = Len(q) + 1)
    BY <1>1, <1>3
  <2>2. CASE j \in 1..Len(q)
    BY <1>1, <1>3, <2>1, <2>2 DEF Ordered
  <2>3. CASE j = Len(q) + 1
    BY <1>1, <1>2, <2>1, <2>3
  <2> QED
    BY <2>1, <2>2, <2>3
<1> QED
  BY <1>3 DEF Ordered, t

\* The head comes before all the others.
LEMMA OrderedAfterTail ==
    ASSUME NEW S, NEW q \in Seq(S), NEW R, Ordered(q, R), q # <<>>
    PROVE  /\ Ordered(Tail(q), R)
           /\ \A b \in ToSet(Tail(q)) : <<Head(q), b>> \in R
           /\ ToSet(q) = {Head(q)} \cup ToSet(Tail(q))
<1> DEFINE t == Tail(q)
           h == Head(q)
<1>1. /\ Len(q) \in Nat /\ DOMAIN q = 1..Len(q) /\ h = q[1] /\ 1 \in 1..Len(q)
      /\ t \in Seq(S) /\ Len(t) = Len(q) - 1
      /\ \A i \in 1..(Len(q) - 1) : t[i] = q[i + 1]
  BY HeadTailProperties
<1>2. DOMAIN t = 1..(Len(q) - 1)
  BY <1>1
<1> HIDE DEF t, h
<1>3. /\ \A i \in DOMAIN t : i + 1 \in DOMAIN q /\ 1 < i + 1 /\ t[i] = q[i + 1]
      /\ \A i \in DOMAIN q : i # 1 => i - 1 \in DOMAIN t /\ t[i - 1] = q[i]
  BY <1>1, <1>2
<1>4. Ordered(t, R)
  <2> SUFFICES ASSUME NEW i \in DOMAIN t, NEW j \in DOMAIN t, i < j PROVE <<t[i], t[j]>> \in R
    BY DEF Ordered
  <2>1. i + 1 < j + 1
    BY <1>2
  <2> QED
    BY <1>3, <2>1 DEF Ordered
<1>5. ToSet(t) = {t[i] : i \in DOMAIN t} /\ ToSet(q) = {q[i] : i \in DOMAIN q}
  BY DEF ToSet
<1>6. \A i \in DOMAIN t : <<h, t[i]>> \in R
  BY <1>1, <1>3 DEF Ordered
<1>7. \A x : x \in ToSet(q) <=> x = h \/ x \in ToSet(t)
  <2>1. \A i \in DOMAIN q : q[i] = h \/ q[i] \in ToSet(t)
    BY <1>1, <1>3, <1>5
  <2>2. h \in ToSet(q) /\ \A i \in DOMAIN t : t[i] \in ToSet(q)
    BY <1>1, <1>3, <1>5
  <2> QED
    BY <1>5, <2>1, <2>2
<1> QED
  BY <1>4, <1>5, <1>6, <1>7 DEF t, h

\* In a strict order nothing occurs twice.
LEMMA OrderedOccursOnce ==
    ASSUME NEW S, NEW q \in Seq(S), NEW R, Ordered(q, R), NEW e, <<e, e>> \notin R,
           NEW D, D = {i \in DOMAIN q : q[i] = e}
    PROVE  Cardinality(D) = IF e \in ToSet(q) THEN 1 ELSE 0
<1>1. e \in ToSet(q) <=> D # {}
  BY DEF ToSet
<1>2. ASSUME NEW i \in D, NEW j \in D PROVE i = j
  <2>1. i \in Nat /\ j \in Nat
    OBVIOUS
  <2>2. ~(i < j) /\ ~(j < i)
    BY DEF Ordered
  <2> QED
    BY <2>1, <2>2
<1>3. CASE D = {}
  BY <1>1, <1>3, FS_EmptySet
<1>4. CASE D # {}
  <2>1. PICK i : D = {i}
    BY <1>2, <1>4
  <2>2. Cardinality({i}) = 1
    BY FS_Singleton
  <2>3. Cardinality(D) = 1
    BY <2>1, <2>2
  <2> QED
    BY <1>1, <1>4, <2>3
<1> QED
  BY <1>3, <1>4

=============================================================================
