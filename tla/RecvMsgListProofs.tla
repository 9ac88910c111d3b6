-------------------------- MODULE RecvMsgListProofs --------------------------
(***************************************************************************)
(* Proofs about RecvMsgList, for any lists, messages and keys: the         *)
(* pointers of a ReceiveMessageDataList always describe the messages that  *)
(* are in it, in order, and a running pickup is where it thinks it is.     *)
(***************************************************************************)
EXTENDS RecvMsgList, SeqRemoval, SequenceTheorems, TLAPS

\* A message is at one position of one list.
Unshared == \A l1, l2 \in Lists :
              \A i \in DOMAIN order[l1], j \in DOMAIN order[l2] :
                 order[l1][i] = order[l2][j] => l1 = l2 /\ i = j

IInv == TypeOK /\ Unshared /\ ListLinked /\ ScanSound

-----------------------------------------------------------------------------
(* Sequences.                                                              *)

\* Without removes the one position at which a message stands.
LEMMA WithoutIsRemoveAt ==
    ASSUME NEW S, NEW s \in Seq(S), NEW i \in 1..Len(s),
           \A j \in 1..Len(s) : s[j] = s[i] => j = i
    PROVE  Without(s, s[i]) = RemoveAt(s, i)
<1>1. Positions(s, s[i]) = {i}
  BY DEF Positions
<1>2. (CHOOSE j \in {i} : TRUE) = i
  OBVIOUS
<1> QED
  BY <1>1, <1>2 DEF Without

-----------------------------------------------------------------------------
(* The steps.                                                              *)

\* Taking one message out of one list leaves every other message where it was.
LEMMA RemovalKeepsUnshared ==
    ASSUME TypeOK, Unshared, NEW l \in Lists, NEW i \in 1..Len(order[l]),
           order' = [order EXCEPT ![l] = RemoveAt(order[l], i)]
    PROVE  order' \in [Lists -> Seq(Msgs)] /\ Unshared'
<1> DEFINE s == order[l]
           r == RemoveAt(s, i)
<1>1. s \in Seq(Msgs) /\ order' = [order EXCEPT ![l] = r]
  BY DEF TypeOK
<1>2. /\ r \in Seq(Msgs) /\ Len(r) = Len(s) - 1
      /\ \A j \in 1..(Len(s) - 1) : r[j] = IF j < i THEN s[j] ELSE s[j + 1]
  BY <1>1, RemoveAtProperties
<1> HIDE DEF r
<1>3. order' \in [Lists -> Seq(Msgs)]
  BY <1>1, <1>2 DEF TypeOK
<1>4. ASSUME NEW k \in Lists, NEW j \in DOMAIN order'[k]
      PROVE  \E o \in DOMAIN order[k] : /\ order'[k][j] = order[k][o]
                                        /\ k # l => o = j
                                        /\ k = l => o = IF j < i THEN j ELSE j + 1
  <2>1. CASE k # l
    BY <1>1, <2>1 DEF TypeOK
  <2>2. CASE k = l
    <3>1. order'[k] = r /\ j \in 1..(Len(s) - 1)
      BY <1>1, <1>2, <2>2, <1>4 DEF TypeOK
    <3> QED
      BY <1>1, <1>2, <2>2, <3>1
  <2> QED
    BY <2>1, <2>2
<1>5. Unshared'
  <2> SUFFICES ASSUME NEW k1 \in Lists, NEW k2 \in Lists,
                      NEW j1 \in DOMAIN order'[k1], NEW j2 \in DOMAIN order'[k2],
                      order'[k1][j1] = order'[k2][j2]
               PROVE  k1 = k2 /\ j1 = j2
    BY DEF Unshared
  <2>1. PICK o1 \in DOMAIN order[k1] : /\ order'[k1][j1] = order[k1][o1]
                                       /\ k1 # l => o1 = j1
                                       /\ k1 = l => o1 = IF j1 < i THEN j1 ELSE j1 + 1
    BY <1>4
  <2>2. PICK o2 \in DOMAIN order[k2] : /\ order'[k2][j2] = order[k2][o2]
                                       /\ k2 # l => o2 = j2
                                       /\ k2 = l => o2 = IF j2 < i THEN j2 ELSE j2 + 1
    BY <1>4
  <2>3. k1 = k2 /\ o1 = o2
    BY <2>1, <2>2 DEF Unshared
  <2>4. j1 \in Nat /\ j2 \in Nat
    BY <1>3
  <2> QED
    BY <2>1, <2>2, <2>3, <2>4
<1> QED
  BY <1>3, <1>5

\* recv_msg_list_append on an unlocked list, of a message that is in none.
LEMMA AppendStep ==
    ASSUME IInv, NEW l \in Lists, NEW m \in Msgs, NEW k \in Keys, AppendMsg(l, m, k)
    PROVE  IInv'
<1> USE NullAssumption DEF IInv
<1> DEFINE s == order[l]
<1>1. /\ s \in Seq(Msgs) /\ Append(s, m) \in Seq(Msgs)
      /\ Len(Append(s, m)) = Len(s) + 1
      /\ \A i \in 1..Len(s) : Append(s, m)[i] = s[i]
      /\ Append(s, m)[Len(s) + 1] = m
  BY DEF TypeOK
<1>2. order' = [order EXCEPT ![l] = Append(s, m)]
  BY DEF AppendMsg
<1>3. TypeOK'
  BY <1>1, <1>2 DEF TypeOK, AppendMsg, MsgOrNull
<1>4. ASSUME NEW j \in Lists, j # l PROVE order'[j] = order[j]
  BY <1>2, <1>4 DEF TypeOK
<1>5. order'[l] = Append(s, m)
  BY <1>2 DEF TypeOK
<1>6. \A j \in Lists : \A i \in DOMAIN order[j] : order[j][i] # m
  BY DEF AppendMsg, Unlinked
<1>7. Unshared'
  <2>1. ASSUME NEW j \in Lists, NEW i \in DOMAIN order'[j]
        PROVE  \/ i \in DOMAIN order[j] /\ order'[j][i] = order[j][i] /\ order[j][i] # m
               \/ j = l /\ i = Len(s) + 1 /\ order'[j][i] = m
    <3>1. CASE j # l
      BY <1>4, <1>6, <2>1, <3>1
    <3>2. CASE j = l
      <4>1. i \in 1..(Len(s) + 1)
        BY <1>1, <1>5, <2>1, <3>2
      <4>2. DOMAIN s = 1..Len(s)
        BY <1>1
      <4> QED
        BY <1>1, <1>5, <1>6, <3>2, <4>1, <4>2
    <3> QED
      BY <3>1, <3>2
  <2> SUFFICES ASSUME NEW k1 \in Lists, NEW k2 \in Lists,
                      NEW i1 \in DOMAIN order'[k1], NEW i2 \in DOMAIN order'[k2],
                      order'[k1][i1] = order'[k2][i2]
               PROVE  k1 = k2 /\ i1 = i2
    BY DEF Unshared
  <2> QED
    BY <2>1 DEF Unshared
<1>8. ASSUME NEW j \in Lists PROVE Linked(j)'
  <2>1. CASE j # l
    <3>1. /\ top'[j] = top[j] /\ bottom'[j] = bottom[j] /\ count'[j] = count[j]
      BY <2>1 DEF AppendMsg, TypeOK
    <3>2. \A i \in DOMAIN order[j] : order[j][i] # bottom[l] /\ order[j][i] # m
      BY <2>1, <1>6 DEF ListLinked, Linked, Unshared, TypeOK
    <3>3. \A i \in DOMAIN order[j] : next'[order[j][i]] = next[order[j][i]]
      BY <3>2 DEF AppendMsg, TypeOK
    <3> QED
      BY <1>4, <2>1, <3>1, <3>3 DEF ListLinked, Linked, TypeOK
  <2>2. CASE j = l
    <3>1. /\ bottom'[l] = m /\ count'[l] = Len(s) + 1
          /\ top'[l] = IF top[l] = Null THEN m ELSE top[l]
      BY <1>1 DEF AppendMsg, TypeOK, ListLinked, Linked
    <3>2. s # <<>> => /\ top[l] = s[1] /\ bottom[l] = s[Len(s)]
                      /\ s[1] \in Msgs /\ s[Len(s)] # m
      <4> SUFFICES ASSUME s # <<>> PROVE /\ top[l] = s[1] /\ bottom[l] = s[Len(s)]
                                         /\ s[1] \in Msgs /\ s[Len(s)] # m
        OBVIOUS
      <4>1. 1 \in DOMAIN s /\ Len(s) \in DOMAIN s
        BY <1>1
      <4> QED
        BY <1>1, <1>6, <4>1 DEF ListLinked, Linked
    <3>3. s = <<>> => bottom[l] = Null
      BY DEF ListLinked, Linked
    <3>4. next'[m] = Null
      BY <3>2, <3>3 DEF AppendMsg
    <3>5. \A i \in 1..Len(s) :
             next'[s[i]] = IF i = Len(s) THEN m ELSE s[i + 1]
      <4> SUFFICES ASSUME NEW i \in 1..Len(s)
                   PROVE  next'[s[i]] = IF i = Len(s) THEN m ELSE s[i + 1]
        OBVIOUS
      <4>1. s[i] \in Msgs /\ s[i] # m /\ s # <<>> /\ Len(s) \in 1..Len(s)
        BY <1>1, <1>6
      <4>2. s[i] = bottom[l] <=> i = Len(s)
        BY <1>1, <3>2, <4>1 DEF Unshared
      <4> QED
        BY <4>1, <4>2 DEF AppendMsg, ListLinked, Linked
    <3>6. top'[l] = Append(s, m)[1] /\ Append(s, m) # <<>>
      <4>1. CASE s = <<>>
        <5>1. top[l] = Null
          BY <4>1 DEF ListLinked, Linked
        <5>2. Append(s, m) = <<m>>
          BY <4>1
        <5> QED
          BY <3>1, <5>1, <5>2
      <4>2. CASE s # <<>>
        <5>1. top[l] = s[1] /\ s[1] # Null /\ 1 \in 1..Len(s)
          BY <1>1, <3>2, <4>2
        <5> QED
          BY <1>1, <3>1, <5>1
      <4> QED
        BY <4>1, <4>2
    <3>7. \A i \in 1..(Len(s) + 1) :
             next'[Append(s, m)[i]] = IF i = Len(s) + 1 THEN Null ELSE Append(s, m)[i + 1]
      <4> SUFFICES ASSUME NEW i \in 1..(Len(s) + 1)
                   PROVE  next'[Append(s, m)[i]] =
                             IF i = Len(s) + 1 THEN Null ELSE Append(s, m)[i + 1]
        OBVIOUS
      <4>1. CASE i = Len(s) + 1
        BY <1>1, <3>4, <4>1
      <4>2. CASE i \in 1..Len(s) /\ i # Len(s)
        BY <1>1, <3>5, <4>2
      <4>3. CASE i = Len(s) /\ i \in 1..Len(s)
        BY <1>1, <3>5, <4>3
      <4> QED
        BY <1>1, <4>1, <4>2, <4>3
    <3>8. Linked(l)'
      <4> DEFINE r == Append(s, m)
      <4>1. /\ r \in Seq(Msgs) /\ Len(r) = Len(s) + 1 /\ r # <<>> /\ order'[l] = r
            /\ count'[l] = Len(r) /\ top'[l] = r[1] /\ bottom'[l] = r[Len(r)]
        BY <1>1, <1>5, <3>1, <3>6
      <4>2. \A i \in 1..Len(r) : next'[r[i]] = IF i = Len(r) THEN Null ELSE r[i + 1]
        BY <4>1, <3>7
      <4> HIDE DEF r
      <4> QED
        BY <4>1, <4>2 DEF Linked
    <3> QED
      BY <2>2, <3>8
  <2> QED
    BY <2>1, <2>2
<1>9. ScanSound'
  <2> SUFFICES ASSUME NEW j \in Lists, ~Unlocked(j) PROVE Scanned(j)'
    BY DEF ScanSound, Scanned, AppendMsg, Unlocked
  <2>1. j # l /\ order'[j] = order[j] /\ before'[j] = before[j] /\ wanted'[j] = wanted[j]
    BY <1>4 DEF AppendMsg
  <2>2. \A i \in DOMAIN order[j] : key'[order[j][i]] = key[order[j][i]]
    BY <1>6 DEF AppendMsg, TypeOK
  <2>3. PICK i \in DOMAIN order[j] : /\ order[j][i] = before[j]
                                     /\ \A o \in 1..i : key[order[j][o]] # wanted[j]
    BY DEF ScanSound, Scanned
  <2>4. \A o \in 1..i : o \in DOMAIN order[j]
    BY DEF TypeOK
  <2> QED
    BY <2>1, <2>2, <2>3, <2>4 DEF Scanned
<1> QED
  BY <1>3, <1>7, <1>8, <1>9 DEF ListLinked

\* A removal at position i that relinks the neighbours keeps a list linked; the list
\* has r before and after the removal.
LEMMA RemovalKeepsLinked ==
    ASSUME TypeOK, Unshared, ListLinked, NEW l \in Lists, NEW i \in 1..Len(order[l]),
           order' = [order EXCEPT ![l] = RemoveAt(order[l], i)],
           count' = [count EXCEPT ![l] = @ - 1],
           top' = [top EXCEPT ![l] = IF i = 1 THEN next[order[l][1]] ELSE @],
           bottom' = [bottom EXCEPT ![l] =
              IF @ # order[l][i] THEN @ ELSE IF i = 1 THEN Null ELSE order[l][i - 1]],
           \A n \in Msgs : next'[n] = IF n = order[l][i] THEN Null
                                      ELSE IF i # 1 /\ n = order[l][i - 1]
                                      THEN next[order[l][i]] ELSE next[n]
    PROVE  ListLinked'
<1> DEFINE s == order[l]
           r == RemoveAt(s, i)
<1>1. s \in Seq(Msgs) /\ Len(s) \in Nat /\ i \in 1..Len(s) /\ DOMAIN s = 1..Len(s)
  BY DEF TypeOK
<1>2. /\ r \in Seq(Msgs) /\ Len(r) = Len(s) - 1
      /\ \A j \in 1..(Len(s) - 1) : r[j] = IF j < i THEN s[j] ELSE s[j + 1]
  BY <1>1, RemoveAtProperties
<1>3. order'[l] = r /\ \A j \in Lists \ {l} : order'[j] = order[j]
  BY DEF TypeOK
<1>4. \A a, b \in 1..Len(s) : s[a] = s[b] => a = b
  BY <1>1 DEF Unshared
<1>5. /\ count[l] = Len(s) /\ top[l] = s[1] /\ bottom[l] = s[Len(s)]
      /\ \A j \in 1..Len(s) : next[s[j]] = IF j = Len(s) THEN Null ELSE s[j + 1]
  BY <1>1 DEF ListLinked, Linked
<1>6. /\ count'[l] = Len(s) - 1
      /\ top'[l] = IF i = 1 THEN next[s[1]] ELSE top[l]
      /\ bottom'[l] = IF bottom[l] # s[i] THEN bottom[l]
                      ELSE IF i = 1 THEN Null ELSE s[i - 1]
  BY <1>5 DEF TypeOK
<1>7. \A j \in 1..Len(s) : s[j] \in Msgs
  BY <1>1
<1>8. \A j \in 1..Len(s) : next'[s[j]] = IF j = i THEN Null
                                         ELSE IF i # 1 /\ j = i - 1 THEN next[s[i]]
                                         ELSE next[s[j]]
  BY <1>1, <1>4, <1>7
<1>9. Linked(l)'
  <2> HIDE DEF r, s
  <2>1. bottom[l] # s[i] <=> i # Len(s)
    BY <1>1, <1>4, <1>5
  <2>2. Len(s) \in Nat /\ Len(r) = Len(s) - 1 /\ i \in Nat /\ 1 <= i /\ i <= Len(s)
    BY <1>1, <1>2
  <2>3. CASE Len(s) = 1
    <3>1. r = <<>> /\ i = 1 /\ next[s[1]] = Null
      BY <1>2, <1>5, <2>2, <2>3, EmptySeq
    <3>2. top'[l] = Null /\ bottom'[l] = Null
      BY <1>6, <2>1, <2>3, <3>1
    <3> QED
      BY <1>2, <1>3, <1>6, <2>3, <3>1, <3>2 DEF Linked
  <2>4. CASE Len(s) # 1
    <3>1. r # <<>> /\ 1 \in 1..(Len(s) - 1) /\ Len(s) - 1 \in 1..(Len(s) - 1)
      BY <1>2, <2>2, <2>4
    <3>2. top'[l] = r[1]
      <4>1. r[1] = IF 1 < i THEN s[1] ELSE s[2]
        BY <1>2, <3>1
      <4>2. next[s[1]] = s[2]
        BY <1>5, <2>2, <2>4
      <4> QED
        BY <1>5, <1>6, <2>2, <4>1, <4>2
    <3>3. bottom'[l] = r[Len(s) - 1]
      <4>1. r[Len(s) - 1] = IF Len(s) - 1 < i THEN s[Len(s) - 1] ELSE s[Len(s)]
        BY <1>2, <2>2, <3>1
      <4> QED
        BY <1>5, <1>6, <2>1, <2>2, <2>4, <4>1
    <3>4. ASSUME NEW j \in 1..(Len(s) - 1)
          PROVE  next'[r[j]] = IF j = Len(s) - 1 THEN Null ELSE r[j + 1]
      <4>1. r[j] = IF j < i THEN s[j] ELSE s[j + 1]
        BY <1>2
      <4>2. j # Len(s) - 1 => r[j + 1] = IF j + 1 < i THEN s[j + 1] ELSE s[j + 2]
        <5> SUFFICES ASSUME j # Len(s) - 1
                     PROVE  r[j + 1] = IF j + 1 < i THEN s[j + 1] ELSE s[j + 2]
          OBVIOUS
        <5>1. j + 1 \in 1..(Len(s) - 1) /\ (j + 1) + 1 = j + 2
          BY <2>2
        <5> QED
          BY <1>2, <5>1
      <4>3. CASE j < i - 1
        <5>1. j \in 1..Len(s) /\ j # Len(s) /\ j # i /\ j # i - 1 /\ j # Len(s) - 1
          BY <2>2, <4>3
        <5>2. next'[s[j]] = s[j + 1]
          BY <1>5, <1>8, <5>1
        <5> QED
          BY <2>2, <4>1, <4>2, <4>3, <5>1, <5>2
      <4>4. CASE j = i - 1
        <5>1. j \in 1..Len(s) /\ i # 1 /\ j + 1 = i /\ j + 2 = i + 1
          BY <2>2, <4>4
        <5>2. next'[s[j]] = next[s[i]]
          BY <1>8, <2>2, <4>4, <5>1
        <5>3. next[s[i]] = IF i = Len(s) THEN Null ELSE s[i + 1]
          BY <1>1, <1>5
        <5> QED
          BY <2>2, <4>1, <4>2, <4>4, <5>1, <5>2, <5>3
      <4>5. CASE j >= i
        <5>1. j + 1 \in 1..Len(s) /\ j + 1 # i /\ j + 1 # i - 1
          BY <2>2, <4>5
        <5>2. next'[s[j + 1]] = next[s[j + 1]]
          BY <1>8, <5>1
        <5>3. next[s[j + 1]] = IF j + 1 = Len(s) THEN Null ELSE s[j + 2]
          <6>1. (j + 1) + 1 = j + 2
            BY <2>2
          <6> QED
            BY <1>5, <5>1, <6>1
        <5> QED
          BY <2>2, <4>1, <4>2, <4>5, <5>2, <5>3
      <4> QED
        BY <2>2, <4>3, <4>4, <4>5
    <3> QED
      BY <1>2, <1>3, <1>6, <3>1, <3>2, <3>3, <3>4 DEF Linked
  <2> QED
    BY <2>3, <2>4
<1>10. ASSUME NEW j \in Lists, j # l PROVE Linked(j)'
  <2>1. count'[j] = count[j] /\ top'[j] = top[j] /\ bottom'[j] = bottom[j]
    BY <1>10 DEF TypeOK
  <2>2. \A o \in DOMAIN order[j] : next'[order[j][o]] = next[order[j][o]]
    <3> SUFFICES ASSUME NEW o \in DOMAIN order[j]
                 PROVE  next'[order[j][o]] = next[order[j][o]]
      OBVIOUS
    <3>1. order[j][o] \in Msgs /\ \A a \in 1..Len(s) : order[j][o] # s[a]
      BY <1>1, <1>10 DEF TypeOK, Unshared
    <3>2. i # 1 => i - 1 \in 1..Len(s)
      BY <1>1
    <3> QED
      BY <1>1, <3>1, <3>2
  <2>3. order'[j] = order[j] /\ DOMAIN order[j] = 1..Len(order[j])
    BY <1>3, <1>10 DEF TypeOK
  <2>4. Linked(j)
    BY DEF ListLinked
  <2> QED
    BY <2>1, <2>2, <2>3, <2>4 DEF Linked
<1> QED
  BY <1>9, <1>10 DEF ListLinked

\* Any step that leaves an unlocked list l alone or unlocks it, and that keeps the
\* other lists, their keys and their pickups, keeps every pickup sound.
LEMMA ScanKept ==
    ASSUME ScanSound, NEW l \in Lists, Unlocked(l)', UNCHANGED key,
           \A j \in Lists \ {l} : /\ order'[j] = order[j]
                                  /\ before'[j] = before[j] /\ wanted'[j] = wanted[j]
    PROVE  ScanSound'
<1> SUFFICES ASSUME NEW j \in Lists, j # l PROVE Scanned(j)'
  BY DEF ScanSound, Scanned
<1> QED
  BY DEF ScanSound, Scanned, Unlocked

\* The first message leaves: recv_msg_list_pop, and recv_msg_list_pickup's first round.
LEMMA UnlinkTopStep ==
    ASSUME IInv, NEW l \in Lists, Unlocked(l), top[l] # Null, UnlinkTop(l)
    PROVE  IInv'
<1> USE DEF IInv
<1>1. /\ order[l] \in Seq(Msgs) /\ order[l] # <<>> /\ top[l] = order[l][1]
      /\ count[l] = Len(order[l])
  BY DEF ListLinked, Linked, TypeOK
<1>2. 1 \in 1..Len(order[l]) /\ top[l] \in Msgs
  BY <1>1
<1>3. order' = [order EXCEPT ![l] = RemoveAt(order[l], 1)]
  BY DEF UnlinkTop
<1>4. order' \in [Lists -> Seq(Msgs)] /\ Unshared'
  BY <1>2, <1>3, RemovalKeepsUnshared
<1>5. next[top[l]] \in MsgOrNull /\ count[l] - 1 \in Nat
  BY <1>1, <1>2 DEF TypeOK
<1>6. TypeOK'
  BY <1>2, <1>4, <1>5 DEF TypeOK, UnlinkTop, MsgOrNull
<1>7. ListLinked'
  <2>1. /\ count' = [count EXCEPT ![l] = @ - 1]
        /\ top' = [top EXCEPT ![l] = IF 1 = 1 THEN next[order[l][1]] ELSE @]
        /\ \A n \in Msgs : next'[n] = IF n = order[l][1] THEN Null
                                      ELSE IF 1 # 1 /\ n = order[l][1 - 1]
                                      THEN next[order[l][1]] ELSE next[n]
    BY <1>1, <1>2 DEF UnlinkTop, TypeOK
  <2>2. bottom' = [bottom EXCEPT ![l] =
              IF @ # order[l][1] THEN @ ELSE IF 1 = 1 THEN Null ELSE order[l][1 - 1]]
    BY <1>1 DEF UnlinkTop
  <2> QED
    BY <1>2, <1>3, <2>1, <2>2, RemovalKeepsLinked
<1>8. ScanSound'
  <2>1. Unlocked(l)' /\ UNCHANGED key
    BY DEF Unlocked, UnlinkTop
  <2>2. \A j \in Lists \ {l} : /\ order'[j] = order[j]
                               /\ before'[j] = before[j] /\ wanted'[j] = wanted[j]
    BY <1>3 DEF UnlinkTop, TypeOK
  <2> QED
    BY <2>1, <2>2, ScanKept
<1> QED
  BY <1>4, <1>6, <1>7, <1>8

\* A later message leaves: the match of a recv_msg_list_pickup.
LEMMA UnlinkNextStep ==
    ASSUME IInv, NEW l \in Lists, ~Unlocked(l), next[before[l]] # Null,
           UnlinkNext(l, next[before[l]])
    PROVE  IInv'
<1> USE NullAssumption DEF IInv
<1> DEFINE s == order[l]
           m == next[before[l]]
<1>1. s \in Seq(Msgs) /\ Len(s) \in Nat /\ DOMAIN s = 1..Len(s) /\ count[l] = Len(s)
  BY DEF TypeOK, ListLinked, Linked
<1>2. PICK o \in 1..Len(s) : s[o] = before[l]
  BY <1>1 DEF ScanSound, Scanned
<1>3. o # Len(s) /\ m = s[o + 1]
  BY <1>1, <1>2 DEF ListLinked, Linked
<1> DEFINE i == o + 1
<1>4. /\ i \in 1..Len(s) /\ i # 1 /\ i - 1 = o /\ s[i] = m /\ s[i - 1] = before[l]
      /\ m \in Msgs /\ before[l] \in Msgs
  BY <1>1, <1>2, <1>3
<1>5. \A a, b \in 1..Len(s) : s[a] = s[b] => a = b
  BY <1>1 DEF Unshared
<1> HIDE DEF i
<1>6. order' = [order EXCEPT ![l] = RemoveAt(order[l], i)]
  <2>1. Without(s, s[i]) = RemoveAt(s, i)
    BY <1>1, <1>4, <1>5, WithoutIsRemoveAt
  <2> QED
    BY <1>4, <2>1 DEF UnlinkNext
<1>7. order' \in [Lists -> Seq(Msgs)] /\ Unshared'
  BY <1>4, <1>6, RemovalKeepsUnshared
<1>8. next[m] \in MsgOrNull /\ count[l] - 1 \in Nat
  BY <1>1, <1>4 DEF TypeOK
<1>9. TypeOK'
  <2>1. next' \in [Msgs -> MsgOrNull]
    BY <1>4, <1>8 DEF TypeOK, UnlinkNext, MsgOrNull
  <2>2. /\ bottom' \in [Lists -> MsgOrNull] /\ returned' \in [Lists -> MsgOrNull]
        /\ before' \in [Lists -> MsgOrNull] /\ wanted' \in [Lists -> Keys \cup {Null}]
    BY <1>4 DEF TypeOK, UnlinkNext, MsgOrNull
  <2>3. count' \in [Lists -> Nat]
    BY <1>8 DEF TypeOK, UnlinkNext
  <2> QED
    BY <1>7, <2>1, <2>2, <2>3 DEF TypeOK, UnlinkNext
<1>10. ListLinked'
  <2>1. /\ count' = [count EXCEPT ![l] = @ - 1]
        /\ top' = [top EXCEPT ![l] = IF i = 1 THEN next[order[l][1]] ELSE @]
    BY <1>4 DEF UnlinkNext, TypeOK
  <2>2. bottom' = [bottom EXCEPT ![l] =
              IF @ # order[l][i] THEN @ ELSE IF i = 1 THEN Null ELSE order[l][i - 1]]
    BY <1>4 DEF UnlinkNext
  <2>3. \A n \in Msgs : next'[n] = IF n = order[l][i] THEN Null
                                   ELSE IF i # 1 /\ n = order[l][i - 1]
                                   THEN next[order[l][i]] ELSE next[n]
    <3>1. m # before[l]
      BY <1>1, <1>2, <1>4, <1>5
    <3> QED
      BY <1>4, <3>1 DEF UnlinkNext, TypeOK
  <2> QED
    BY <1>4, <1>6, <2>1, <2>2, <2>3, RemovalKeepsLinked
<1>11. ScanSound'
  <2>1. Unlocked(l)' /\ UNCHANGED key
    BY DEF Unlocked, UnlinkNext, TypeOK
  <2>2. \A j \in Lists \ {l} : /\ order'[j] = order[j]
                               /\ before'[j] = before[j] /\ wanted'[j] = wanted[j]
    BY <1>6 DEF UnlinkNext, TypeOK
  <2> QED
    BY <2>1, <2>2, ScanKept
<1> QED
  BY <1>7, <1>9, <1>10, <1>11

\* Nothing is found: the list is as it was, and no pickup of it is running.
LEMMA ReturnNullStep ==
    ASSUME IInv, NEW l \in Lists, ReturnNull(l)
    PROVE  IInv'
<1> USE DEF IInv
<1>1. TypeOK' /\ Unshared'
  BY DEF TypeOK, Unshared, ReturnNull, MsgOrNull
<1>2. ListLinked'
  BY DEF ListLinked, Linked, ReturnNull
<1>3. ScanSound'
  <2>1. Unlocked(l)'
    BY DEF Unlocked, ReturnNull, TypeOK
  <2>2. \A j \in Lists \ {l} : before'[j] = before[j] /\ wanted'[j] = wanted[j]
    BY DEF ReturnNull, TypeOK
  <2> QED
    BY <2>1, <2>2, ScanKept DEF ReturnNull
<1> QED
  BY <1>1, <1>2, <1>3

\* The list, its messages and every pickup but that of l are as they were.
Advance(l) == /\ UNCHANGED <<top, bottom, count, next, key, returned, order>>
              /\ before' = [before EXCEPT ![l] = before'[l]]
              /\ wanted' = [wanted EXCEPT ![l] = wanted'[l]]

\* A round of recv_msg_list_pickup that does not match moves before_msg to position i.
LEMMA AdvanceStep ==
    ASSUME IInv, NEW l \in Lists, Advance(l), wanted'[l] \in Keys \cup {Null},
           NEW i \in 1..Len(order[l]), before'[l] = order[l][i],
           \A j \in 1..i : key[order[l][j]] # wanted'[l]
    PROVE  IInv'
<1> USE DEF IInv
<1>1. order[l][i] \in MsgOrNull
  BY DEF TypeOK, MsgOrNull
<1>2. TypeOK'
  BY <1>1, ZenonT(40) DEF TypeOK, Advance
<1>3. Unshared' /\ ListLinked'
  BY DEF Unshared, ListLinked, Linked, Advance
<1>4. ASSUME NEW k \in Lists PROVE Scanned(k)'
  <2>1. CASE k = l
    <3>1. i \in DOMAIN order[l]
      BY DEF TypeOK
    <3> QED
      BY <2>1, <3>1 DEF Scanned, Advance
  <2>2. CASE k # l
    <3>1. before'[k] = before[k] /\ wanted'[k] = wanted[k]
      BY <2>2 DEF Advance, TypeOK
    <3> QED
      BY <3>1 DEF ScanSound, Scanned, Unlocked, Advance
  <2> QED
    BY <2>1, <2>2
<1> QED
  BY <1>2, <1>3, <1>4 DEF ScanSound

\* recv_msg_list_pickup up to its loop: nothing, the first message, or a search begins.
LEMMA PickupFirstStep ==
    ASSUME IInv, NEW l \in Lists, NEW k \in Keys, PickupFirst(l, k)
    PROVE  IInv'
<1>1. CASE top[l] = Null
  BY <1>1, ReturnNullStep DEF PickupFirst
<1>2. CASE top[l] # Null /\ key[top[l]] = k
  BY <1>2, UnlinkTopStep DEF PickupFirst
<1>3. CASE top[l] # Null /\ key[top[l]] # k
  <2>1. Advance(l) /\ before'[l] = top[l] /\ wanted'[l] = k
    BY <1>3 DEF PickupFirst, Advance, IInv, TypeOK
  <2>2. 1 \in 1..Len(order[l]) /\ order[l][1] = top[l] /\ \A j \in 1..1 : j = 1
    BY <1>3 DEF IInv, ListLinked, Linked, TypeOK
  <2> QED
    BY <1>3, <2>1, <2>2, AdvanceStep
<1> QED
  BY <1>1, <1>2, <1>3

\* One round of the loop: the end of the list, a match, or one message further.
LEMMA PickupNextStep ==
    ASSUME IInv, NEW l \in Lists, PickupNext(l)
    PROVE  IInv'
<1> DEFINE m == next[before[l]]
<1>1. CASE m = Null
  BY <1>1, ReturnNullStep DEF PickupNext
<1>2. CASE m # Null /\ key[m] = wanted[l]
  BY <1>2, UnlinkNextStep DEF PickupNext
<1>3. CASE m # Null /\ key[m] # wanted[l]
  <2> DEFINE s == order[l]
  <2>1. s \in Seq(Msgs) /\ Len(s) \in Nat /\ DOMAIN s = 1..Len(s)
    BY DEF IInv, TypeOK
  <2>2. PICK o \in 1..Len(s) : /\ s[o] = before[l]
                               /\ \A j \in 1..o : key[s[j]] # wanted[l]
    BY <2>1 DEF IInv, ScanSound, Scanned, PickupNext
  <2>3. o # Len(s) /\ m = s[o + 1]
    BY <1>3, <2>1, <2>2 DEF IInv, ListLinked, Linked
  <2>4. Advance(l) /\ before'[l] = m /\ wanted'[l] = wanted[l] /\ wanted[l] \in Keys \cup {Null}
    BY <1>3 DEF PickupNext, Advance, IInv, TypeOK
  <2>5. o + 1 \in 1..Len(s) /\ \A j \in 1..(o + 1) : j \in 1..o \/ j = o + 1
    BY <2>1, <2>2, <2>3
  <2>6. \A j \in 1..(o + 1) : key[s[j]] # wanted'[l]
    BY <1>3, <2>2, <2>3, <2>4, <2>5
  <2> QED
    BY <2>3, <2>4, <2>5, <2>6, AdvanceStep
<1> QED
  BY <1>1, <1>2, <1>3

-----------------------------------------------------------------------------

\* recv_msg_list_init: empty lists.
LEMMA InitInv == Init => IInv
<1> SUFFICES ASSUME Init PROVE IInv
  OBVIOUS
<1>1. TypeOK
  BY DEF Init, TypeOK, MsgOrNull
<1>2. \A l \in Lists : order[l] = <<>>
  BY DEF Init
<1>3. Unshared /\ ScanSound
  BY <1>2 DEF Unshared, ScanSound, Scanned, Unlocked, Init
<1>4. ListLinked
  BY <1>2 DEF ListLinked, Linked, Init
<1> QED
  BY <1>1, <1>3, <1>4 DEF IInv

\* Every operation on any of the lists keeps IInv.
LEMMA StepInv == IInv /\ [Next]_vars => IInv'
<1> SUFFICES ASSUME IInv, [Next]_vars PROVE IInv'
  OBVIOUS
<1>1. ASSUME NEW l \in Lists, NEW m \in Msgs, NEW k \in Keys, AppendMsg(l, m, k) PROVE IInv'
  BY <1>1, AppendStep
<1>2. ASSUME NEW l \in Lists, Pop(l) PROVE IInv'
  BY <1>2, UnlinkTopStep, ReturnNullStep DEF Pop
<1>3. ASSUME NEW l \in Lists, NEW k \in Keys, PickupFirst(l, k) PROVE IInv'
  BY <1>3, PickupFirstStep
<1>4. ASSUME NEW l \in Lists, PickupNext(l) PROVE IInv'
  BY <1>4, PickupNextStep
<1>5. CASE UNCHANGED vars
  BY <1>5 DEF vars, IInv, TypeOK, MsgOrNull, Unshared, ListLinked, Linked, ScanSound,
              Scanned, Unlocked
<1> QED
  BY <1>1, <1>2, <1>3, <1>4, <1>5 DEF Next

\* So it holds in every reachable state.
LEMMA Invariance == Spec => []IInv
BY InitInv, StepInv, PTL DEF Spec

\* Counts stay natural numbers and pointers point to messages: recv_msg_list_pop and
\* recv_msg_list_pickup decrement a count only when there is a message to take.
THEOREM TypeCorrect == Spec => []TypeOK
<1>1. IInv => TypeOK
  BY DEF IInv
<1> QED
  BY <1>1, Invariance, PTL

\* que_top, que_bottom, count and the next pointers of every list always describe the
\* same sequence of messages, for any number of lists and messages.
THEOREM ListsAreLinked == Spec => []ListLinked
<1>1. IInv => ListLinked
  BY DEF IInv
<1> QED
  BY <1>1, Invariance, PTL

\* The loop of recv_msg_list_pickup never stands on a message that has left the list,
\* and never has a match behind it.
THEOREM PickupsAreSound == Spec => []ScanSound
<1>1. IInv => ScanSound
  BY DEF IInv
<1> QED
  BY <1>1, Invariance, PTL

-----------------------------------------------------------------------------
(* Each list is the queue of MsgQueue.                                     *)

\* What MsgQueue sees of a list s whose messages have the keys k.
ItemsOf(s, k) == [i \in DOMAIN s |-> [msg |-> s[i], key |-> k[s[i]]]]
Item == [msg : Msgs, key : Keys \cup {Null}]
KeysOfMsgs == [Msgs -> Keys \cup {Null}]

\* Items are as many as the messages and in their order.
LEMMA ItemsAreASeq ==
    ASSUME NEW s \in Seq(Msgs), NEW k \in KeysOfMsgs
    PROVE  /\ ItemsOf(s, k) \in Seq(Item) /\ Len(ItemsOf(s, k)) = Len(s)
           /\ DOMAIN ItemsOf(s, k) = 1..Len(s)
           /\ \A i \in 1..Len(s) : ItemsOf(s, k)[i] = [msg |-> s[i], key |-> k[s[i]]]
<1>1. DOMAIN s = 1..Len(s) /\ Len(s) \in Nat /\ \A i \in 1..Len(s) : s[i] \in Msgs
  OBVIOUS
<1>2. \A i \in 1..Len(s) : [msg |-> s[i], key |-> k[s[i]]] \in Item
  BY <1>1 DEF Item, KeysOfMsgs
<1>3. ItemsOf(s, k) \in [1..Len(s) -> Item]
  BY <1>1, <1>2 DEF ItemsOf
<1>4. ItemsOf(s, k) \in Seq(Item)
  BY <1>1, <1>3, SeqDef
<1>5. Len(ItemsOf(s, k)) = Len(s)
  BY <1>1, <1>3, <1>4, LenProperties
<1> QED
  BY <1>1, <1>3, <1>4, <1>5 DEF ItemsOf

\* An appended message is an appended item, if it was in no list: then its key may be new.
LEMMA ItemsAfterAppend ==
    ASSUME NEW s \in Seq(Msgs), NEW k \in KeysOfMsgs, NEW k2 \in KeysOfMsgs, NEW m \in Msgs,
           \A i \in DOMAIN s : k2[s[i]] = k[s[i]]
    PROVE  ItemsOf(Append(s, m), k2) = Append(ItemsOf(s, k), [msg |-> m, key |-> k2[m]])
<1> DEFINE e == [msg |-> m, key |-> k2[m]]
           t == Append(s, m)
           it == ItemsOf(s, k)
           a == ItemsOf(t, k2)
           b == Append(it, e)
<1>1. /\ t \in Seq(Msgs) /\ Len(t) = Len(s) + 1 /\ Len(s) \in Nat /\ DOMAIN s = 1..Len(s)
      /\ \A i \in 1..(Len(s) + 1) : t[i] = IF i \in 1..Len(s) THEN s[i] ELSE m
  OBVIOUS
<1>2. it \in Seq(Item) /\ Len(it) = Len(s) /\ \A i \in 1..Len(s) : it[i] = [msg |-> s[i], key |-> k[s[i]]]
  BY ItemsAreASeq
<1>3. e \in Item
  BY DEF Item, KeysOfMsgs
<1> HIDE DEF e, t, it
<1>4. a \in Seq(Item) /\ Len(a) = Len(s) + 1
      /\ \A i \in 1..(Len(s) + 1) : a[i] = [msg |-> t[i], key |-> k2[t[i]]]
  BY <1>1, ItemsAreASeq
<1>5. b \in Seq(Item) /\ Len(b) = Len(s) + 1
      /\ \A i \in 1..(Len(s) + 1) : b[i] = IF i \in 1..Len(s) THEN it[i] ELSE e
  BY <1>1, <1>2, <1>3
<1> HIDE DEF a, b
<1>6. \A i \in 1..(Len(s) + 1) : a[i] = b[i]
  <2> SUFFICES ASSUME NEW i \in 1..(Len(s) + 1) PROVE a[i] = b[i]
    OBVIOUS
  <2>1. CASE i \in 1..Len(s)
    <3>1. t[i] = s[i] /\ b[i] = it[i] /\ k2[s[i]] = k[s[i]]
      BY <1>1, <1>5, <2>1
    <3> QED
      BY <1>2, <1>4, <2>1, <3>1
  <2>2. CASE i \notin 1..Len(s)
    BY <1>1, <1>4, <1>5, <2>2 DEF e
  <2> QED
    BY <2>1, <2>2
<1>7. a = b
  BY <1>4, <1>5, <1>6, SeqEqual
<1> QED
  BY <1>7 DEF a, b, e, t, it

\* A message that leaves the list is the item of its place.
LEMMA ItemsAfterRemoval ==
    ASSUME NEW s \in Seq(Msgs), NEW k \in KeysOfMsgs, NEW i \in 1..Len(s)
    PROVE  ItemsOf(RemoveAt(s, i), k) = RemoveAt(ItemsOf(s, k), i)
<1> DEFINE t == RemoveAt(s, i)
           it == ItemsOf(s, k)
           a == ItemsOf(t, k)
           b == RemoveAt(it, i)
<1>1. t \in Seq(Msgs) /\ Len(t) = Len(s) - 1 /\ Len(s) \in Nat
      /\ \A j \in 1..(Len(s) - 1) : t[j] = IF j < i THEN s[j] ELSE s[j + 1]
  BY RemoveAtProperties
<1>2. it \in Seq(Item) /\ Len(it) = Len(s) /\ \A j \in 1..Len(s) : it[j] = [msg |-> s[j], key |-> k[s[j]]]
  BY ItemsAreASeq
<1> HIDE DEF t, it
<1>3. a \in Seq(Item) /\ Len(a) = Len(s) - 1
      /\ \A j \in 1..(Len(s) - 1) : a[j] = [msg |-> t[j], key |-> k[t[j]]]
  BY <1>1, ItemsAreASeq
<1>4. b \in Seq(Item) /\ Len(b) = Len(s) - 1
      /\ \A j \in 1..(Len(s) - 1) : b[j] = IF j < i THEN it[j] ELSE it[j + 1]
  BY <1>2, RemoveAtProperties
<1> HIDE DEF a, b
<1>5. \A j \in 1..(Len(s) - 1) : a[j] = b[j]
  <2> SUFFICES ASSUME NEW j \in 1..(Len(s) - 1) PROVE a[j] = b[j]
    OBVIOUS
  <2>1. j \in 1..Len(s) /\ j + 1 \in 1..Len(s)
    BY <1>1
  <2>2. CASE j < i
    <3>1. t[j] = s[j] /\ b[j] = it[j]
      BY <1>1, <1>4, <2>2
    <3> QED
      BY <1>2, <1>3, <2>1, <3>1
  <2>3. CASE ~(j < i)
    <3>1. t[j] = s[j + 1] /\ b[j] = it[j + 1]
      BY <1>1, <1>4, <2>3
    <3> QED
      BY <1>2, <1>3, <2>1, <3>1
  <2> QED
    BY <2>2, <2>3
<1>6. a = b
  BY <1>3, <1>4, <1>5, SeqEqual
<1> QED
  BY <1>6 DEF a, b, t, it

\* What the refinement substitutes, before and after a step.
LEMMA MappedQueue ==
    /\ \A l \in Lists : Items(l) = ItemsOf(order[l], key)
    /\ \A l \in Lists : Items(l)' = ItemsOf(order'[l], key')
BY DEF Items, ItemsOf

\* A running pickup knows what it looks for.
WantedIsKnown == \A l \in Lists : ~Unlocked(l) => wanted[l] \in Keys

\* recv_msg_list_pickup gets the request id before it walks the list.
LEMMA WantedStep == TypeOK /\ WantedIsKnown /\ [Next]_vars => WantedIsKnown'
<1> SUFFICES ASSUME TypeOK, WantedIsKnown, [Next]_vars, NEW j \in Lists, ~Unlocked(j)'
             PROVE  wanted'[j] \in Keys
  BY DEF WantedIsKnown
<1> USE DEF TypeOK, WantedIsKnown, Unlocked
<1>1. ASSUME NEW l \in Lists, ReturnNull(l) PROVE wanted'[j] \in Keys
  BY <1>1 DEF ReturnNull
<1>2. ASSUME NEW l \in Lists, UnlinkTop(l) PROVE wanted'[j] \in Keys
  BY <1>2 DEF UnlinkTop
<1>3. ASSUME NEW l \in Lists, NEW m, UnlinkNext(l, m) PROVE wanted'[j] \in Keys
  BY <1>3 DEF UnlinkNext
<1>4. ASSUME NEW l \in Lists, NEW m \in Msgs, NEW k \in Keys, AppendMsg(l, m, k)
      PROVE  wanted'[j] \in Keys
  BY <1>4 DEF AppendMsg
<1>5. ASSUME NEW l \in Lists, Pop(l) PROVE wanted'[j] \in Keys
  BY <1>1, <1>2, <1>5 DEF Pop
<1>6. ASSUME NEW l \in Lists, NEW k \in Keys, PickupFirst(l, k) PROVE wanted'[j] \in Keys
  <2>1. \/ ReturnNull(l) \/ UnlinkTop(l)
        \/ before' = [before EXCEPT ![l] = top[l]] /\ wanted' = [wanted EXCEPT ![l] = k]
    BY <1>6 DEF PickupFirst
  <2> QED
    BY <1>1, <1>2, <2>1
<1>7. ASSUME NEW l \in Lists, PickupNext(l) PROVE wanted'[j] \in Keys
  <2>1. \/ ReturnNull(l) \/ UnlinkNext(l, next[before[l]])
        \/ /\ ~Unlocked(l) /\ before' = [before EXCEPT ![l] = next[before[l]]]
           /\ UNCHANGED wanted
    BY <1>7 DEF PickupNext
  <2> QED
    BY <1>1, <1>3, <2>1
<1>8. CASE UNCHANGED vars
  BY <1>8 DEF vars
<1> QED
  BY <1>4, <1>5, <1>6, <1>7, <1>8 DEF Next

\* A message that leaves position i of list l and is the result.
LEMMA TakeAtRefines ==
    ASSUME TypeOK, TypeOK', NEW l \in Lists, NEW i \in 1..Len(order[l]), UNCHANGED key,
           order' = [order EXCEPT ![l] = RemoveAt(order[l], i)],
           returned' = [returned EXCEPT ![l] = order[l][i]]
    PROVE  Queue!TakeAt(l, i)
<1>1. order[l] \in Seq(Msgs) /\ key \in KeysOfMsgs
  BY DEF TypeOK, KeysOfMsgs
<1>2. Items(l)' = RemoveAt(Items(l), i)
  <2>1. order'[l] = RemoveAt(order[l], i)
    BY DEF TypeOK
  <2> QED
    BY <1>1, <2>1, ItemsAfterRemoval, MappedQueue
<1>3. \A j \in Lists \ {l} : Items(j)' = Items(j)
  BY MappedQueue DEF TypeOK
<1>4. Items(l)[i].msg = order[l][i]
  <2>1. Items(l)[i] = [msg |-> order[l][i], key |-> key[order[l][i]]]
    BY <1>1, ItemsAreASeq, MappedQueue
  <2> QED
    BY <2>1
<1>5. [j \in Lists |-> Items(j)]' = [[j \in Lists |-> Items(j)] EXCEPT ![l] = RemoveAt(Items(l), i)]
  <2> DEFINE q == [j \in Lists |-> Items(j)]
  <2>1. \A j \in Lists : q'[j] = IF j = l THEN RemoveAt(Items(l), i) ELSE q[j]
    BY <1>2, <1>3
  <2> QED
    BY <2>1
<1>6. [j \in Lists |-> Items(j)][l] = Items(l)
  OBVIOUS
<1> QED
  BY <1>4, <1>5, <1>6 DEF Queue!TakeAt, Queue!RemoveAt, RemoveAt

\* recv_msg_list_append puts the message at the end.
LEMMA AppendRefines ==
    ASSUME IInv, IInv', NEW l \in Lists, NEW m \in Msgs, NEW k \in Keys, AppendMsg(l, m, k)
    PROVE  Queue!Enqueue(l, m, k)
<1> DEFINE e == [msg |-> m, key |-> k]
<1>1. /\ \A j \in Lists : order[j] \in Seq(Msgs) /\ DOMAIN order[j] = 1..Len(order[j])
      /\ key \in KeysOfMsgs /\ key' \in KeysOfMsgs
  BY DEF IInv, TypeOK, KeysOfMsgs
<1>2. /\ order' = [order EXCEPT ![l] = Append(order[l], m)]
      /\ key' = [key EXCEPT ![m] = k]
      /\ UNCHANGED returned
      /\ \A j \in Lists : \A i \in DOMAIN order[j] : order[j][i] # m
  BY DEF AppendMsg, Unlinked
<1>3. key'[m] = k /\ \A j \in Lists : \A i \in DOMAIN order[j] : key'[order[j][i]] = key[order[j][i]]
  BY <1>1, <1>2 DEF KeysOfMsgs
<1>4. Items(l)' = Append(Items(l), e)
  <2>1. order'[l] = Append(order[l], m)
    BY <1>2 DEF IInv, TypeOK
  <2>2. ItemsOf(Append(order[l], m), key') = Append(ItemsOf(order[l], key), [msg |-> m, key |-> key'[m]])
    BY <1>1, <1>3, ItemsAfterAppend
  <2> QED
    BY <1>3, <2>1, <2>2, MappedQueue
<1>5. \A j \in Lists \ {l} : Items(j)' = Items(j)
  <2> SUFFICES ASSUME NEW j \in Lists \ {l} PROVE Items(j)' = Items(j)
    OBVIOUS
  <2>1. order'[j] = order[j]
    BY <1>2 DEF IInv, TypeOK
  <2> QED
    BY <1>3, <2>1 DEF Items
<1> HIDE DEF e
<1>6. [j \in Lists |-> Items(j)]' = [[j \in Lists |-> Items(j)] EXCEPT ![l] = Append(Items(l), e)]
  <2> DEFINE q == [j \in Lists |-> Items(j)]
  <2>1. \A j \in Lists : q'[j] = IF j = l THEN Append(Items(l), e) ELSE q[j]
    BY <1>4, <1>5
  <2> QED
    BY <2>1
<1>7. [j \in Lists |-> Items(j)][l] = Items(l)
  OBVIOUS
<1>8. Queue!Absent(m)
  <2>1. \A j \in Lists : \A i \in DOMAIN Items(j) : Items(j)[i].msg # m
    BY <1>2 DEF Items
  <2> QED
    BY <2>1 DEF Queue!Absent
<1> QED
  BY <1>2, <1>6, <1>7, <1>8 DEF Queue!Enqueue, e

\* An operation that finds nothing leaves every queue as it is.
LEMMA NothingRefines ==
    ASSUME IInv, NEW l \in Lists, ReturnNull(l)
    PROVE  Queue!Nothing(l)
<1>1. UNCHANGED <<order, key>> /\ returned' = [returned EXCEPT ![l] = Null]
  BY DEF ReturnNull
<1>2. \A j \in Lists : Items(j)' = Items(j)
  BY <1>1 DEF Items
<1>3. [j \in Lists |-> Items(j)]' = [j \in Lists |-> Items(j)]
  BY <1>2
<1> QED
  BY <1>1, <1>3 DEF Queue!Nothing

\* The places of a key in the queue are the places of its messages in the list.
LEMMA MatchesAre ==
    ASSUME IInv, NEW l \in Lists, NEW k
    PROVE  Queue!Matches(l, k) = {i \in 1..Len(order[l]) : key[order[l][i]] = k}
<1>1. order[l] \in Seq(Msgs) /\ DOMAIN order[l] = 1..Len(order[l])
  BY DEF IInv, TypeOK
<1>2. DOMAIN Items(l) = 1..Len(order[l])
      /\ \A i \in 1..Len(order[l]) : Items(l)[i].key = key[order[l][i]]
  BY <1>1 DEF Items
<1>3. [j \in Lists |-> Items(j)][l] = Items(l)
  OBVIOUS
<1> QED
  BY <1>2, <1>3 DEF Queue!Matches

\* The first message leaves: recv_msg_list_pop.
LEMMA UnlinkTopRefines ==
    ASSUME IInv, IInv', NEW l \in Lists, top[l] # Null, UnlinkTop(l)
    PROVE  1 \in 1..Len(order[l]) /\ top[l] = order[l][1] /\ Queue!TakeAt(l, 1)
<1>1. /\ order[l] \in Seq(Msgs) /\ order[l] # <<>> /\ top[l] = order[l][1]
  BY DEF IInv, ListLinked, Linked, TypeOK
<1>2. 1 \in 1..Len(order[l])
  BY <1>1
<1>3. /\ order' = [order EXCEPT ![l] = RemoveAt(order[l], 1)]
      /\ returned' = [returned EXCEPT ![l] = order[l][1]] /\ UNCHANGED key
  BY <1>1 DEF UnlinkTop
<1> QED
  BY <1>1, <1>2, <1>3, TakeAtRefines DEF IInv

\* recv_msg_list_pop takes the oldest message, or none from an empty list.
LEMMA PopRefines ==
    ASSUME IInv, IInv', NEW l \in Lists, Pop(l)
    PROVE  Queue!Dequeue(l)
<1>1. order[l] \in Seq(Msgs) /\ (order[l] = <<>> <=> top[l] = Null)
  <2>1. order[l] \in Seq(Msgs) /\ (order[l] # <<>> => order[l][1] \in Msgs)
    BY DEF IInv, TypeOK
  <2> QED
    BY <2>1, NullAssumption DEF IInv, ListLinked, Linked
<1>2. Items(l) = <<>> <=> order[l] = <<>>
  <2>1. key \in KeysOfMsgs
    BY DEF IInv, TypeOK, KeysOfMsgs
  <2>2. Items(l) \in Seq(Item) /\ Len(Items(l)) = Len(order[l])
    BY <1>1, <2>1, ItemsAreASeq, MappedQueue
  <2> QED
    BY <1>1, <2>2, EmptySeq
<1>3. [j \in Lists |-> Items(j)][l] = Items(l)
  OBVIOUS
<1>4. CASE top[l] = Null
  BY <1>1, <1>2, <1>3, <1>4, NothingRefines DEF Pop, Queue!Dequeue
<1>5. CASE top[l] # Null
  BY <1>1, <1>2, <1>3, <1>5, UnlinkTopRefines DEF Pop, Queue!Dequeue
<1> QED
  BY <1>4, <1>5

\* What a walk does to the pickup is not seen.
LEMMA AdvanceStutters ==
    ASSUME UNCHANGED <<order, key, returned>>
    PROVE  UNCHANGED Queue!vars
<1>1. \A j \in Lists : Items(j)' = Items(j)
  BY DEF Items
<1> QED
  BY <1>1 DEF Queue!vars

\* recv_msg_list_pickup, when it ends at once, is a removal of the first match; when it
\* begins to walk, nothing has happened yet.
LEMMA PickupFirstRefines ==
    ASSUME IInv, IInv', NEW l \in Lists, NEW k \in Keys, PickupFirst(l, k)
    PROVE  Queue!TakeMatch(l, k) \/ UNCHANGED Queue!vars
<1>1. order[l] \in Seq(Msgs) /\ (top[l] = Null => Len(order[l]) = 0)
  <2>1. order[l] \in Seq(Msgs) /\ (order[l] # <<>> => order[l][1] \in Msgs)
    BY DEF IInv, TypeOK
  <2> QED
    BY <2>1, NullAssumption DEF IInv, ListLinked, Linked
<1>2. CASE top[l] = Null
  <2>1. Queue!Matches(l, k) = {}
    BY <1>1, <1>2, MatchesAre
  <2> QED
    BY <1>2, <2>1, NothingRefines DEF PickupFirst, Queue!TakeMatch
<1>3. CASE top[l] # Null /\ key[top[l]] = k
  <2>1. 1 \in 1..Len(order[l]) /\ top[l] = order[l][1] /\ Queue!TakeAt(l, 1)
    BY <1>3, UnlinkTopRefines DEF PickupFirst
  <2>2. 1 \in Queue!Matches(l, k) /\ \A j \in Queue!Matches(l, k) : 1 <= j
    BY <1>1, <1>3, <2>1, MatchesAre
  <2> QED
    BY <2>1, <2>2 DEF Queue!TakeMatch
<1>4. CASE top[l] # Null /\ key[top[l]] # k
  BY <1>4, AdvanceStutters DEF PickupFirst
<1> QED
  BY <1>2, <1>3, <1>4

\* A round of the loop: the end of the list without a match, the first match, or a round
\* more.
LEMMA PickupNextRefines ==
    ASSUME IInv, IInv', NEW l \in Lists, PickupNext(l)
    PROVE  Queue!TakeMatch(l, wanted[l]) \/ UNCHANGED Queue!vars
<1> DEFINE s == order[l]
           m == next[before[l]]
           k == wanted[l]
<1>1. s \in Seq(Msgs) /\ Len(s) \in Nat /\ DOMAIN s = 1..Len(s)
      /\ \A j \in 1..Len(s) : s[j] \in Msgs
  BY DEF IInv, TypeOK
<1>2. PICK o \in 1..Len(s) : s[o] = before[l] /\ \A j \in 1..o : key[s[j]] # k
  BY <1>1 DEF IInv, ScanSound, Scanned, PickupNext
<1>3. m = IF o = Len(s) THEN Null ELSE s[o + 1]
  BY <1>1, <1>2 DEF IInv, ListLinked, Linked
<1>4. Queue!Matches(l, k) = {i \in 1..Len(s) : key[s[i]] = k}
  BY MatchesAre
<1>5. CASE m = Null
  <2>1. o = Len(s)
    <3>1. o # Len(s) => o + 1 \in 1..Len(s)
      BY <1>1
    <3> QED
      BY <1>1, <1>3, <1>5, <3>1, NullAssumption
  <2>2. Queue!Matches(l, k) = {}
    BY <1>2, <1>4, <2>1
  <2> QED
    BY <1>5, <2>2, NothingRefines DEF PickupNext, Queue!TakeMatch
<1>6. CASE m # Null /\ key[m] = k
  <2> DEFINE i == o + 1
  <2>1. i \in 1..Len(s) /\ s[i] = m
    BY <1>1, <1>3, <1>6
  <2>2. UnlinkNext(l, m)
    BY <1>6 DEF PickupNext
  <2>3. Without(s, s[i]) = RemoveAt(s, i)
    <3>1. \A j \in 1..Len(s) : s[j] = s[i] => j = i
      BY <1>1, <2>1 DEF IInv, Unshared
    <3> HIDE DEF i
    <3> QED
      BY <1>1, <2>1, <3>1, WithoutIsRemoveAt
  <2>4. Queue!TakeAt(l, i)
    <3>1. /\ order' = [order EXCEPT ![l] = RemoveAt(order[l], i)]
          /\ returned' = [returned EXCEPT ![l] = order[l][i]] /\ UNCHANGED key
      BY <2>1, <2>2, <2>3 DEF UnlinkNext
    <3> HIDE DEF i
    <3> QED
      BY <2>1, <3>1, TakeAtRefines DEF IInv
  <2>5. i \in Queue!Matches(l, k) /\ \A j \in Queue!Matches(l, k) : i <= j
    <3>1. i \in Queue!Matches(l, k)
      BY <1>4, <1>6, <2>1
    <3>2. ASSUME NEW j \in 1..Len(s), key[s[j]] = k PROVE i <= j
      <4>1. j \notin 1..o
        BY <1>2, <3>2
      <4> QED
        BY <1>1, <4>1
    <3> QED
      BY <1>4, <3>1, <3>2
  <2> QED
    BY <2>4, <2>5 DEF Queue!TakeMatch
<1>7. CASE m # Null /\ key[m] # k
  BY <1>7, AdvanceStutters DEF PickupNext
<1> QED
  BY <1>5, <1>6, <1>7

\* Each ReceiveMessageDataList is a queue with removal of the first match, whatever the
\* interleaving of handlers, rmw_take_request and rmw_send_response: pointers, counts and
\* the walk of recv_msg_list_pickup are not seen.
THEOREM ListsAreQueues == Spec => IsMsgQueue
<1>1. Init => Queue!Init /\ WantedIsKnown
  <2> SUFFICES ASSUME Init PROVE Queue!Init /\ WantedIsKnown
    OBVIOUS
  <2>1. \A l \in Lists : Items(l) = <<>>
    BY DEF Init, Items
  <2> QED
    BY <2>1 DEF Init, Queue!Init, WantedIsKnown, Unlocked
<1>2. IInv /\ IInv' /\ WantedIsKnown /\ [Next]_vars => [Queue!Next]_Queue!vars
  <2> SUFFICES ASSUME IInv, IInv', WantedIsKnown, [Next]_vars PROVE [Queue!Next]_Queue!vars
    OBVIOUS
  <2>1. ASSUME NEW l \in Lists, NEW m \in Msgs, NEW k \in Keys, AppendMsg(l, m, k)
        PROVE  Queue!Next
    BY <2>1, AppendRefines DEF Queue!Next
  <2>2. ASSUME NEW l \in Lists, Pop(l) PROVE Queue!Next
    BY <2>2, PopRefines DEF Queue!Next
  <2>3. ASSUME NEW l \in Lists, NEW k \in Keys, PickupFirst(l, k)
        PROVE  Queue!Next \/ UNCHANGED Queue!vars
    BY <2>3, PickupFirstRefines DEF Queue!Next
  <2>4. ASSUME NEW l \in Lists, PickupNext(l) PROVE Queue!Next \/ UNCHANGED Queue!vars
    <3>1. wanted[l] \in Keys
      BY <2>4 DEF PickupNext, WantedIsKnown
    <3> QED
      BY <2>4, <3>1, PickupNextRefines DEF Queue!Next
  <2>5. CASE UNCHANGED vars
    BY <2>5, AdvanceStutters DEF vars
  <2> QED
    BY <2>1, <2>2, <2>3, <2>4, <2>5 DEF Next
<1>3. IInv /\ WantedIsKnown /\ [Next]_vars => WantedIsKnown'
  BY WantedStep DEF IInv
<1> QED
  BY <1>1, <1>2, <1>3, Invariance, PTL DEF Spec, IsMsgQueue, Queue!Spec

-----------------------------------------------------------------------------
(* The search of recv_msg_list_pickup moves on.                            *)

\* While a search of l goes on, nothing is put into l or taken from it, and the search stays
\* where it is unless its own round takes it from one message to the next.
SearchMovesOn(l) ==
    ~Unlocked(l) /\ ~Unlocked(l)' =>
        /\ order'[l] = order[l] /\ wanted'[l] = wanted[l]
        /\ \/ before'[l] = before[l] /\ ~PickupNext(l)
           \/ /\ PickupNext(l)
              /\ \E i \in 1..(Len(order[l]) - 1) :
                    before[l] = order[l][i] /\ before'[l] = order[l][i + 1]

\* A step of one list leaves the others, and their searches, as they are.
LEMMA OtherSearch ==
    ASSUME IInv, NEW l \in Lists, NEW k \in Lists, k # l,
           \/ \E m \in Msgs, y \in Keys : AppendMsg(k, m, y)
           \/ Pop(k) \/ PickupNext(k)
           \/ \E y \in Keys : PickupFirst(k, y)
    PROVE  UNCHANGED <<order[l], before[l], wanted[l]>>
BY DEF IInv, TypeOK, AppendMsg, Pop, PickupNext, PickupFirst, ReturnNull, UnlinkTop, UnlinkNext

\* A round that goes on goes from a message to the one that follows it in the list.
LEMMA RoundMovesOn ==
    ASSUME IInv, NEW l \in Lists, PickupNext(l), ~Unlocked(l)'
    PROVE  /\ order'[l] = order[l] /\ wanted'[l] = wanted[l]
           /\ \E i \in 1..(Len(order[l]) - 1) :
                 before[l] = order[l][i] /\ before'[l] = order[l][i + 1]
<1>1. PICK m : m = next[before[l]]
  OBVIOUS
<1>2. before'[l] # Null /\ before \in [Lists -> MsgOrNull]
  BY DEF Unlocked, IInv, TypeOK
<1>3. m # Null /\ before' = [before EXCEPT ![l] = m] /\ UNCHANGED <<order, wanted>>
  BY <1>1, <1>2 DEF PickupNext, ReturnNull, UnlinkNext
<1>4. PICK i \in DOMAIN order[l] : order[l][i] = before[l]
  BY DEF PickupNext, IInv, ScanSound, Scanned
<1>5. i \in 1..Len(order[l]) /\ Len(order[l]) \in Nat
  BY <1>4 DEF IInv, TypeOK
<1>6. m = IF i = Len(order[l]) THEN Null ELSE order[l][i + 1]
  BY <1>1, <1>4, <1>5 DEF IInv, ListLinked, Linked
<1>7. i \in 1..(Len(order[l]) - 1) /\ m = order[l][i + 1]
  BY <1>3, <1>5, <1>6
<1> QED
  BY <1>2, <1>3, <1>4, <1>7

\* A running pickup comes closer to the end of its list with each round, and no handler and no
\* other call moves that end away (zenoh_pico_rosMessage.c:398): it makes at most as many rounds
\* as the list has messages.
THEOREM SearchesMoveOn == Spec => [][\A l \in Lists : SearchMovesOn(l)]_vars
<1>1. ASSUME IInv, [Next]_vars, NEW l \in Lists PROVE SearchMovesOn(l)
  <2> SUFFICES ASSUME ~Unlocked(l), ~Unlocked(l)'
               PROVE  /\ order'[l] = order[l] /\ wanted'[l] = wanted[l]
                      /\ \/ before'[l] = before[l] /\ ~PickupNext(l)
                         \/ /\ PickupNext(l)
                            /\ \E i \in 1..(Len(order[l]) - 1) :
                                  before[l] = order[l][i] /\ before'[l] = order[l][i + 1]
    BY DEF SearchMovesOn
  <2>1. CASE PickupNext(l)
    BY <1>1, <2>1, RoundMovesOn
  <2>2. CASE ~PickupNext(l)
    <3>1. CASE UNCHANGED vars
      BY <2>2, <3>1 DEF vars
    <3>2. CASE Next
      <4>1. PICK k \in Lists : \/ \E m \in Msgs, y \in Keys : AppendMsg(k, m, y)
                               \/ Pop(k) \/ PickupNext(k)
                               \/ \E y \in Keys : PickupFirst(k, y)
        BY <3>2 DEF Next
      <4>2. k # l
        BY <2>2, <4>1 DEF AppendMsg, Pop, PickupFirst
      <4> QED
        BY <1>1, <2>2, <4>1, <4>2, OtherSearch
    <3> QED
      BY <1>1, <3>1, <3>2
  <2> QED
    BY <2>1, <2>2
<1>2. IInv /\ [Next]_vars => \A l \in Lists : SearchMovesOn(l)
  BY <1>1
<1> QED
  BY <1>2, Invariance, PTL DEF Spec

=============================================================================
