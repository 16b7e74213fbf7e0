--------------------------- MODULE BuxChannelProofs ---------------------------
(***************************************************************************)
(* Proofs about BuxChannel for any finite set of threads, any element type *)
(* and any requested capacity: types and bounds, the consistency of the    *)
(* ring counters, the absence of lost wakeups, and the safety part of the  *)
(* refinement of ChannelSpec.                                              *)
(***************************************************************************)
EXTENDS BuxChannel, FiniteSetTheorems, TLAPS

LEMMA CapacityPositive == Capacity \in Nat \ {0}
  BY RequestIsInt DEF Capacity

\* Arithmetic of one turn around the ring.
LEMMA ModWrap ==
    ASSUME NEW N \in Nat \ {0}, NEW a \in 0..(2 * N - 1)
    PROVE  a % N = IF a < N THEN a ELSE a - N
  BY Z3

\* An index k slots after slot h, at most one turn away, is a slot.
LEMMA WrapIndex ==
    ASSUME NEW h \in Slots, NEW k \in 0..Capacity
    PROVE  /\ (h + k) % Capacity = IF h + k < Capacity THEN h + k ELSE h + k - Capacity
           /\ (h + k) % Capacity \in Slots
<1>1. PICK a \in Int : a = h + k
  BY CapacityPositive DEF Slots
<1>2. a \in 0..(2 * Capacity - 1)
  BY <1>1, CapacityPositive DEF Slots
<1>3. a % Capacity = IF a < Capacity THEN a ELSE a - Capacity
  BY <1>2, CapacityPositive, ModWrap
<1>4. a % Capacity \in Slots
  BY <1>2, <1>3, CapacityPositive DEF Slots
<1>. QED  BY <1>1, <1>3, <1>4, CapacityPositive DEF Slots

\* Two indices less than one turn apart are different slots.
LEMMA WrapDistinct ==
    ASSUME NEW h \in Slots, NEW i \in 0..Capacity, NEW j \in 0..Capacity,
           i < j, j - i < Capacity
    PROVE  (h + i) % Capacity # (h + j) % Capacity
<1>1. (h + i) % Capacity = IF h + i < Capacity THEN h + i ELSE h + i - Capacity
  BY WrapIndex
<1>2. (h + j) % Capacity = IF h + j < Capacity THEN h + j ELSE h + j - Capacity
  BY WrapIndex
<1>. QED  BY <1>1, <1>2, CapacityPositive DEF Slots

\* Advancing the base by one slot is the same as advancing the offset by one.
LEMMA WrapShift ==
    ASSUME NEW h \in Slots, NEW i \in 0..(Capacity - 1)
    PROVE  (((h + 1) % Capacity) + i) % Capacity = (h + (i + 1)) % Capacity
<1>. DEFINE g == (h + 1) % Capacity
<1>1. 1 \in 0..Capacity /\ i \in 0..Capacity /\ i + 1 \in 0..Capacity
  BY CapacityPositive
<1>2. g = (IF h + 1 < Capacity THEN h + 1 ELSE h + 1 - Capacity) /\ g \in Slots
  BY <1>1, WrapIndex
<1>. HIDE DEF g
<1>3. (g + i) % Capacity = IF g + i < Capacity THEN g + i ELSE g + i - Capacity
  BY <1>1, <1>2, WrapIndex
<1>4. (h + (i + 1)) % Capacity
        = IF h + (i + 1) < Capacity THEN h + (i + 1) ELSE h + (i + 1) - Capacity
  BY <1>1, WrapIndex
<1>5. (g + i) % Capacity = (h + (i + 1)) % Capacity
  BY <1>2, <1>3, <1>4, CapacityPositive DEF Slots
<1>. QED  BY <1>5 DEF g

\* What a signal leaves behind when thread t returns from its call: t is idle,
\* and any other thread is where it was unless it was a sleeper and is on its
\* way again.
PutEffect(t) ==
    /\ pc' \in [Threads -> Places]
    /\ pc'[t] = "idle"
    /\ \A u \in Threads : u # t => pc'[u] = pc[u] \/ (pc[u] = "recvWait" /\ pc'[u] = "recv")

TakeEffect(t) ==
    /\ pc' \in [Threads -> Places]
    /\ pc'[t] = "idle"
    /\ \A u \in Threads : u # t => pc'[u] = pc[u] \/ (pc[u] = "sendWait" /\ pc'[u] = "send")

LEMMA PutSignals == ASSUME TypeOK, NEW t \in Threads, SendPut(t) PROVE PutEffect(t)
<1>. DEFINE p == [pc EXCEPT ![t] = "idle"]
<1>1. /\ p \in [Threads -> Places]
      /\ p[t] = "idle"
      /\ \A u \in Threads : u # t => p[u] = pc[u]
  BY DEF TypeOK, Places
<1>2. pc' \in Signal(p, "recvWait", "recv")
  BY DEF SendPut
<1>. HIDE DEF p
<1>3. pc' = p \/ \E w \in Threads : p[w] = "recvWait" /\ pc' = [p EXCEPT ![w] = "recv"]
  BY <1>2 DEF Signal
<1>. QED  BY <1>1, <1>3 DEF PutEffect, Places

LEMMA TakeSignals == ASSUME TypeOK, NEW t \in Threads, RecvTake(t) PROVE TakeEffect(t)
<1>. DEFINE p == [pc EXCEPT ![t] = "idle"]
<1>1. /\ p \in [Threads -> Places]
      /\ p[t] = "idle"
      /\ \A u \in Threads : u # t => p[u] = pc[u]
  BY DEF TypeOK, Places
<1>2. pc' \in Signal(p, "sendWait", "send")
  BY DEF RecvTake
<1>. HIDE DEF p
<1>3. pc' = p \/ \E w \in Threads : p[w] = "sendWait" /\ pc' = [p EXCEPT ![w] = "send"]
  BY <1>2 DEF Signal
<1>. QED  BY <1>1, <1>3 DEF TakeEffect, Places

------------------------------------------------------------------------------
\* Types and index bounds: head, tail and count stay inside the buffer for
\* every requested capacity, zero and negative ones included.
THEOREM TypeCorrect == SafeSpec => []TypeOK
<1> USE CapacityPositive DEF TypeOK, Places
<1>0. 0 \in Slots /\ 1 \in 0..Capacity
  BY DEF Slots
<1>1. Init => TypeOK
  <2> SUFFICES ASSUME Init PROVE TypeOK
    OBVIOUS
  <2>1. buffer \in [Slots -> Elem \cup {NoElem}]
    BY DEF Init
  <2>2. head \in Slots /\ tail \in Slots
    BY <1>0 DEF Init
  <2>3. count \in 0..Capacity
    BY DEF Init
  <2>4. pc \in [Threads -> Places]
    BY DEF Init
  <2>. QED  BY <2>1, <2>2, <2>3, <2>4 DEF Init
<1>2. TypeOK /\ [Next]_vars => TypeOK'
  <2> SUFFICES ASSUME TypeOK, [Next]_vars PROVE TypeOK'
    OBVIOUS
  <2>1. ASSUME NEW t \in Threads, NEW e \in Elem, BeginSend(t, e) PROVE TypeOK'
    BY <2>1 DEF BeginSend
  <2>2. ASSUME NEW t \in Threads, BeginRecv(t) PROVE TypeOK'
    BY <2>2 DEF BeginRecv
  <2>3. ASSUME NEW t \in Threads, SendBlock(t) \/ SendClosed(t) \/ RecvBlock(t) \/ RecvClosed(t)
        PROVE TypeOK'
    BY <2>3 DEF SendBlock, SendClosed, RecvBlock, RecvClosed
  <2>4. ASSUME NEW t \in Threads, SendPut(t) PROVE TypeOK'
    <3>1. tail' \in Slots
      BY <2>4, <1>0, WrapIndex DEF SendPut
    <3>2. pc' \in [Threads -> Places]
      BY <2>4, PutSignals DEF PutEffect
    <3>3. buffer' \in [Slots -> Elem \cup {NoElem}]
      BY <2>4 DEF SendPut
    <3>4. count' \in 0..Capacity
      BY <2>4 DEF SendPut
    <3>5. arg' \in [Threads -> Elem \cup {NoElem}] /\ head' = head /\ closed' = closed /\ out' = out
      BY <2>4 DEF SendPut
    <3>. QED  BY <3>1, <3>2, <3>3, <3>4, <3>5
  <2>5. ASSUME NEW t \in Threads, RecvTake(t) PROVE TypeOK'
    <3>1. head' \in Slots
      BY <2>5, <1>0, WrapIndex DEF RecvTake
    <3>2. pc' \in [Threads -> Places]
      BY <2>5, TakeSignals DEF TakeEffect
    <3>3. out' \in [Threads -> Elem \cup {NoElem}]
      BY <2>5 DEF RecvTake
    <3>. QED  BY <2>5, <3>1, <3>2, <3>3 DEF RecvTake
  <2>6. ASSUME NEW t \in Threads, Close(t) PROVE TypeOK'
    BY <2>6 DEF Close, WakeAll
  <2>7. ASSUME NEW t \in Threads, SpuriousWakeup(t) PROVE TypeOK'
    BY <2>7 DEF SpuriousWakeup
  <2>8. CASE UNCHANGED vars
    BY <2>8 DEF vars
  <2>. QED  BY <2>1, <2>2, <2>3, <2>4, <2>5, <2>6, <2>7, <2>8 DEF Next, Advance
<1>. QED  BY <1>1, <1>2, PTL DEF SafeSpec

------------------------------------------------------------------------------
\* The ring counters agree and every slot in use was written by a send.
THEOREM RingCorrect == SafeSpec => []RingConsistent
<1>1. Init => RingConsistent
  <2> SUFFICES ASSUME Init PROVE RingConsistent
    OBVIOUS
  <2>1. (0 + 0) % Capacity = 0
    BY WrapIndex, CapacityPositive DEF Slots
  <2>. QED  BY <2>1 DEF Init, RingConsistent
<1>2. TypeOK /\ RingConsistent /\ [Next]_vars => RingConsistent'
  <2> SUFFICES ASSUME TypeOK, RingConsistent, [Next]_vars PROVE RingConsistent'
    OBVIOUS
  <2>1. ASSUME NEW t \in Threads, NEW e \in Elem, BeginSend(t, e) PROVE RingConsistent'
    BY <2>1 DEF BeginSend, RingConsistent, TypeOK
  <2>2. ASSUME NEW t \in Threads, BeginRecv(t) PROVE RingConsistent'
    BY <2>2 DEF BeginRecv, RingConsistent, TypeOK
  <2>3. ASSUME NEW t \in Threads, SendBlock(t) \/ SendClosed(t) \/ RecvBlock(t) \/ RecvClosed(t)
        PROVE RingConsistent'
    BY <2>3 DEF SendBlock, SendClosed, RecvBlock, RecvClosed, RingConsistent, TypeOK
  <2>4. ASSUME NEW t \in Threads, SendPut(t) PROVE RingConsistent'
    <3>0. /\ head' = head /\ count' = count + 1 /\ tail' = (tail + 1) % Capacity
          /\ buffer' = [buffer EXCEPT ![tail] = arg[t]] /\ arg[t] \in Elem
          /\ arg' = [arg EXCEPT ![t] = NoElem]
      BY <2>4 DEF SendPut, RingConsistent
    <3>1. head \in Slots /\ tail \in Slots /\ count \in 0..(Capacity - 1)
          /\ tail = (head + count) % Capacity
      BY <2>4, CapacityPositive DEF SendPut, TypeOK, RingConsistent
    <3>2. tail' = (head' + count') % Capacity
      <4>0. 1 \in 0..Capacity /\ count \in 0..Capacity /\ count + 1 \in 0..Capacity
        BY <3>1, CapacityPositive
      <4>1. (tail + 1) % Capacity = IF tail + 1 < Capacity THEN tail + 1 ELSE tail + 1 - Capacity
        BY <3>1, <4>0, WrapIndex
      <4>2. tail = IF head + count < Capacity THEN head + count ELSE head + count - Capacity
        BY <3>1, <4>0, WrapIndex
      <4>3. (head + (count + 1)) % Capacity
              = IF head + (count + 1) < Capacity THEN head + (count + 1)
                                                 ELSE head + (count + 1) - Capacity
        BY <3>1, <4>0, WrapIndex
      <4>. QED  BY <3>0, <3>1, <4>1, <4>2, <4>3, CapacityPositive DEF Slots
    <3>3. ASSUME NEW i \in 0..(count' - 1) PROVE buffer'[(head' + i) % Capacity] \in Elem
      <4>1. i \in 0..count /\ i \in 0..Capacity
        BY <3>0, <3>1, CapacityPositive
      <4>2. (head + i) % Capacity \in Slots
        BY <4>1, <3>1, WrapIndex
      <4>3. CASE i = count
        BY <4>2, <4>3, <3>0, <3>1 DEF TypeOK
      <4>4. CASE i # count
        <5>1. i \in 0..(count - 1) /\ i < count /\ count - i < Capacity /\ count \in 0..Capacity
          BY <4>1, <4>4, <3>1, CapacityPositive
        <5>2. (head + i) % Capacity # tail
          BY <5>1, <4>1, <3>1, WrapDistinct
        <5>3. buffer[(head + i) % Capacity] \in Elem
          BY <5>1 DEF RingConsistent
        <5>. QED  BY <3>0, <4>2, <5>2, <5>3 DEF TypeOK
      <4>. QED  BY <4>3, <4>4
    <3>4. \A u \in Threads : pc'[u] \in {"send", "sendWait"} => arg'[u] \in Elem
      <4>1. \A u \in Threads : pc'[u] \in {"send", "sendWait"}
                                => pc[u] \in {"send", "sendWait"} /\ u # t
        BY <2>4, PutSignals DEF PutEffect
      <4>. QED  BY <3>0, <4>1 DEF RingConsistent, TypeOK
    <3>. QED  BY <3>2, <3>3, <3>4 DEF RingConsistent
  <2>5. ASSUME NEW t \in Threads, RecvTake(t) PROVE RingConsistent'
    <3>0. /\ head' = (head + 1) % Capacity /\ count' = count - 1
          /\ tail' = tail /\ buffer' = buffer /\ arg' = arg
          /\ count \in 1..Capacity /\ head \in Slots
      BY <2>5, CapacityPositive DEF RecvTake, TypeOK
    <3>1. \A i \in 0..(count - 1) : (head' + i) % Capacity = (head + (i + 1)) % Capacity
      BY <3>0, WrapShift, CapacityPositive
    <3>2. tail' = (head' + count') % Capacity
      <4>1. (head' + (count - 1)) % Capacity = (head + ((count - 1) + 1)) % Capacity
        BY <3>0, <3>1
      <4>2. (count - 1) + 1 = count
        BY <3>0
      <4>. QED  BY <3>0, <4>1, <4>2 DEF RingConsistent
    <3>3. ASSUME NEW i \in 0..(count' - 1) PROVE buffer'[(head' + i) % Capacity] \in Elem
      <4>1. i \in 0..(count - 1) /\ i + 1 \in 0..(count - 1)
        BY <3>0
      <4>2. buffer[(head + (i + 1)) % Capacity] \in Elem
        BY <4>1 DEF RingConsistent
      <4>. QED  BY <4>1, <4>2, <3>0, <3>1
    <3>4. \A u \in Threads : pc'[u] \in {"send", "sendWait"} => arg'[u] \in Elem
      <4>1. \A u \in Threads : pc'[u] \in {"send", "sendWait"} => pc[u] \in {"send", "sendWait"}
        BY <2>5, TakeSignals DEF TakeEffect
      <4>. QED  BY <3>0, <4>1 DEF RingConsistent
    <3>. QED  BY <3>2, <3>3, <3>4 DEF RingConsistent
  <2>6. ASSUME NEW t \in Threads, Close(t) PROVE RingConsistent'
    BY <2>6 DEF Close, WakeAll, RingConsistent, TypeOK
  <2>7. ASSUME NEW t \in Threads, SpuriousWakeup(t) PROVE RingConsistent'
    BY <2>7 DEF SpuriousWakeup, RingConsistent, TypeOK
  <2>8. CASE UNCHANGED vars
    BY <2>8 DEF vars, RingConsistent
  <2>. QED  BY <2>1, <2>2, <2>3, <2>4, <2>5, <2>6, <2>7, <2>8 DEF Next, Advance
<1>. QED  BY <1>1, <1>2, TypeCorrect, PTL DEF SafeSpec

------------------------------------------------------------------------------
\* Channel_Close wakes every sleeper, and a closed channel puts nobody to sleep.
THEOREM CloseCorrect == SafeSpec => []ClosedWakesAll
<1>1. Init => ClosedWakesAll
  BY DEF Init, ClosedWakesAll
<1>2. TypeOK /\ ClosedWakesAll /\ [Next]_vars => ClosedWakesAll'
  <2> SUFFICES ASSUME TypeOK, ClosedWakesAll, [Next]_vars PROVE ClosedWakesAll'
    OBVIOUS
  <2> USE DEF ClosedWakesAll, At, TypeOK
  <2>1. ASSUME NEW t \in Threads, NEW e \in Elem, BeginSend(t, e) PROVE ClosedWakesAll'
    BY <2>1 DEF BeginSend
  <2>2. ASSUME NEW t \in Threads, BeginRecv(t) PROVE ClosedWakesAll'
    BY <2>2 DEF BeginRecv
  <2>3. ASSUME NEW t \in Threads, SendBlock(t) \/ SendClosed(t) \/ RecvBlock(t) \/ RecvClosed(t)
        PROVE ClosedWakesAll'
    BY <2>3 DEF SendBlock, SendClosed, RecvBlock, RecvClosed
  <2>4. ASSUME NEW t \in Threads, SendPut(t) PROVE ClosedWakesAll'
    BY <2>4 DEF SendPut
  <2>5. ASSUME NEW t \in Threads, RecvTake(t) PROVE ClosedWakesAll'
    BY <2>5, TakeSignals DEF RecvTake, TakeEffect
  <2>6. ASSUME NEW t \in Threads, Close(t) PROVE ClosedWakesAll'
    BY <2>6 DEF Close, WakeAll
  <2>7. ASSUME NEW t \in Threads, SpuriousWakeup(t) PROVE ClosedWakesAll'
    BY <2>7 DEF SpuriousWakeup
  <2>8. CASE UNCHANGED vars
    BY <2>8 DEF vars
  <2>. QED  BY <2>1, <2>2, <2>3, <2>4, <2>5, <2>6, <2>7, <2>8 DEF Next, Advance
<1>. QED  BY <1>1, <1>2, TypeCorrect, PTL DEF SafeSpec

\* Closing is final: no value enters a closed channel.
THEOREM CloseIsFinal == SafeSpec => NoSendAfterClose
<1>1. TypeOK /\ [Next]_vars => [closed => closed' /\ count' <= count]_vars
  <2> SUFFICES ASSUME TypeOK, closed, Next PROVE closed' /\ count' <= count
    BY DEF vars
  <2>0. count \in Int
    BY CapacityPositive DEF TypeOK
  <2>1. closed' = closed \/ closed' = TRUE
    BY DEF Next, Advance, BeginSend, BeginRecv, SendBlock, SendClosed, SendPut,
           RecvBlock, RecvClosed, RecvTake, Close, SpuriousWakeup
  <2>2. count' <= count
    <3>1. count' = count \/ count' = count - 1
      BY DEF Next, Advance, BeginSend, BeginRecv, SendBlock, SendClosed, SendPut,
             RecvBlock, RecvClosed, RecvTake, Close, SpuriousWakeup
    <3>. QED  BY <2>0, <3>1
  <2>. QED  BY <2>1, <2>2, Zenon
<1>. QED  BY <1>1, TypeCorrect, PTL DEF SafeSpec, NoSendAfterClose

------------------------------------------------------------------------------
\* Counting threads.
LEMMA CountThreads ==
    ASSUME NEW S \in SUBSET Threads
    PROVE  IsFiniteSet(S) /\ Cardinality(S) \in Nat
  BY ThreadsFinite, FS_Subset, FS_CardinalityType

LEMMA CountMono ==
    ASSUME NEW S \in SUBSET Threads, NEW T \in SUBSET S
    PROVE  Cardinality(T) <= Cardinality(S)
  BY CountThreads, FS_Subset

LEMMA CountAdd ==
    ASSUME NEW S \in SUBSET Threads, NEW t \in Threads, t \notin S
    PROVE  Cardinality(S \cup {t}) = Cardinality(S) + 1
  BY CountThreads, FS_AddElement

LEMMA CountRemove ==
    ASSUME NEW S \in SUBSET Threads, NEW t \in S
    PROVE  Cardinality(S \ {t}) = Cardinality(S) - 1
  BY CountThreads, FS_RemoveElement

\* A step that lets no receiver fall asleep, sends none away and adds no value
\* keeps NoLostRecvWakeup; the same for senders and free slots.
LEMMA RecvMonotone ==
    ASSUME TypeOK, TypeOK', NoLostRecvWakeup, count' <= count,
           At("recvWait")' \subseteq At("recvWait"), At("recv") \subseteq At("recv")'
    PROVE  NoLostRecvWakeup'
<1>1. Cardinality(At("recv")) <= Cardinality(At("recv")')
  BY CountMono DEF At
<1>2. Cardinality(At("recv")) \in Nat /\ Cardinality(At("recv")') \in Nat
  BY CountThreads DEF At
<1>. QED  BY <1>1, <1>2, CapacityPositive DEF NoLostRecvWakeup, TypeOK

LEMMA SendMonotone ==
    ASSUME TypeOK, TypeOK', NoLostSendWakeup, count <= count',
           At("sendWait")' \subseteq At("sendWait"), At("send") \subseteq At("send")'
    PROVE  NoLostSendWakeup'
<1>1. Cardinality(At("send")) <= Cardinality(At("send")')
  BY CountMono DEF At
<1>2. Cardinality(At("send")) \in Nat /\ Cardinality(At("send")') \in Nat
  BY CountThreads DEF At
<1>. QED  BY <1>1, <1>2, CapacityPositive DEF NoLostSendWakeup, TypeOK

\* One signal per value is enough: no receiver sleeps through a value.
THEOREM RecvWakeupCorrect == SafeSpec => []NoLostRecvWakeup
<1>1. Init => NoLostRecvWakeup
  BY DEF Init, NoLostRecvWakeup, At
<1>2. TypeOK /\ TypeOK' /\ NoLostRecvWakeup /\ [Next]_vars => NoLostRecvWakeup'
  <2> SUFFICES ASSUME TypeOK, TypeOK', NoLostRecvWakeup, [Next]_vars PROVE NoLostRecvWakeup'
    OBVIOUS
  <2>0. count \in Int /\ count' \in Int
    BY CapacityPositive DEF TypeOK
  <2>1. ASSUME NEW t \in Threads, NEW e \in Elem, BeginSend(t, e) PROVE NoLostRecvWakeup'
    <3>1. count' = count /\ At("recvWait")' \subseteq At("recvWait") /\ At("recv") \subseteq At("recv")'
      BY <2>1 DEF BeginSend, At, TypeOK
    <3>. QED  BY <2>0, <3>1, RecvMonotone
  <2>2. ASSUME NEW t \in Threads, BeginRecv(t) PROVE NoLostRecvWakeup'
    <3>1. count' = count /\ At("recvWait")' \subseteq At("recvWait") /\ At("recv") \subseteq At("recv")'
      BY <2>2 DEF BeginRecv, At, TypeOK
    <3>. QED  BY <2>0, <3>1, RecvMonotone
  <2>3. ASSUME NEW t \in Threads, SendBlock(t) \/ SendClosed(t) PROVE NoLostRecvWakeup'
    <3>1. count' = count /\ At("recvWait")' \subseteq At("recvWait") /\ At("recv") \subseteq At("recv")'
      BY <2>3 DEF SendBlock, SendClosed, At, TypeOK
    <3>. QED  BY <2>0, <3>1, RecvMonotone
  <2>4. ASSUME NEW t \in Threads, RecvBlock(t) \/ RecvClosed(t) PROVE NoLostRecvWakeup'
    <3>1. count' = 0
      BY <2>4 DEF RecvBlock, RecvClosed
    <3>2. Cardinality(At("recv")') \in Nat
      BY CountThreads DEF At
    <3>. QED  BY <3>1, <3>2 DEF NoLostRecvWakeup
  <2>5. ASSUME NEW t \in Threads, SendPut(t) PROVE NoLostRecvWakeup'
    <3>1. CASE At("recvWait") = {}
      <4>1. At("recvWait")' = {}
        BY <2>5, <3>1, PutSignals DEF PutEffect, At
      <4>. QED  BY <4>1 DEF NoLostRecvWakeup
    <3>2. CASE At("recvWait") # {}
      <4>1. PICK w \in At("recvWait") : pc' = [[pc EXCEPT ![t] = "idle"] EXCEPT ![w] = "recv"]
        BY <2>5, <3>2 DEF SendPut, Signal, At, TypeOK
      <4>2. At("recv") \cup {w} \subseteq At("recv")' /\ w \in Threads /\ w \notin At("recv")
        BY <2>5, <4>1 DEF SendPut, At, TypeOK
      <4>3. Cardinality(At("recv") \cup {w}) = Cardinality(At("recv")) + 1
        BY <4>2, CountAdd DEF At
      <4>4. Cardinality(At("recv") \cup {w}) <= Cardinality(At("recv")')
        BY <4>2, CountMono DEF At
      <4>5. Cardinality(At("recv")) \in Nat /\ Cardinality(At("recv")') \in Nat
        BY CountThreads DEF At
      <4>6. count' = count + 1
        BY <2>5 DEF SendPut
      <4>. QED  BY <2>0, <3>2, <4>3, <4>4, <4>5, <4>6 DEF NoLostRecvWakeup
    <3>. QED  BY <3>1, <3>2
  <2>6. ASSUME NEW t \in Threads, RecvTake(t) PROVE NoLostRecvWakeup'
    <3>1. At("recv") \ {t} \subseteq At("recv")' /\ t \in At("recv")
          /\ At("recvWait")' \subseteq At("recvWait")
      BY <2>6, TakeSignals DEF RecvTake, TakeEffect, At
    <3>2. Cardinality(At("recv") \ {t}) = Cardinality(At("recv")) - 1
      BY <3>1, CountRemove DEF At
    <3>3. Cardinality(At("recv") \ {t}) <= Cardinality(At("recv")')
      BY <3>1, CountMono DEF At
    <3>4. Cardinality(At("recv")) \in Nat /\ Cardinality(At("recv")') \in Nat
      BY CountThreads DEF At
    <3>5. count' = count - 1
      BY <2>6 DEF RecvTake
    <3>. QED  BY <2>0, <3>1, <3>2, <3>3, <3>4, <3>5 DEF NoLostRecvWakeup
  <2>7. ASSUME NEW t \in Threads, Close(t) PROVE NoLostRecvWakeup'
    <3>1. At("recvWait")' = {}
      BY <2>7 DEF Close, WakeAll, At, TypeOK
    <3>. QED  BY <3>1 DEF NoLostRecvWakeup
  <2>8. ASSUME NEW t \in Threads, SpuriousWakeup(t) PROVE NoLostRecvWakeup'
    <3>1. count' = count /\ At("recvWait")' \subseteq At("recvWait") /\ At("recv") \subseteq At("recv")'
      BY <2>8 DEF SpuriousWakeup, At, TypeOK
    <3>. QED  BY <2>0, <3>1, RecvMonotone
  <2>9. CASE UNCHANGED vars
    BY <2>9 DEF vars, NoLostRecvWakeup, At
  <2>. QED  BY <2>1, <2>2, <2>3, <2>4, <2>5, <2>6, <2>7, <2>8, <2>9 DEF Next, Advance
<1>. QED  BY <1>1, <1>2, TypeCorrect, PTL DEF SafeSpec

\* Nor does a sender sleep through a free slot.
THEOREM SendWakeupCorrect == SafeSpec => []NoLostSendWakeup
<1>1. Init => NoLostSendWakeup
  BY DEF Init, NoLostSendWakeup, At
<1>2. TypeOK /\ TypeOK' /\ ClosedWakesAll /\ ClosedWakesAll' /\ NoLostSendWakeup /\ [Next]_vars
      => NoLostSendWakeup'
  <2> SUFFICES ASSUME TypeOK, TypeOK', ClosedWakesAll, ClosedWakesAll', NoLostSendWakeup, [Next]_vars
               PROVE  NoLostSendWakeup'
    OBVIOUS
  <2>0. count \in 0..Capacity /\ count' \in 0..Capacity /\ Capacity \in Int
    BY CapacityPositive DEF TypeOK
  <2>1. ASSUME NEW t \in Threads, NEW e \in Elem, BeginSend(t, e) PROVE NoLostSendWakeup'
    <3>1. count' = count /\ At("sendWait")' \subseteq At("sendWait") /\ At("send") \subseteq At("send")'
      BY <2>1 DEF BeginSend, At, TypeOK
    <3>. QED  BY <2>0, <3>1, SendMonotone
  <2>2. ASSUME NEW t \in Threads, BeginRecv(t) \/ RecvBlock(t) \/ RecvClosed(t) PROVE NoLostSendWakeup'
    <3>1. count' = count /\ At("sendWait")' \subseteq At("sendWait") /\ At("send") \subseteq At("send")'
      BY <2>2 DEF BeginRecv, RecvBlock, RecvClosed, At, TypeOK
    <3>. QED  BY <2>0, <3>1, SendMonotone
  <2>3. ASSUME NEW t \in Threads, SendBlock(t) PROVE NoLostSendWakeup'
    <3>1. count' = Capacity
      BY <2>0, <2>3 DEF SendBlock
    <3>2. Cardinality(At("send")') \in Nat
      BY CountThreads DEF At
    <3>. QED  BY <2>0, <3>1, <3>2 DEF NoLostSendWakeup
  <2>4. ASSUME NEW t \in Threads, SendClosed(t) PROVE NoLostSendWakeup'
    BY <2>4 DEF SendClosed, ClosedWakesAll, NoLostSendWakeup
  <2>5. ASSUME NEW t \in Threads, RecvTake(t) PROVE NoLostSendWakeup'
    <3>1. CASE At("sendWait") = {}
      <4>1. At("sendWait")' = {}
        BY <2>5, <3>1, TakeSignals DEF TakeEffect, At
      <4>. QED  BY <4>1 DEF NoLostSendWakeup
    <3>2. CASE At("sendWait") # {}
      <4>1. PICK w \in At("sendWait") : pc' = [[pc EXCEPT ![t] = "idle"] EXCEPT ![w] = "send"]
        BY <2>5, <3>2 DEF RecvTake, Signal, At, TypeOK
      <4>2. At("send") \cup {w} \subseteq At("send")' /\ w \in Threads /\ w \notin At("send")
        BY <2>5, <4>1 DEF RecvTake, At, TypeOK
      <4>3. Cardinality(At("send") \cup {w}) = Cardinality(At("send")) + 1
        BY <4>2, CountAdd DEF At
      <4>4. Cardinality(At("send") \cup {w}) <= Cardinality(At("send")')
        BY <4>2, CountMono DEF At
      <4>5. Cardinality(At("send")) \in Nat /\ Cardinality(At("send")') \in Nat
        BY CountThreads DEF At
      <4>6. count' = count - 1
        BY <2>5 DEF RecvTake
      <4>. QED  BY <2>0, <3>2, <4>3, <4>4, <4>5, <4>6 DEF NoLostSendWakeup
    <3>. QED  BY <3>1, <3>2
  <2>6. ASSUME NEW t \in Threads, SendPut(t) PROVE NoLostSendWakeup'
    <3>1. At("send") \ {t} \subseteq At("send")' /\ t \in At("send")
          /\ At("sendWait")' \subseteq At("sendWait")
      BY <2>6, PutSignals DEF SendPut, PutEffect, At
    <3>2. Cardinality(At("send") \ {t}) = Cardinality(At("send")) - 1
      BY <3>1, CountRemove DEF At
    <3>3. Cardinality(At("send") \ {t}) <= Cardinality(At("send")')
      BY <3>1, CountMono DEF At
    <3>4. Cardinality(At("send")) \in Nat /\ Cardinality(At("send")') \in Nat
      BY CountThreads DEF At
    <3>5. count' = count + 1
      BY <2>6 DEF SendPut
    <3>. QED  BY <2>0, <3>1, <3>2, <3>3, <3>4, <3>5 DEF NoLostSendWakeup
  <2>7. ASSUME NEW t \in Threads, Close(t) PROVE NoLostSendWakeup'
    <3>1. At("sendWait")' = {}
      BY <2>7 DEF Close, WakeAll, At, TypeOK
    <3>. QED  BY <3>1 DEF NoLostSendWakeup
  <2>8. ASSUME NEW t \in Threads, SpuriousWakeup(t) PROVE NoLostSendWakeup'
    <3>1. count' = count /\ At("sendWait")' \subseteq At("sendWait") /\ At("send") \subseteq At("send")'
      BY <2>8 DEF SpuriousWakeup, At, TypeOK
    <3>. QED  BY <2>0, <3>1, SendMonotone
  <2>9. CASE UNCHANGED vars
    BY <2>9 DEF vars, NoLostSendWakeup, At
  <2>. QED  BY <2>1, <2>2, <2>3, <2>4, <2>5, <2>6, <2>7, <2>8, <2>9 DEF Next, Advance
<1>. QED  BY <1>1, <1>2, TypeCorrect, CloseCorrect, PTL DEF SafeSpec

------------------------------------------------------------------------------
(***************************************************************************)
(* The safety part of the refinement: under the mapping of BuxChannel,     *)
(* every step of the ring buffer is a step of the queue or stutters.       *)
(***************************************************************************)
QueueIsRun ==
    /\ QueueOf \in Seq(Elem)
    /\ Len(QueueOf) = count
    /\ \A i \in 1..count : QueueOf[i] = buffer[(head + (i - 1)) % Capacity]

LEMMA QueueShape == TypeOK /\ RingConsistent => QueueIsRun
<1> SUFFICES ASSUME TypeOK, RingConsistent PROVE QueueIsRun
  OBVIOUS
<1>1. count \in Nat /\ head \in Int
  BY CapacityPositive DEF TypeOK, Slots
<1>2. \A i \in 1..count : head + i - 1 = head + (i - 1) /\ i - 1 \in 0..(count - 1)
  BY <1>1
<1>3. \A i \in 1..count : QueueOf[i] = buffer[(head + (i - 1)) % Capacity] /\ QueueOf[i] \in Elem
  BY <1>2 DEF QueueOf, RingConsistent
<1>4. QueueOf \in [1..count -> Elem]
  BY <1>3 DEF QueueOf
<1>. QED  BY <1>1, <1>3, <1>4 DEF QueueIsRun

\* A send appends to the queue.
LEMMA PutAppends ==
    ASSUME TypeOK, TypeOK', RingConsistent, RingConsistent', NEW t \in Threads, SendPut(t)
    PROVE  QueueOf' = Append(QueueOf, arg[t])
<1>1. /\ head' = head /\ count' = count + 1 /\ buffer' = [buffer EXCEPT ![tail] = arg[t]]
      /\ tail = (head + count) % Capacity /\ arg[t] \in Elem
  BY DEF SendPut, RingConsistent
<1>2. count \in 0..(Capacity - 1) /\ head \in Slots /\ tail \in Slots
  BY CapacityPositive DEF SendPut, TypeOK
<1>3. /\ QueueOf' \in Seq(Elem) /\ Len(QueueOf') = count + 1
      /\ \A i \in 1..(count + 1) : QueueOf'[i] = buffer'[(head + (i - 1)) % Capacity]
  <2>1. QueueIsRun'
    BY QueueShape, PTL
  <2>. QED  BY <1>1, <2>1 DEF QueueIsRun
<1>4. ASSUME NEW i \in 1..count PROVE QueueOf'[i] = QueueOf[i]
  <2>1. i - 1 \in 0..Capacity
    BY <1>2, CapacityPositive
  <2>2. (head + (i - 1)) % Capacity # tail
    <3>1. i - 1 \in 0..Capacity /\ count \in 0..Capacity /\ i - 1 < count /\ count - (i - 1) < Capacity
      BY <1>2, CapacityPositive
    <3>. QED  BY <1>1, <1>2, <3>1, WrapDistinct
  <2>3. (head + (i - 1)) % Capacity \in Slots
    BY <1>2, <2>1, WrapIndex, CapacityPositive
  <2>4. buffer'[(head + (i - 1)) % Capacity] = buffer[(head + (i - 1)) % Capacity]
    BY <1>1, <2>2, <2>3 DEF TypeOK
  <2>5. QueueOf[i] = buffer[(head + (i - 1)) % Capacity]
    BY QueueShape DEF QueueIsRun
  <2>6. i \in 1..(count + 1)
    BY <1>2
  <2>. QED  BY <1>3, <2>4, <2>5, <2>6
<1>5. QueueOf'[count + 1] = arg[t]
  <2>1. (count + 1) - 1 = count /\ count + 1 \in 1..(count + 1)
    BY <1>2
  <2>2. QueueOf'[count + 1] = buffer'[(head + ((count + 1) - 1)) % Capacity]
    BY <1>3, <2>1
  <2>. QED  BY <1>1, <1>2, <2>1, <2>2 DEF TypeOK
<1>6. QueueOf \in Seq(Elem) /\ Len(QueueOf) = count
  BY QueueShape DEF QueueIsRun
<1>7. Append(QueueOf, arg[t]) \in Seq(Elem) /\ Len(Append(QueueOf, arg[t])) = count + 1
  BY <1>1, <1>2, <1>6
<1>8. \A i \in 1..(count + 1) : QueueOf'[i] = Append(QueueOf, arg[t])[i]
  BY <1>2, <1>4, <1>5, <1>6
<1>. QED  BY <1>2, <1>3, <1>7, <1>8

\* A receive takes the head of the queue.
LEMMA TakeRemovesHead ==
    ASSUME TypeOK, TypeOK', RingConsistent, RingConsistent', NEW t \in Threads, RecvTake(t)
    PROVE  /\ QueueOf # <<>>
           /\ buffer[head] = Head(QueueOf)
           /\ QueueOf' = Tail(QueueOf)
<1>1. /\ head' = (head + 1) % Capacity /\ count' = count - 1 /\ buffer' = buffer
      /\ count \in 1..Capacity /\ head \in Slots
  BY CapacityPositive DEF RecvTake, TypeOK
<1>2. QueueOf \in Seq(Elem) /\ Len(QueueOf) = count /\ QueueOf # <<>>
  BY <1>1, QueueShape DEF QueueIsRun
<1>3. /\ QueueOf' \in Seq(Elem) /\ Len(QueueOf') = count - 1
      /\ \A i \in 1..(count - 1) : QueueOf'[i] = buffer[(head' + (i - 1)) % Capacity]
  <2>1. QueueIsRun'
    BY QueueShape, PTL
  <2>. QED  BY <1>1, <2>1 DEF QueueIsRun
<1>4. buffer[head] = Head(QueueOf)
  <2>1. (head + (1 - 1)) % Capacity = head
    <3>1. 0 \in 0..Capacity /\ 1 - 1 = 0
      BY CapacityPositive
    <3>2. (head + 0) % Capacity = IF head + 0 < Capacity THEN head + 0 ELSE head + 0 - Capacity
      BY <1>1, <3>1, WrapIndex
    <3>. QED  BY <1>1, <3>1, <3>2, CapacityPositive DEF Slots
  <2>2. QueueOf[1] = buffer[(head + (1 - 1)) % Capacity]
    BY <1>1, QueueShape DEF QueueIsRun
  <2>. QED  BY <1>2, <2>1, <2>2
<1>5. ASSUME NEW i \in 1..(count - 1) PROVE QueueOf'[i] = QueueOf[i + 1]
  <2>1. i - 1 \in 0..(Capacity - 1) /\ i + 1 \in 1..count /\ (i + 1) - 1 = i /\ (i - 1) + 1 = i
    BY <1>1, CapacityPositive
  <2>2. (head' + (i - 1)) % Capacity = (head + ((i - 1) + 1)) % Capacity
    BY <1>1, <2>1, WrapShift
  <2>3. QueueOf[i + 1] = buffer[(head + ((i + 1) - 1)) % Capacity]
    BY <2>1, QueueShape DEF QueueIsRun
  <2>. QED  BY <1>3, <2>1, <2>2, <2>3
<1>6. Tail(QueueOf) \in Seq(Elem) /\ Len(Tail(QueueOf)) = count - 1
      /\ \A i \in 1..(count - 1) : Tail(QueueOf)[i] = QueueOf[i + 1]
  BY <1>1, <1>2
<1>7. QueueOf' = Tail(QueueOf)
  BY <1>1, <1>3, <1>5, <1>6
<1>. QED  BY <1>2, <1>4, <1>7

\* The program counter under the mapping: sleeping is invisible.
LEMMA CallShape ==
    ASSUME TypeOK
    PROVE  /\ CallOf \in [Threads -> {"idle", "send", "recv"}]
           /\ \A t \in Threads : /\ CallOf[t] = "idle" <=> pc[t] = "idle"
                                 /\ CallOf[t] = "send" <=> pc[t] \in {"send", "sendWait"}
                                 /\ CallOf[t] = "recv" <=> pc[t] \in {"recv", "recvWait"}
  BY DEF TypeOK, CallOf, Places

\* The queue does not move when the ring does not.
LEMMA QueueStays ==
    ASSUME head' = head, count' = count, buffer' = buffer
    PROVE  QueueOf' = QueueOf
  BY DEF QueueOf

\* Every step of the ring buffer is allowed by the queue.
LEMMA StepRefines ==
    TypeOK /\ TypeOK' /\ RingConsistent /\ RingConsistent' /\ [Next]_vars
      => [Abstract!Next]_(Abstract!vars)
<1> SUFFICES ASSUME TypeOK, TypeOK', RingConsistent, RingConsistent', [Next]_vars
             PROVE  [Abstract!Next]_(Abstract!vars)
  OBVIOUS
<1> USE DEF Abstract!Next, Abstract!vars
<1>0. /\ CallOf \in [Threads -> {"idle", "send", "recv"}]
      /\ pc \in [Threads -> Places] /\ pc' \in [Threads -> Places]
  BY CallShape DEF TypeOK
<1>1. ASSUME NEW t \in Threads, NEW e \in Elem, BeginSend(t, e) PROVE Abstract!BeginSend(t, e)
  <2>1. CallOf[t] = "idle" /\ CallOf' = [CallOf EXCEPT ![t] = "send"]
    BY <1>0, <1>1 DEF BeginSend, CallOf, Places
  <2>2. QueueOf' = QueueOf
    BY <1>1, QueueStays DEF BeginSend
  <2>. QED  BY <1>1, <2>1, <2>2 DEF BeginSend, Abstract!BeginSend
<1>2. ASSUME NEW t \in Threads, BeginRecv(t) PROVE Abstract!BeginRecv(t)
  <2>1. CallOf[t] = "idle" /\ CallOf' = [CallOf EXCEPT ![t] = "recv"]
    BY <1>0, <1>2 DEF BeginRecv, CallOf, Places
  <2>2. QueueOf' = QueueOf
    BY <1>2, QueueStays DEF BeginRecv
  <2>. QED  BY <1>2, <2>1, <2>2 DEF BeginRecv, Abstract!BeginRecv
<1>3. ASSUME NEW t \in Threads, SendBlock(t) \/ RecvBlock(t) \/ SpuriousWakeup(t)
      PROVE  UNCHANGED Abstract!vars
  <2>1. CallOf' = CallOf
    BY <1>0, <1>3 DEF SendBlock, RecvBlock, SpuriousWakeup, CallOf, Places
  <2>2. QueueOf' = QueueOf
    BY <1>3, QueueStays DEF SendBlock, RecvBlock, SpuriousWakeup
  <2>. QED  BY <1>3, <2>1, <2>2 DEF SendBlock, RecvBlock, SpuriousWakeup
<1>4. ASSUME NEW t \in Threads, SendClosed(t) PROVE Abstract!Enqueue(t)
  <2>1. CallOf[t] = "send" /\ CallOf' = [CallOf EXCEPT ![t] = "idle"]
    BY <1>0, <1>4 DEF SendClosed, CallOf, Places
  <2>2. QueueOf' = QueueOf
    BY <1>4, QueueStays DEF SendClosed
  <2>. QED  BY <1>4, <2>1, <2>2 DEF SendClosed, Abstract!Enqueue
<1>5. ASSUME NEW t \in Threads, SendPut(t) PROVE Abstract!Enqueue(t)
  <2>1. CallOf[t] = "send"
    BY <1>0, <1>5 DEF SendPut, CallOf, Places
  <2>2. CallOf' = [CallOf EXCEPT ![t] = "idle"]
    BY <1>0, <1>5, PutSignals DEF PutEffect, CallOf, Places
  <2>3. Len(QueueOf) = count /\ QueueOf' = Append(QueueOf, arg[t])
    BY <1>5, QueueShape, PutAppends DEF QueueIsRun
  <2>4. Len(QueueOf) < Capacity /\ ~closed
    BY <1>5, <2>3 DEF SendPut
  <2>5. arg' = [arg EXCEPT ![t] = NoElem] /\ closed' = closed /\ out' = out
    BY <1>5 DEF SendPut
  <2>. QED  BY <2>1, <2>2, <2>3, <2>4, <2>5 DEF Abstract!Enqueue
<1>6. ASSUME NEW t \in Threads, RecvClosed(t) PROVE Abstract!Dequeue(t)
  <2>1. CallOf[t] = "recv" /\ CallOf' = [CallOf EXCEPT ![t] = "idle"]
    BY <1>0, <1>6 DEF RecvClosed, CallOf, Places
  <2>2. QueueOf' = QueueOf
    BY <1>6, QueueStays DEF RecvClosed
  <2>3. QueueOf = <<>>
    BY <1>6, QueueShape DEF QueueIsRun, RecvClosed
  <2>. QED  BY <1>6, <2>1, <2>2, <2>3 DEF RecvClosed, Abstract!Dequeue
<1>7. ASSUME NEW t \in Threads, RecvTake(t) PROVE Abstract!Dequeue(t)
  <2>1. CallOf[t] = "recv"
    BY <1>0, <1>7 DEF RecvTake, CallOf, Places
  <2>2. CallOf' = [CallOf EXCEPT ![t] = "idle"]
    BY <1>0, <1>7, TakeSignals DEF TakeEffect, CallOf, Places
  <2>3. QueueOf # <<>> /\ buffer[head] = Head(QueueOf) /\ QueueOf' = Tail(QueueOf)
    BY <1>7, TakeRemovesHead
  <2>4. out' = [out EXCEPT ![t] = buffer[head]] /\ closed' = closed /\ arg' = arg
    BY <1>7 DEF RecvTake
  <2>. QED  BY <2>1, <2>2, <2>3, <2>4 DEF Abstract!Dequeue
<1>8. ASSUME NEW t \in Threads, Close(t) PROVE Abstract!Close(t)
  <2>1. CallOf[t] = "idle" /\ CallOf' = CallOf
    BY <1>0, <1>8 DEF Close, WakeAll, CallOf, Places
  <2>2. QueueOf' = QueueOf
    BY <1>8, QueueStays DEF Close
  <2>. QED  BY <1>8, <2>1, <2>2 DEF Close, Abstract!Close
<1>9. CASE UNCHANGED vars
  BY <1>9, QueueStays DEF vars, CallOf
<1>. QED  BY <1>1, <1>2, <1>3, <1>4, <1>5, <1>6, <1>7, <1>8, <1>9 DEF Next, Advance

\* The ring buffer with its mutex and condition variables implements the
\* bounded queue: values come out once, in the order they went in.
THEOREM RefinesChannelSafety == SafeSpec => Abstract!SafeSpec
<1>1. Init => Abstract!Init
  <2> SUFFICES ASSUME Init PROVE Abstract!Init
    OBVIOUS
  <2>1. QueueOf = <<>>
    BY DEF Init, QueueOf
  <2>2. CallOf = [t \in Threads |-> "idle"]
    BY DEF Init, CallOf
  <2>. QED  BY <2>1, <2>2 DEF Init, Abstract!Init
<1>. QED  BY <1>1, StepRefines, TypeCorrect, RingCorrect, PTL DEF SafeSpec, Abstract!SafeSpec
==============================================================================
