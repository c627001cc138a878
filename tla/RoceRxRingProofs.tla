----------------------------- MODULE RoceRxRingProofs -----------------------------
(***************************************************************************)
(* For a receive ring of any size, any batch sizes and queues, on one       *)
(* thread or two, client or server: the dispatcher's indices agree with the *)
(* NIC, and every buffer has one owner.  Where worker and dispatcher share  *)
(* a thread, a freed buffer stays free until it is posted.                  *)
(*                                                                          *)
(* The argument: seen from recv_head_ backwards, the buffers on their way   *)
(* to a worker are one run of the ring (Live of them), all marked "posted"  *)
(* and none of them with the application.  rx_burst posts only what it      *)
(* finds free from recv_head_ on, so it can never run into that run; and    *)
(* what the application holds is never free, so it cannot run over that     *)
(* either.                                                                  *)
(***************************************************************************)
EXTENDS RoceRxRing, SequenceTheorems, FiniteSetTheorems, TLAPS

-----------------------------------------------------------------------------
(* Sequences without repetition *)

OneToOne(s) == \A i \in DOMAIN s, j \in DOMAIN s : s[i] = s[j] => i = j

Disjoint(s, t) == Elements(s) \intersect Elements(t) = {}

\* What Append adds to the elements of a sequence.
LEMMA AppendElements ==
  ASSUME NEW S, NEW s \in Seq(S), NEW x \in S
  PROVE  /\ Append(s, x) \in Seq(S)
         /\ Elements(Append(s, x)) = Elements(s) \union {x}
         /\ OneToOne(s) /\ x \notin Elements(s) => OneToOne(Append(s, x))
<1>1. /\ Append(s, x) \in Seq(S) /\ Len(Append(s, x)) = Len(s) + 1
      /\ \A i \in 1 .. Len(s) : Append(s, x)[i] = s[i]
      /\ Append(s, x)[Len(s) + 1] = x
  OBVIOUS
<1>2. DOMAIN s = 1 .. Len(s) /\ DOMAIN Append(s, x) = 1 .. Len(s) + 1 /\ Len(s) \in Nat
  BY <1>1
<1>3. Elements(Append(s, x)) = Elements(s) \union {x}
  BY <1>1, <1>2 DEF Elements
<1>4. ASSUME OneToOne(s), x \notin Elements(s) PROVE OneToOne(Append(s, x))
  BY <1>1, <1>2, <1>4 DEF Elements, OneToOne
<1> QED
  BY <1>1, <1>3, <1>4

\* What Tail takes away.
LEMMA TailElements ==
  ASSUME NEW S, NEW s \in Seq(S), s # <<>>
  PROVE  /\ Tail(s) \in Seq(S) /\ Head(s) \in S
         /\ Elements(s) = Elements(Tail(s)) \union {Head(s)}
         /\ OneToOne(s) => OneToOne(Tail(s)) /\ Head(s) \notin Elements(Tail(s))
<1>1. /\ Tail(s) \in Seq(S) /\ Head(s) \in S /\ Len(Tail(s)) = Len(s) - 1
      /\ \A i \in 1 .. Len(Tail(s)) : Tail(s)[i] = s[i + 1]
  BY HeadTailProperties
<1>2. /\ Len(s) \in Nat \ {0} /\ Head(s) = s[1]
      /\ DOMAIN s = 1 .. Len(s) /\ DOMAIN Tail(s) = 1 .. Len(s) - 1
  BY <1>1, LenProperties
<1>3. Elements(s) = Elements(Tail(s)) \union {Head(s)}
  <2>1. ASSUME NEW i \in DOMAIN s PROVE s[i] \in Elements(Tail(s)) \union {Head(s)}
    <3>1. CASE i = 1
      BY <1>2, <3>1
    <3>2. CASE i # 1
      <4>1. i - 1 \in DOMAIN Tail(s) /\ Tail(s)[i - 1] = s[i]
        BY <1>1, <1>2, <3>2
      <4> QED
        BY <4>1 DEF Elements
    <3> QED
      BY <3>1, <3>2
  <2>2. ASSUME NEW i \in DOMAIN Tail(s) PROVE Tail(s)[i] \in Elements(s)
    <3>1. i + 1 \in DOMAIN s /\ Tail(s)[i] = s[i + 1]
      BY <1>1, <1>2
    <3> QED
      BY <3>1 DEF Elements
  <2>3. Head(s) \in Elements(s)
    BY <1>2 DEF Elements
  <2> QED
    BY <2>1, <2>2, <2>3 DEF Elements
<1>4. ASSUME OneToOne(s) PROVE OneToOne(Tail(s)) /\ Head(s) \notin Elements(Tail(s))
  <2>1. \A i \in DOMAIN Tail(s) : i + 1 \in DOMAIN s /\ Tail(s)[i] = s[i + 1] /\ i + 1 # 1
    BY <1>1, <1>2
  <2>2. OneToOne(Tail(s))
    BY <2>1, <1>2, <1>4 DEF OneToOne
  <2>3. Head(s) \notin Elements(Tail(s))
    BY <2>1, <1>2, <1>4 DEF OneToOne, Elements
  <2> QED
    BY <2>2, <2>3
<1> QED
  BY <1>1, <1>3, <1>4

\* Two sequences in a row.
LEMMA ConcatElements ==
  ASSUME NEW S, NEW s \in Seq(S), NEW t \in Seq(S)
  PROVE  /\ s \o t \in Seq(S)
         /\ Elements(s \o t) = Elements(s) \union Elements(t)
         /\ OneToOne(s) /\ OneToOne(t) /\ Disjoint(s, t) => OneToOne(s \o t)
<1>1. /\ s \o t \in Seq(S) /\ Len(s \o t) = Len(s) + Len(t)
      /\ \A i \in 1 .. Len(s) + Len(t) :
           (s \o t)[i] = IF i <= Len(s) THEN s[i] ELSE t[i - Len(s)]
  BY ConcatProperties
<1>2. /\ Len(s) \in Nat /\ Len(t) \in Nat /\ DOMAIN (s \o t) = 1 .. Len(s) + Len(t)
      /\ DOMAIN s = 1 .. Len(s) /\ DOMAIN t = 1 .. Len(t)
  BY <1>1, LenProperties
<1>3. \A i \in DOMAIN (s \o t) :
        \/ i \in DOMAIN s /\ (s \o t)[i] = s[i]
        \/ i - Len(s) \in DOMAIN t /\ (s \o t)[i] = t[i - Len(s)]
  BY <1>1, <1>2
<1>4. \A i \in DOMAIN s : i \in DOMAIN (s \o t) /\ (s \o t)[i] = s[i]
  BY <1>1, <1>2
<1>5. \A i \in DOMAIN t : i + Len(s) \in DOMAIN (s \o t) /\ (s \o t)[i + Len(s)] = t[i]
  BY <1>1, <1>2
<1>6. Elements(s \o t) = Elements(s) \union Elements(t)
  <2>1. \A i \in DOMAIN (s \o t) : (s \o t)[i] \in Elements(s) \union Elements(t)
    BY <1>3 DEF Elements
  <2>2. \A i \in DOMAIN s : s[i] \in Elements(s \o t)
    BY <1>4 DEF Elements
  <2>3. \A i \in DOMAIN t : t[i] \in Elements(s \o t)
    BY <1>5 DEF Elements
  <2> QED
    BY <2>1, <2>2, <2>3 DEF Elements
<1>7. ASSUME OneToOne(s), OneToOne(t), Disjoint(s, t) PROVE OneToOne(s \o t)
  <2> SUFFICES ASSUME NEW i \in DOMAIN (s \o t), NEW j \in DOMAIN (s \o t),
                      (s \o t)[i] = (s \o t)[j]
               PROVE  i = j
    BY DEF OneToOne
  <2>1. \A k \in DOMAIN s, l \in DOMAIN t : s[k] # t[l]
    BY <1>7 DEF Disjoint, Elements
  <2>2. CASE i \in DOMAIN s /\ (s \o t)[i] = s[i]
    BY <2>1, <2>2, <1>3, <1>7 DEF OneToOne
  <2>3. CASE i - Len(s) \in DOMAIN t /\ (s \o t)[i] = t[i - Len(s)]
    <3>1. j - Len(s) \in DOMAIN t /\ (s \o t)[j] = t[j - Len(s)]
      BY <2>1, <2>3, <1>3
    <3>2. i - Len(s) = j - Len(s)
      BY <2>3, <3>1, <1>7 DEF OneToOne
    <3> QED
      BY <3>2, <1>2
  <2> QED
    BY <2>2, <2>3, <1>3
<1> QED
  BY <1>1, <1>6, <1>7

\* A sequence cut in two.
LEMMA CutElements ==
  ASSUME NEW S, NEW s \in Seq(S), NEW n \in 0 .. Len(s)
  PROVE  /\ SubSeq(s, n + 1, Len(s)) \in Seq(S)
         /\ Elements(s) = Elements(SubSeq(s, 1, n)) \union Elements(SubSeq(s, n + 1, Len(s)))
         /\ OneToOne(s) => /\ OneToOne(SubSeq(s, n + 1, Len(s)))
                           /\ Disjoint(SubSeq(s, 1, n), SubSeq(s, n + 1, Len(s)))
<1> DEFINE front == SubSeq(s, 1, n)
           back == SubSeq(s, n + 1, Len(s))
<1>1. /\ Len(s) \in Nat /\ DOMAIN s = 1 .. Len(s)
      /\ \A i \in 1 .. Len(s) : s[i] \in S
  BY LenProperties, ElementOfSeq
<1>2. /\ front \in Seq(S) /\ Len(front) = n
      /\ \A i \in 1 .. n : front[i] = s[i]
  BY <1>1, SubSeqProperties
<1>3. /\ back \in Seq(S) /\ Len(back) = Len(s) - n
      /\ \A i \in 1 .. Len(s) - n : back[i] = s[n + i]
  <2>1. \A i \in n + 1 .. Len(s) : s[i] \in S
    BY <1>1
  <2>2. /\ back \in Seq(S)
        /\ Len(back) = IF n + 1 <= Len(s) THEN Len(s) - (n + 1) + 1 ELSE 0
        /\ \A i \in 1 .. Len(s) - (n + 1) + 1 : back[i] = s[n + 1 + i - 1]
    BY <1>1, <2>1, SubSeqProperties
  <2>3. Len(s) - (n + 1) + 1 = Len(s) - n
    BY <1>1
  <2>4. Len(back) = Len(s) - n
    <3>1. CASE n + 1 <= Len(s)
      BY <2>2, <2>3, <3>1
    <3>2. CASE ~(n + 1 <= Len(s))
      <4>1. \A k \in Nat : \A m \in 0 .. k : ~(m + 1 <= k) => k - m = 0
        OBVIOUS
      <4>2. Len(s) - n = 0
        BY <1>1, <3>2, <4>1
      <4> QED
        BY <2>2, <3>2, <4>2
    <3> QED
      BY <3>1, <3>2
  <2>5. ASSUME NEW i \in 1 .. Len(s) - n PROVE back[i] = s[n + i]
    <3>1. n + 1 + i - 1 = n + i
      BY <1>1
    <3> QED
      BY <2>2, <2>3, <3>1
  <2> QED
    BY <2>2, <2>4, <2>5
<1>4. DOMAIN front = 1 .. n /\ DOMAIN back = 1 .. Len(s) - n
  BY <1>2, <1>3, LenProperties
<1> HIDE DEF front, back
<1>5. \A i \in DOMAIN front : i \in DOMAIN s /\ front[i] = s[i]
  BY <1>1, <1>2, <1>4
<1>6. \A i \in DOMAIN back : n + i \in DOMAIN s /\ back[i] = s[n + i]
  BY <1>1, <1>3, <1>4
<1>7. \A i \in DOMAIN s :
        \/ i \in DOMAIN front /\ front[i] = s[i]
        \/ i - n \in DOMAIN back /\ back[i - n] = s[i]
  <2> SUFFICES ASSUME NEW i \in 1 .. Len(s)
               PROVE  \/ i \in 1 .. n /\ front[i] = s[i]
                      \/ i - n \in 1 .. Len(s) - n /\ back[i - n] = s[i]
    BY <1>1, <1>4
  <2>1. CASE i <= n
    BY <1>2, <2>1
  <2>2. CASE i > n
    <3>1. i - n \in 1 .. Len(s) - n /\ n + (i - n) = i
      BY <1>1, <2>2
    <3> QED
      BY <1>3, <3>1
  <2> QED
    BY <1>1, <2>1, <2>2
<1>8. Elements(s) = Elements(front) \union Elements(back)
  <2>1. \A i \in DOMAIN s : s[i] \in Elements(front) \union Elements(back)
    BY <1>7 DEF Elements
  <2>2. \A i \in DOMAIN front : front[i] \in Elements(s)
    BY <1>5 DEF Elements
  <2>3. \A i \in DOMAIN back : back[i] \in Elements(s)
    BY <1>6 DEF Elements
  <2> QED
    BY <2>1, <2>2, <2>3 DEF Elements
<1>9. ASSUME OneToOne(s) PROVE OneToOne(back) /\ Disjoint(front, back)
  <2>1. OneToOne(back)
    BY <1>1, <1>4, <1>6, <1>9 DEF OneToOne
  <2>2. ASSUME NEW i \in DOMAIN front, NEW j \in DOMAIN back PROVE front[i] # back[j]
    BY <1>1, <1>4, <1>5, <1>6, <1>9 DEF OneToOne
  <2> QED
    BY <2>1, <2>2 DEF Disjoint, Elements
<1> QED
  BY <1>3, <1>8, <1>9 DEF front, back

\* As many elements as places.
LEMMA CountElements ==
  ASSUME NEW S, NEW s \in Seq(S), OneToOne(s)
  PROVE  Cardinality(Elements(s)) = Len(s)
<1>1. Len(s) \in Nat /\ DOMAIN s = 1 .. Len(s) /\ s \in [1 .. Len(s) -> S]
  BY LenProperties
<1>2. s \in Bijection(1 .. Len(s), Elements(s))
  BY <1>1 DEF Bijection, Injection, IsInjective, Surjection, Elements, OneToOne
<1>3. ExistsBijection(1 .. Len(s), Elements(s))
  BY <1>2 DEF ExistsBijection
<1> QED
  BY <1>1, <1>3, FS_CountingElements

-----------------------------------------------------------------------------
(* The ring seen from recv_head_ backwards *)

\* The buffer k places before recv_head_.
Back(k) == IF k <= recv_head_ THEN recv_head_ - k ELSE recv_head_ + RingSize - k

\* The modulus of an index less than two rings.
LEMMA Folding ==
  ASSUME NEW i \in Nat, i < 2 * RingSize
  PROVE  i % RingSize = IF i < RingSize THEN i ELSE i - RingSize
<1>1. RingSize \in Nat \ {0}
  BY RingAssumption
<1>2. CASE i < RingSize
  BY <1>1, <1>2, SMT
<1>3. CASE i >= RingSize
  BY <1>1, <1>3, SMTT(30)
<1> QED
  BY <1>1, <1>2, <1>3

\* next_ followed n times, without the modulus.
LEMMA OnwardFolded ==
  ASSUME NEW b \in Buffers, NEW n \in 0 .. RingSize
  PROVE  /\ Onward(b, n) = IF b + n < RingSize THEN b + n ELSE b + n - RingSize
         /\ Onward(b, n) \in Buffers
<1>1. RingSize \in Nat \ {0} /\ b + n \in Nat /\ b + n < 2 * RingSize
  BY RingAssumption DEF Buffers
<1> QED
  BY <1>1, Folding DEF Onward, Buffers

\* Counting back names each buffer once, and Onward counts forth again.
LEMMA BackFacts ==
  ASSUME recv_head_ \in Buffers
  PROVE  /\ \A k \in 0 .. RingSize : Back(k) \in Buffers
         /\ Back(0) = recv_head_
         /\ Back(RingSize) = recv_head_
         /\ \A k \in 1 .. RingSize, l \in 1 .. RingSize : Back(k) = Back(l) => k = l
         /\ \A k \in 0 .. RingSize : \A n \in 0 .. k : Onward(Back(k), n) = Back(k - n)
<1>1. RingSize \in Nat \ {0}
  BY RingAssumption
<1>2. \A k \in 0 .. RingSize : Back(k) \in Buffers
  BY <1>1 DEF Back, Buffers
<1>3. Back(0) = recv_head_ /\ Back(RingSize) = recv_head_
  BY <1>1 DEF Back, Buffers
<1>4. \A k \in 1 .. RingSize, l \in 1 .. RingSize : Back(k) = Back(l) => k = l
  BY <1>1 DEF Back, Buffers
<1>5. ASSUME NEW k \in 0 .. RingSize, NEW n \in 0 .. k
      PROVE  Onward(Back(k), n) = Back(k - n)
  <2>1. /\ n \in 0 .. RingSize /\ Back(k) \in Buffers
        /\ Onward(Back(k), n) = IF Back(k) + n < RingSize THEN Back(k) + n
                                                          ELSE Back(k) + n - RingSize
    BY <1>1, <1>2, OnwardFolded
  <2> QED
    BY <1>1, <2>1 DEF Back, Buffers
<1> QED
  BY <1>2, <1>3, <1>4, <1>5

-----------------------------------------------------------------------------
(* The inductive invariant *)

\* The indices, as distances from recv_head_.
Ring ==
  /\ wait_for_disp_ + recvCq + nicPosted <= RingSize
  /\ nicNext = Back(nicPosted)
  /\ ring_head_ = Back(wait_for_disp_ + recvCq + nicPosted)

\* Where the dispatching loop is.
Loop ==
  /\ toDispatch <= wait_for_disp_
  /\ toDispatch = 0 => ~marking
  /\ toDispatch > 0 => entry = Back(toDispatch + recvCq + nicPosted)

\* Buffers posted, completed or waiting for dispatch, and those given away.
Live == NotDispatched + recvCq + nicPosted
InHands ==
  Elements(rxQueue) \union Elements(held) \union Elements(txQueue)
  \union Elements(collected) \union Elements(sending)

LiveApart == \A k \in 1 .. Live : state_[Back(k)] = "posted" /\ Back(k) \notin InHands

HandsNotFree == \A b \in InHands : state_[b] # "free"

\* Nothing is twice in a queue, nor in two.
OneHand ==
  /\ OneToOne(rxQueue) /\ OneToOne(held) /\ OneToOne(txQueue)
  /\ OneToOne(collected) /\ OneToOne(sending)
  /\ Disjoint(rxQueue, held) /\ Disjoint(rxQueue, txQueue)
  /\ Disjoint(rxQueue, collected) /\ Disjoint(rxQueue, sending)
  /\ Disjoint(held, txQueue) /\ Disjoint(held, collected) /\ Disjoint(held, sending)
  /\ Disjoint(txQueue, collected) /\ Disjoint(txQueue, sending)
  /\ Disjoint(collected, sending)

IInv == TypeOK /\ Ring /\ Loop /\ LiveApart /\ HandsNotFree /\ OneHand

-----------------------------------------------------------------------------
(* Every step keeps it *)

\* What NotDispatched is at each point of the loop, and the bounds it gives.
LEMMA LiveBounds ==
  ASSUME IInv
  PROVE  /\ RingSize \in Nat \ {0}
         /\ toDispatch = 0 => NotDispatched = wait_for_disp_
         /\ toDispatch > 0 /\ marking => NotDispatched = toDispatch - 1
         /\ toDispatch > 0 /\ ~marking => NotDispatched = toDispatch
         /\ NotDispatched \in Nat /\ NotDispatched <= wait_for_disp_
         /\ Live \in 0 .. RingSize
<1>1. /\ RingSize \in Nat \ {0} /\ wait_for_disp_ \in Nat /\ toDispatch \in Nat
      /\ recvCq \in Nat /\ nicPosted \in Nat /\ marking \in BOOLEAN
      /\ wait_for_disp_ + recvCq + nicPosted <= RingSize /\ toDispatch <= wait_for_disp_
  BY RingAssumption DEF IInv, TypeOK, Ring, Loop
<1>2. toDispatch = 0 => NotDispatched = wait_for_disp_
  BY DEF NotDispatched
<1>3. toDispatch > 0 /\ marking => NotDispatched = toDispatch - 1
  BY <1>1 DEF NotDispatched
<1>4. toDispatch > 0 /\ ~marking => NotDispatched = toDispatch
  BY <1>1 DEF NotDispatched
<1>5. NotDispatched \in Nat /\ NotDispatched <= wait_for_disp_
  BY <1>1, <1>2, <1>3, <1>4
<1> QED
  BY <1>1, <1>2, <1>3, <1>4, <1>5 DEF Live

\* An empty queue holds nothing, and nothing twice.
LEMMA EmptyElements == Elements(<<>>) = {} /\ OneToOne(<<>>)
<1>1. DOMAIN <<>> = {}
  OBVIOUS
<1> QED
  BY <1>1 DEF Elements, OneToOne

\* After init_recvs the whole ring is one live run.
LEMMA InitIInv == Init => IInv
<1> SUFFICES ASSUME Init PROVE IInv
  OBVIOUS
<1>1. RingSize \in Nat \ {0} /\ 0 \in Buffers
  BY RingAssumption DEF Buffers
<1>2. TypeOK
  BY <1>1 DEF Init, TypeOK
<1>3. recv_head_ = 0 /\ nicPosted = RingSize /\ Back(RingSize) = recv_head_
  BY <1>1, BackFacts DEF Init
<1>4. Ring /\ Loop
  BY <1>1, <1>3 DEF Init, Ring, Loop
<1>5. InHands = {} /\ OneHand
  BY EmptyElements DEF Init, InHands, OneHand, Disjoint
<1>6. Live = RingSize
  BY <1>1 DEF Init, Live, NotDispatched
<1>7. \A k \in 1 .. RingSize : Back(k) \in Buffers
  BY <1>1, <1>3, BackFacts
<1>8. LiveApart /\ HandsNotFree
  BY <1>5, <1>6, <1>7 DEF Init, LiveApart, HandsNotFree
<1> QED
  BY <1>2, <1>4, <1>5, <1>8 DEF IInv

\* A buffer filled by the NIC goes from the first part of the live run to the
\* second; the run stays as it is.
LEMMA ReceivePacketKeeps == IInv /\ ReceivePacket => IInv'
<1> SUFFICES ASSUME IInv, ReceivePacket PROVE IInv'
  OBVIOUS
<1>1. /\ RingSize \in Nat \ {0} /\ TypeOK /\ recv_head_ \in Buffers
      /\ nicPosted \in 1 .. RingSize /\ recvCq \in Nat /\ wait_for_disp_ \in Nat
      /\ toDispatch \in Nat
      /\ wait_for_disp_ + recvCq + nicPosted <= RingSize
  BY LiveBounds DEF IInv, TypeOK, Ring, ReceivePacket
<1>2. /\ nicPosted' = nicPosted - 1 /\ recvCq' = recvCq + 1
      /\ UNCHANGED <<node, state_, recv_head_, ring_head_, wait_for_disp_, toDispatch, entry,
                     marking, rxQueue, held, txQueue, collected, sending, sent>>
  BY DEF ReceivePacket, loopVars, workerVars, sendVars
<1>3. \A k : Back(k)' = Back(k)
  BY <1>2 DEF Back
<1>4. nicNext' = Back(nicPosted - 1) /\ nicNext' \in Buffers
  <2>1. 1 \in 0 .. nicPosted /\ nicPosted \in 0 .. RingSize /\ nicPosted - 1 \in 0 .. RingSize
    BY <1>1
  <2>2. nicNext' = Onward(Back(nicPosted), 1)
    BY DEF ReceivePacket, IInv, Ring
  <2> QED
    BY <1>1, <2>1, <2>2, BackFacts
<1>5. TypeOK'
  BY <1>1, <1>2, <1>4 DEF TypeOK
<1>6. /\ wait_for_disp_' + recvCq' + nicPosted' = wait_for_disp_ + recvCq + nicPosted
      /\ toDispatch' + recvCq' + nicPosted' = toDispatch + recvCq + nicPosted
  BY <1>1, <1>2
<1>7. Ring'
  BY <1>2, <1>3, <1>4, <1>6 DEF IInv, Ring
<1>8. Loop'
  BY <1>2, <1>3, <1>6 DEF IInv, Loop
<1>9. Live' = Live /\ InHands' = InHands
  <2>1. NotDispatched' = NotDispatched /\ NotDispatched \in Nat
    BY <1>2, LiveBounds DEF NotDispatched
  <2> QED
    BY <1>1, <1>2, <2>1 DEF Live, InHands
<1>10. LiveApart' /\ HandsNotFree' /\ OneHand'
  BY <1>2, <1>3, <1>9 DEF IInv, LiveApart, HandsNotFree, OneHand
<1> QED
  BY <1>5, <1>7, <1>8, <1>10 DEF IInv

\* A completed response is still in sw_ring_ and still not free.
LEMMA CompleteSendKeeps == IInv /\ CompleteSend => IInv'
<1> SUFFICES ASSUME IInv, CompleteSend PROVE IInv'
  OBVIOUS
<1>1. UNCHANGED <<node, state_, recv_head_, ring_head_, wait_for_disp_, toDispatch, entry,
                  marking, nicNext, nicPosted, recvCq, rxQueue, held, txQueue, collected,
                  sending>>
  BY DEF CompleteSend, loopVars, nicVars, workerVars
<1>2. TypeOK'
  <2>1. Len(sending) \in Nat
    BY LenProperties DEF IInv, TypeOK
  <2>2. sent' \in 0 .. Len(sending')
    BY <1>1, <2>1 DEF CompleteSend, IInv, TypeOK
  <2> QED
    BY <1>1, <2>2 DEF IInv, TypeOK
<1>3. \A k : Back(k)' = Back(k)
  BY <1>1 DEF Back
<1>4. Live' = Live /\ InHands' = InHands
  BY <1>1 DEF Live, NotDispatched, InHands
<1>5. Ring' /\ Loop'
  BY <1>1, <1>3 DEF IInv, Ring, Loop
<1>6. LiveApart' /\ HandsNotFree' /\ OneHand'
  BY <1>1, <1>3, <1>4 DEF IInv, LiveApart, HandsNotFree, OneHand
<1> QED
  BY <1>2, <1>5, <1>6 DEF IInv

\* rx_burst posts what follows the live run, and does not meet its other end.
LEMMA RxBurstKeeps == IInv /\ RxBurst => IInv'
<1> SUFFICES ASSUME IInv, RxBurst PROVE IInv'
  OBVIOUS
<1> DEFINE polled == Lesser(recvCq, DispRxBatch)
<1>1. PICK n \in 0 .. RingSize :
        /\ FreeRun(n)
        /\ state_' = [b \in Buffers |->
                        IF b \in Window(recv_head_, n) THEN "posted" ELSE state_[b]]
        /\ recv_head_' = HeadAfterPosting(n)
        /\ nicPosted' = nicPosted + n
  BY DEF RxBurst
<1>2. /\ toDispatch = 0 /\ ~marking
      /\ recvCq' = recvCq - polled /\ wait_for_disp_' = wait_for_disp_ + polled
      /\ UNCHANGED <<node, ring_head_, toDispatch, entry, marking, nicNext, rxQueue, held,
                     txQueue, collected, sending, sent>>
  BY DEF RxBurst, DispatcherBetweenPhases, loopVars, workerVars, sendVars, IInv, Loop
<1>3. /\ RingSize \in Nat \ {0} /\ recv_head_ \in Buffers
      /\ nicPosted \in Nat /\ recvCq \in Nat /\ wait_for_disp_ \in Nat
      /\ polled \in 0 .. recvCq
      /\ Live = wait_for_disp_ + recvCq + nicPosted /\ Live \in 0 .. RingSize
  <2>1. DispRxBatch \in Nat
    BY RingAssumption
  <2>2. recvCq \in Nat /\ nicPosted \in Nat /\ wait_for_disp_ \in Nat /\ recv_head_ \in Buffers
    BY DEF IInv, TypeOK
  <2>3. polled \in 0 .. recvCq
    BY <2>1, <2>2 DEF Lesser
  <2>4. RingSize \in Nat \ {0} /\ Live \in 0 .. RingSize /\ NotDispatched = wait_for_disp_
    BY <1>2, LiveBounds
  <2>5. Live = wait_for_disp_ + recvCq + nicPosted
    BY <2>4 DEF Live
  <2> QED
    BY <2>2, <2>3, <2>4, <2>5
<1> HIDE DEF polled
<1>4. \A k \in 0 .. RingSize : Onward(recv_head_, k) = Back(RingSize - k)
  <2>1. RingSize \in 0 .. RingSize
    BY <1>3
  <2> QED
    BY <1>3, <2>1, BackFacts
<1>5. \A k \in 0 .. n - 1 : state_[Onward(recv_head_, k)] = "free"
  BY <1>1 DEF FreeRun
<1>6. Live + n <= RingSize
  <2>1. SUFFICES ASSUME Live + n > RingSize PROVE FALSE
    BY <1>1, <1>3
  <2>2. Live \in 1 .. Live /\ RingSize - Live \in 0 .. n - 1 /\ RingSize - Live \in 0 .. RingSize
    BY <1>1, <1>3, <2>1
  <2>3. state_[Back(Live)] = "posted"
    BY <2>2 DEF IInv, LiveApart
  <2>4. state_[Back(RingSize - (RingSize - Live))] = "free"
    BY <1>4, <1>5, <2>2
  <2>5. RingSize - (RingSize - Live) = Live
    BY <1>3
  <2> QED
    BY <2>3, <2>4, <2>5
<1>7. /\ recv_head_' \in Buffers
      /\ \A k \in 0 .. RingSize :
           Back(k)' = IF k >= n THEN Back(k - n) ELSE Onward(recv_head_, n - k)
  <2>1. /\ recv_head_' = IF recv_head_ + n < RingSize THEN recv_head_ + n
                                                       ELSE recv_head_ + n - RingSize
        /\ recv_head_' \in Buffers
    BY <1>1, <1>3, OnwardFolded DEF HeadAfterPosting
  <2>2. ASSUME NEW k \in 0 .. RingSize, k >= n PROVE Back(k)' = Back(k - n)
    BY <1>1, <1>3, <2>1, <2>2 DEF Back, Buffers
  <2>3. ASSUME NEW k \in 0 .. RingSize, ~(k >= n) PROVE Back(k)' = Onward(recv_head_, n - k)
    <3>1. n - k \in 0 .. RingSize
      BY <1>1, <1>3, <2>3
    <3>2. Onward(recv_head_, n - k) =
            IF recv_head_ + (n - k) < RingSize THEN recv_head_ + (n - k)
                                               ELSE recv_head_ + (n - k) - RingSize
      BY <1>3, <3>1, OnwardFolded
    <3> QED
      BY <1>1, <1>3, <2>1, <2>3, <3>2 DEF Back, Buffers
  <2> QED
    BY <2>1, <2>2, <2>3
<1>8. InHands' = InHands /\ OneHand'
  BY <1>2 DEF IInv, InHands, OneHand
<1>9. Live' = Live + n
  <2>1. NotDispatched' = wait_for_disp_'
    BY <1>2 DEF NotDispatched
  <2> QED
    BY <1>1, <1>2, <1>3, <2>1 DEF Live
<1>10. TypeOK'
  <2>1. state_' \in [Buffers -> {"posted", "app", "free"}]
    BY <1>1 DEF IInv, TypeOK
  <2>2. /\ nicPosted' \in 0 .. RingSize /\ recvCq' \in 0 .. RingSize
        /\ wait_for_disp_' \in 0 .. RingSize
    BY <1>1, <1>2, <1>3, <1>6
  <2> QED
    BY <1>2, <1>7, <2>1, <2>2 DEF IInv, TypeOK
<1>11. Ring'
  <2>1. /\ wait_for_disp_' + recvCq' + nicPosted' = Live + n
        /\ nicPosted + n \in 0 .. RingSize /\ nicPosted + n >= n /\ nicPosted + n - n = nicPosted
        /\ Live + n \in 0 .. RingSize /\ Live + n >= n /\ Live + n - n = Live
    BY <1>1, <1>2, <1>3, <1>6
  <2>2. \A k \in 0 .. RingSize :
          /\ k = nicPosted + n => Back(k)' = Back(nicPosted)
          /\ k = Live + n => Back(k)' = Back(Live)
    <3> SUFFICES ASSUME NEW k \in 0 .. RingSize
                 PROVE  /\ k = nicPosted + n => Back(k)' = Back(nicPosted)
                        /\ k = Live + n => Back(k)' = Back(Live)
      OBVIOUS
    <3>1. k >= n => Back(k)' = Back(k - n)
      BY <1>7
    <3>2. k = nicPosted + n => k >= n /\ k - n = nicPosted
      BY <1>1, <1>3, <2>1
    <3>3. k = Live + n => k >= n /\ k - n = Live
      BY <1>1, <1>3, <2>1
    <3> QED
      BY <3>1, <3>2, <3>3, Zenon
  <2>3. Back(nicPosted)' = Back(nicPosted)
    BY <1>1, <2>1, <2>2
  <2>4. Back(wait_for_disp_ + recvCq + nicPosted)' = Back(Live)
    BY <2>1, <2>2
  <2>5. nicNext' = Back(nicPosted)'
    BY <1>2, <2>3 DEF IInv, Ring
  <2>6. ring_head_' = Back(wait_for_disp_ + recvCq + nicPosted)'
    BY <1>2, <1>3, <2>4 DEF IInv, Ring
  <2>7. (wait_for_disp_ + recvCq + nicPosted <= RingSize)'
    BY <1>6, <2>1
  <2> QED
    BY <2>5, <2>6, <2>7 DEF Ring
<1>12. Loop'
  BY <1>2, <1>3 DEF Loop
<1>13. LiveApart'
  <2> SUFFICES ASSUME NEW k \in 1 .. Live + n
               PROVE  state_'[Back(k)'] = "posted" /\ Back(k)' \notin InHands
    BY <1>8, <1>9 DEF LiveApart
  <2>1. k \in 0 .. RingSize
    BY <1>1, <1>3, <1>6
  <2>2. CASE k > n
    <3>1. k - n \in 1 .. Live /\ k - n \in 0 .. RingSize /\ Back(k)' = Back(k - n)
      BY <1>1, <1>3, <1>7, <2>1, <2>2
    <3>2. Back(k - n) \in Buffers
      BY <1>3, <3>1, BackFacts
    <3>3. state_[Back(k - n)] = "posted" /\ Back(k - n) \notin InHands
      BY <3>1 DEF IInv, LiveApart
    <3> QED
      BY <1>1, <3>1, <3>2, <3>3
  <2>3. CASE ~(k > n)
    <3>1. n - k \in 0 .. n - 1 /\ n - k \in 0 .. RingSize /\ 0 \in 0 .. RingSize
      BY <1>1, <1>3, <2>3, <2>1
    <3>2. Back(k)' = Onward(recv_head_, n - k)
      <4>1. CASE k = n
        <5>1. Back(k)' = Back(0)
          BY <1>7, <2>1, <4>1, <1>1
        <5>2. Onward(recv_head_, 0) = recv_head_ /\ n - k = 0
          BY <1>1, <1>3, <3>1, <4>1, OnwardFolded DEF Buffers
        <5> QED
          BY <1>3, <5>1, <5>2, BackFacts
      <4>2. CASE k # n
        BY <1>1, <1>7, <2>1, <2>3, <4>2
      <4> QED
        BY <4>1, <4>2
    <3>3. /\ Onward(recv_head_, n - k) \in Window(recv_head_, n)
          /\ Onward(recv_head_, n - k) \in Buffers
      BY <1>3, <3>1, OnwardFolded DEF Window
    <3>4. state_[Onward(recv_head_, n - k)] = "free"
      BY <1>5, <3>1
    <3> QED
      BY <1>1, <3>2, <3>3, <3>4 DEF IInv, HandsNotFree
  <2> QED
    BY <2>2, <2>3
<1>14. HandsNotFree'
  <2> SUFFICES ASSUME NEW b \in InHands PROVE state_'[b] # "free"
    BY <1>8 DEF HandsNotFree
  <2>1. b \in Buffers
    BY DEF IInv, TypeOK, InHands, Elements
  <2> QED
    BY <1>1, <2>1 DEF IInv, HandsNotFree
<1> QED
  BY <1>8, <1>10, <1>11, <1>12, <1>13, <1>14 DEF IInv

\* Steps that leave the indices alone.
LEMMA IndicesStay ==
  IInv /\ UNCHANGED <<recv_head_, ring_head_, wait_for_disp_, toDispatch, entry, marking,
                      nicNext, nicPosted, recvCq>>
  => /\ Ring' /\ Loop'
     /\ Live' = Live
     /\ \A k : Back(k)' = Back(k)
<1> SUFFICES ASSUME IInv,
                    UNCHANGED <<recv_head_, ring_head_, wait_for_disp_, toDispatch, entry,
                                marking, nicNext, nicPosted, recvCq>>
             PROVE  /\ Ring' /\ Loop'
                    /\ Live' = Live
                    /\ \A k : Back(k)' = Back(k)
  OBVIOUS
<1>1. \A k : Back(k)' = Back(k)
  BY DEF Back
<1>2. Ring' /\ Loop'
  BY <1>1 DEF IInv, Ring, Loop
<1>3. Live' = Live
  BY DEF Live, NotDispatched
<1> QED
  BY <1>1, <1>2, <1>3

\* The loop starts at the far end of the live run.
LEMMA DispatchBeginKeeps == IInv /\ DispatchBegin => IInv'
<1> SUFFICES ASSUME IInv, DispatchBegin PROVE IInv'
  OBVIOUS
<1>1. /\ toDispatch = 0 /\ ~marking /\ marking' = marking
      /\ toDispatch' = wait_for_disp_ /\ entry' = ring_head_ /\ wait_for_disp_ > 0
      /\ UNCHANGED <<node, state_, recv_head_, ring_head_, wait_for_disp_, nicNext, nicPosted,
                     recvCq, rxQueue, held, txQueue, collected, sending, sent>>
  BY DEF DispatchBegin, DispatcherBetweenPhases, nicVars, workerVars, sendVars, IInv, Loop
<1>2. TypeOK'
  BY <1>1 DEF IInv, TypeOK
<1>3. \A k : Back(k)' = Back(k)
  BY <1>1 DEF Back
<1>4. Ring'
  BY <1>1, <1>3 DEF IInv, Ring
<1>5. Loop'
  <2>1. wait_for_disp_ \in Nat
    BY DEF IInv, TypeOK
  <2> QED
    BY <1>1, <1>3, <2>1 DEF IInv, Ring, Loop
<1>6. Live' = Live /\ InHands' = InHands
  <2>1. NotDispatched = wait_for_disp_
    BY <1>1, LiveBounds
  <2>2. NotDispatched' = wait_for_disp_
    BY <1>1 DEF NotDispatched
  <2> QED
    BY <1>1, <2>1, <2>2 DEF Live, InHands
<1>7. LiveApart' /\ HandsNotFree' /\ OneHand'
  BY <1>1, <1>3, <1>6 DEF IInv, LiveApart, HandsNotFree, OneHand
<1> QED
  BY <1>2, <1>4, <1>5, <1>7 DEF IInv

\* The packet given to the worker is the far end of the live run.
LEMMA EnqueueRxKeeps == IInv /\ EnqueueRx => IInv'
<1> SUFFICES ASSUME IInv, EnqueueRx PROVE IInv'
  OBVIOUS
<1>1. /\ toDispatch > 0 /\ ~marking /\ marking'
      /\ rxQueue' = Append(rxQueue, entry)
      /\ UNCHANGED <<node, state_, recv_head_, ring_head_, wait_for_disp_, toDispatch, entry,
                     nicNext, nicPosted, recvCq, held, txQueue, collected, sending, sent>>
  BY DEF EnqueueRx, nicVars, sendVars
<1>2. /\ RingSize \in Nat \ {0} /\ toDispatch \in Nat /\ recvCq \in Nat /\ nicPosted \in Nat
      /\ recv_head_ \in Buffers /\ Live \in 0 .. RingSize /\ entry \in Buffers
      /\ rxQueue \in Seq(Buffers)
  BY LiveBounds DEF IInv, TypeOK
<1>3. Live = toDispatch + recvCq + nicPosted /\ Live \in 1 .. RingSize /\ entry = Back(Live)
  <2>1. NotDispatched = toDispatch
    BY <1>1, LiveBounds
  <2>2. Live = toDispatch + recvCq + nicPosted
    BY <2>1 DEF Live
  <2> QED
    BY <1>1, <1>2, <2>2 DEF IInv, Loop
<1>4. state_[entry] = "posted" /\ entry \notin InHands
  <2>1. Live \in 1 .. Live
    BY <1>3
  <2> QED
    BY <1>3, <2>1 DEF IInv, LiveApart
<1>5. /\ rxQueue' \in Seq(Buffers)
      /\ Elements(rxQueue') = Elements(rxQueue) \union {entry}
      /\ OneToOne(rxQueue) /\ entry \notin Elements(rxQueue) => OneToOne(rxQueue')
  BY <1>1, <1>2, AppendElements
<1>6. TypeOK'
  BY <1>1, <1>5 DEF IInv, TypeOK
<1>7. \A k : Back(k)' = Back(k)
  BY <1>1 DEF Back
<1>8. Ring' /\ Loop'
  BY <1>1, <1>2, <1>7 DEF IInv, Ring, Loop
<1>9. Live' = Live - 1
  <2>1. NotDispatched' = toDispatch - 1
    BY <1>1, <1>2 DEF NotDispatched
  <2> QED
    BY <1>1, <1>2, <1>3, <2>1 DEF Live
<1>10. InHands' = InHands \union {entry}
  BY <1>1, <1>5 DEF InHands
<1>11. LiveApart'
  <2> SUFFICES ASSUME NEW k \in 1 .. Live - 1
               PROVE  state_[Back(k)] = "posted" /\ Back(k) \notin InHands \union {entry}
    BY <1>1, <1>7, <1>9, <1>10 DEF LiveApart
  <2>1. k \in 1 .. Live /\ k \in 1 .. RingSize /\ k # Live
    BY <1>2, <1>3
  <2>2. Back(k) # Back(Live)
    BY <1>2, <1>3, <2>1, BackFacts
  <2> QED
    BY <1>3, <2>1, <2>2 DEF IInv, LiveApart
<1>12. HandsNotFree'
  BY <1>1, <1>4, <1>10 DEF IInv, HandsNotFree
<1>13. OneHand'
  BY <1>1, <1>4, <1>5 DEF IInv, OneHand, Disjoint, InHands
<1> QED
  BY <1>6, <1>8, <1>11, <1>12, <1>13 DEF IInv

\* The step to the next packet keeps the indices' sense.
LEMMA NextEntryKeeps ==
  IInv /\ toDispatch > 0 /\ NextEntry /\ ~marking' /\ marking' \in BOOLEAN
       /\ UNCHANGED <<recv_head_, nicNext, nicPosted, recvCq>>
  => /\ ring_head_' \in Buffers /\ entry' \in Buffers
     /\ wait_for_disp_' \in 0 .. RingSize /\ toDispatch' \in 0 .. RingSize
     /\ Ring' /\ Loop'
     /\ Live' = (toDispatch - 1) + recvCq + nicPosted
     /\ \A k : Back(k)' = Back(k)
<1> SUFFICES ASSUME IInv, toDispatch > 0, NextEntry, ~marking', marking' \in BOOLEAN,
                    UNCHANGED <<recv_head_, nicNext, nicPosted, recvCq>>
             PROVE  /\ ring_head_' \in Buffers /\ entry' \in Buffers
                    /\ wait_for_disp_' \in 0 .. RingSize /\ toDispatch' \in 0 .. RingSize
                    /\ Ring' /\ Loop'
                    /\ Live' = (toDispatch - 1) + recvCq + nicPosted
                    /\ \A k : Back(k)' = Back(k)
  OBVIOUS
<1>1. /\ RingSize \in Nat \ {0} /\ recv_head_ \in Buffers
      /\ recvCq \in Nat /\ nicPosted \in Nat
      /\ wait_for_disp_ \in 0 .. RingSize /\ toDispatch \in 1 .. wait_for_disp_
      /\ wait_for_disp_ + recvCq + nicPosted <= RingSize
      /\ ring_head_ = Back(wait_for_disp_ + recvCq + nicPosted)
      /\ entry = Back(toDispatch + recvCq + nicPosted)
      /\ nicNext = Back(nicPosted)
  BY RingAssumption DEF IInv, TypeOK, Ring, Loop
<1>2. /\ entry' = Onward(entry, 1) /\ toDispatch' = toDispatch - 1
      /\ toDispatch = 1 => ring_head_' = Onward(ring_head_, wait_for_disp_) /\ wait_for_disp_' = 0
      /\ toDispatch # 1 => ring_head_' = ring_head_ /\ wait_for_disp_' = wait_for_disp_
  BY DEF NextEntry
<1>3. \A k : Back(k)' = Back(k)
  BY DEF Back
<1>4. /\ entry' = Back(toDispatch' + recvCq + nicPosted)
      /\ toDispatch' + recvCq + nicPosted \in 0 .. RingSize
  <2> DEFINE e == toDispatch + recvCq + nicPosted
  <2>1. e \in 0 .. RingSize /\ 1 \in 0 .. e /\ e - 1 = toDispatch' + recvCq + nicPosted
        /\ e - 1 \in 0 .. RingSize
    BY <1>1, <1>2
  <2>2. entry' = Onward(Back(e), 1)
    BY <1>1, <1>2
  <2> HIDE DEF e
  <2>3. Onward(Back(e), 1) = Back(e - 1)
    BY <1>1, <2>1, BackFacts
  <2> QED
    BY <2>1, <2>2, <2>3
<1>5. ring_head_' = Back(wait_for_disp_' + recvCq + nicPosted)
  <2>1. CASE toDispatch = 1
    <3> DEFINE w == wait_for_disp_ + recvCq + nicPosted
    <3>1. /\ w \in 0 .. RingSize /\ wait_for_disp_ \in 0 .. w
          /\ w - wait_for_disp_ = wait_for_disp_' + recvCq + nicPosted
      BY <1>1, <1>2, <2>1
    <3>2. ring_head_' = Onward(Back(w), wait_for_disp_)
      BY <1>1, <1>2, <2>1
    <3> HIDE DEF w
    <3>3. Onward(Back(w), wait_for_disp_) = Back(w - wait_for_disp_)
      BY <1>1, <3>1, BackFacts
    <3> QED
      BY <3>1, <3>2, <3>3
  <2>2. CASE toDispatch # 1
    BY <1>1, <1>2, <2>2
  <2> QED
    BY <2>1, <2>2
<1>6. /\ wait_for_disp_' \in 0 .. RingSize /\ toDispatch' \in 0 .. RingSize
      /\ wait_for_disp_' + recvCq + nicPosted <= RingSize
      /\ wait_for_disp_' + recvCq + nicPosted \in 0 .. RingSize
      /\ toDispatch' <= wait_for_disp_'
  BY <1>1, <1>2
<1>7. ring_head_' \in Buffers /\ entry' \in Buffers
  BY <1>1, <1>4, <1>5, <1>6, BackFacts
<1>8. Ring' /\ Loop'
  BY <1>1, <1>3, <1>4, <1>5, <1>6 DEF Ring, Loop
<1>9. Live' = (toDispatch - 1) + recvCq + nicPosted
  <2>1. NotDispatched' = toDispatch - 1
    BY <1>1, <1>2 DEF NotDispatched
  <2> QED
    BY <2>1 DEF Live
<1> QED
  BY <1>3, <1>6, <1>7, <1>8, <1>9

\* The buffer marked is just behind the live run.
LEMMA MarkAppOwnedKeeps == IInv /\ MarkAppOwned => IInv'
<1> SUFFICES ASSUME IInv, MarkAppOwned PROVE IInv'
  OBVIOUS
<1>1. /\ marking /\ marking' = FALSE /\ NextEntry
      /\ state_' = [state_ EXCEPT ![entry] = "app"]
      /\ UNCHANGED <<node, recv_head_, nicNext, nicPosted, recvCq, rxQueue, held, txQueue,
                     collected, sending, sent>>
  BY DEF MarkAppOwned, nicVars, workerVars, sendVars
<1>2. /\ RingSize \in Nat \ {0} /\ recv_head_ \in Buffers
      /\ recvCq \in Nat /\ nicPosted \in Nat
      /\ wait_for_disp_ \in 0 .. RingSize /\ toDispatch \in 1 .. wait_for_disp_
      /\ wait_for_disp_ + recvCq + nicPosted <= RingSize
      /\ entry = Back(toDispatch + recvCq + nicPosted)
      /\ state_ \in [Buffers -> {"posted", "app", "free"}] /\ entry \in Buffers
  BY <1>1, RingAssumption DEF IInv, TypeOK, Ring, Loop
<1>3. /\ ring_head_' \in Buffers /\ entry' \in Buffers
      /\ wait_for_disp_' \in 0 .. RingSize /\ toDispatch' \in 0 .. RingSize
      /\ Ring' /\ Loop'
      /\ Live' = (toDispatch - 1) + recvCq + nicPosted
      /\ \A k : Back(k)' = Back(k)
  <2>1. toDispatch > 0
    BY <1>2
  <2>2. ~marking' /\ marking' \in BOOLEAN
    BY <1>1, Zenon
  <2>3. UNCHANGED <<recv_head_, nicNext, nicPosted, recvCq>>
    BY <1>1
  <2> QED
    BY <1>1, <2>1, <2>2, <2>3, NextEntryKeeps, Zenon
<1>4. TypeOK'
  BY <1>1, <1>2, <1>3 DEF IInv, TypeOK
<1>5. InHands' = InHands /\ OneHand'
  BY <1>1 DEF IInv, InHands, OneHand
<1>6. Live = (toDispatch - 1) + recvCq + nicPosted
  <2>1. NotDispatched = toDispatch - 1
    BY <1>1, <1>2, LiveBounds
  <2> QED
    BY <2>1 DEF Live
<1>7. LiveApart'
  <2> SUFFICES ASSUME NEW k \in 1 .. Live
               PROVE  state_'[Back(k)] = "posted" /\ Back(k) \notin InHands
    BY <1>3, <1>5, <1>6 DEF LiveApart
  <2> DEFINE e == toDispatch + recvCq + nicPosted
  <2>1. k \in 1 .. RingSize /\ k \in 0 .. RingSize /\ e \in 1 .. RingSize /\ k # e
    BY <1>2, <1>6
  <2> HIDE DEF e
  <2>2. Back(k) # Back(e) /\ Back(k) \in Buffers
    BY <1>2, <2>1, BackFacts
  <2>3. entry = Back(e)
    BY <1>2 DEF e
  <2>4. state_[Back(k)] = "posted" /\ Back(k) \notin InHands
    BY DEF IInv, LiveApart
  <2> QED
    BY <1>1, <1>2, <2>2, <2>3, <2>4
<1>8. HandsNotFree'
  <2> SUFFICES ASSUME NEW b \in InHands PROVE state_'[b] # "free"
    BY <1>5 DEF HandsNotFree
  <2>1. b \in Buffers
    BY DEF IInv, TypeOK, InHands, Elements
  <2> QED
    BY <1>1, <1>2, <2>1 DEF IInv, HandsNotFree
<1> QED
  BY <1>3, <1>4, <1>5, <1>7, <1>8 DEF IInv

\* A dropped packet leaves the live run at its far end.
LEMMA DropRxKeeps == IInv /\ DropRx => IInv'
<1> SUFFICES ASSUME IInv, DropRx PROVE IInv'
  OBVIOUS
<1>1. /\ toDispatch > 0 /\ ~marking /\ marking' = marking /\ NextEntry
      /\ state_' = [state_ EXCEPT ![entry] = "free"]
      /\ UNCHANGED <<node, recv_head_, nicNext, nicPosted, recvCq, rxQueue, held, txQueue,
                     collected, sending, sent>>
  BY DEF DropRx, nicVars, workerVars, sendVars
<1>2. /\ RingSize \in Nat \ {0} /\ recv_head_ \in Buffers /\ marking \in BOOLEAN
      /\ recvCq \in Nat /\ nicPosted \in Nat
      /\ wait_for_disp_ \in 0 .. RingSize /\ toDispatch \in 1 .. wait_for_disp_
      /\ wait_for_disp_ + recvCq + nicPosted <= RingSize
      /\ entry = Back(toDispatch + recvCq + nicPosted)
      /\ state_ \in [Buffers -> {"posted", "app", "free"}] /\ entry \in Buffers
  BY <1>1, RingAssumption DEF IInv, TypeOK, Ring, Loop
<1>3. /\ ring_head_' \in Buffers /\ entry' \in Buffers
      /\ wait_for_disp_' \in 0 .. RingSize /\ toDispatch' \in 0 .. RingSize
      /\ Ring' /\ Loop'
      /\ Live' = (toDispatch - 1) + recvCq + nicPosted
      /\ \A k : Back(k)' = Back(k)
  BY <1>1, <1>2, NextEntryKeeps
<1>4. TypeOK'
  BY <1>1, <1>2, <1>3 DEF IInv, TypeOK
<1>5. InHands' = InHands /\ OneHand'
  BY <1>1 DEF IInv, InHands, OneHand
<1>6. /\ Live = toDispatch + recvCq + nicPosted /\ Live \in 1 .. RingSize
      /\ Live' = Live - 1 /\ entry = Back(Live)
  <2>1. NotDispatched = toDispatch
    BY <1>1, LiveBounds
  <2>2. Live = toDispatch + recvCq + nicPosted
    BY <2>1 DEF Live
  <2> QED
    BY <1>2, <1>3, <2>2
<1>7. LiveApart'
  <2> SUFFICES ASSUME NEW k \in 1 .. Live - 1
               PROVE  state_'[Back(k)] = "posted" /\ Back(k) \notin InHands
    BY <1>3, <1>5, <1>6 DEF LiveApart
  <2>1. k \in 1 .. RingSize /\ k \in 0 .. RingSize /\ k \in 1 .. Live /\ k # Live
    BY <1>2, <1>6
  <2>2. Back(k) # Back(Live) /\ Back(k) \in Buffers
    BY <1>2, <1>6, <2>1, BackFacts
  <2>3. state_[Back(k)] = "posted" /\ Back(k) \notin InHands
    BY <2>1 DEF IInv, LiveApart
  <2> QED
    BY <1>1, <1>2, <1>6, <2>2, <2>3
<1>8. HandsNotFree'
  <2> SUFFICES ASSUME NEW b \in InHands PROVE state_'[b] # "free"
    BY <1>5 DEF HandsNotFree
  <2>1. b \in Buffers
    BY DEF IInv, TypeOK, InHands, Elements
  <2>2. b # entry
    <3>1. Live \in 1 .. Live
      BY <1>6
    <3> QED
      BY <1>6, <3>1 DEF IInv, LiveApart
  <2> QED
    BY <1>1, <1>2, <2>1, <2>2 DEF IInv, HandsNotFree
<1> QED
  BY <1>3, <1>4, <1>5, <1>7, <1>8 DEF IInv

\* Collected responses change queues only.
LEMMA CollectTxKeeps == IInv /\ CollectTx => IInv'
<1> SUFFICES ASSUME IInv, CollectTx PROVE IInv'
  OBVIOUS
<1>1. /\ collected' = collected \o txQueue /\ txQueue' = <<>>
      /\ UNCHANGED <<node, state_, recv_head_, ring_head_, wait_for_disp_, toDispatch, entry,
                     marking, nicNext, nicPosted, recvCq, rxQueue, held, sending, sent>>
  BY DEF CollectTx, loopVars, nicVars
<1>2. collected \in Seq(Buffers) /\ txQueue \in Seq(Buffers)
  BY DEF IInv, TypeOK
<1>3. /\ collected' \in Seq(Buffers) /\ txQueue' \in Seq(Buffers)
      /\ Elements(collected') = Elements(collected) \union Elements(txQueue)
      /\ Elements(txQueue') = {} /\ OneToOne(txQueue')
      /\ OneToOne(collected) /\ OneToOne(txQueue) /\ Disjoint(collected, txQueue)
         => OneToOne(collected')
  BY <1>1, <1>2, ConcatElements, EmptyElements
<1>4. TypeOK'
  BY <1>1, <1>3 DEF IInv, TypeOK
<1>5. Ring' /\ Loop' /\ Live' = Live /\ \A k : Back(k)' = Back(k)
  BY <1>1, IndicesStay
<1>6. InHands' = InHands
  BY <1>1, <1>3 DEF InHands
<1>7. LiveApart' /\ HandsNotFree'
  BY <1>1, <1>5, <1>6 DEF IInv, LiveApart, HandsNotFree
<1>8. OneHand'
  BY <1>1, <1>3 DEF IInv, OneHand, Disjoint
<1> QED
  BY <1>4, <1>5, <1>7, <1>8 DEF IInv

\* Responses that are out leave the hands and are free.
LEMMA NicTxKeeps == IInv /\ NicTx => IInv'
<1> SUFFICES ASSUME IInv, NicTx PROVE IInv'
  OBVIOUS
<1> DEFINE out == SubSeq(sending, 1, sent)
           rest == SubSeq(sending, sent + 1, Len(sending))
<1>1. /\ state_' = [b \in Buffers |->
                      CASE b \in Elements(out) -> "free"
                        [] b \in Elements(collected) -> "posted"
                        [] OTHER -> state_[b]]
      /\ sending' = rest \o collected /\ sent' = 0 /\ collected' = <<>>
      /\ UNCHANGED <<node, recv_head_, ring_head_, wait_for_disp_, toDispatch, entry, marking,
                     nicNext, nicPosted, recvCq, rxQueue, held, txQueue>>
  BY DEF NicTx, loopVars, nicVars, workerVars
<1>2. /\ collected \in Seq(Buffers) /\ sending \in Seq(Buffers) /\ sent \in 0 .. Len(sending)
      /\ state_ \in [Buffers -> {"posted", "app", "free"}]
  BY DEF IInv, TypeOK
<1>3. /\ rest \in Seq(Buffers)
      /\ Elements(sending) = Elements(out) \union Elements(rest)
      /\ OneToOne(rest) /\ Disjoint(out, rest)
  BY <1>2, CutElements DEF IInv, OneHand
<1> HIDE DEF out, rest
<1>4. Disjoint(rest, collected) /\ Disjoint(out, collected)
  BY <1>3 DEF IInv, OneHand, Disjoint
<1>5. /\ sending' \in Seq(Buffers)
      /\ Elements(sending') = Elements(rest) \union Elements(collected)
      /\ OneToOne(sending')
      /\ collected' \in Seq(Buffers) /\ Elements(collected') = {} /\ OneToOne(collected')
  BY <1>1, <1>2, <1>3, <1>4, ConcatElements, EmptyElements DEF IInv, OneHand
<1>6. TypeOK'
  <2>1. state_' \in [Buffers -> {"posted", "app", "free"}]
    BY <1>1, <1>2
  <2>2. sent' \in 0 .. Len(sending')
    BY <1>1, <1>5, LenProperties
  <2> QED
    BY <1>1, <1>5, <2>1, <2>2 DEF IInv, TypeOK
<1>7. Ring' /\ Loop' /\ Live' = Live /\ \A k : Back(k)' = Back(k)
  BY <1>1, IndicesStay
<1>8. InHands' \subseteq InHands /\ InHands' \intersect Elements(out) = {}
  BY <1>1, <1>3, <1>4, <1>5 DEF IInv, OneHand, Disjoint, InHands
<1>9. Elements(out) \subseteq InHands /\ Elements(collected) \subseteq InHands
  BY <1>3 DEF InHands
<1>10. LiveApart'
  <2> SUFFICES ASSUME NEW k \in 1 .. Live
               PROVE  state_'[Back(k)] = "posted" /\ Back(k) \notin InHands'
    BY <1>7 DEF LiveApart
  <2>1. Back(k) \in Buffers
    <3>1. k \in 0 .. RingSize
      BY LiveBounds
    <3> QED
      BY <3>1, BackFacts DEF IInv, TypeOK
  <2>2. state_[Back(k)] = "posted" /\ Back(k) \notin InHands
    BY DEF IInv, LiveApart
  <2> QED
    BY <1>1, <1>8, <1>9, <2>1, <2>2
<1>11. HandsNotFree'
  <2> SUFFICES ASSUME NEW b \in InHands' PROVE state_'[b] # "free"
    BY DEF HandsNotFree
  <2>1. b \in InHands /\ b \notin Elements(out)
    BY <1>8
  <2>2. b \in Buffers /\ state_[b] # "free"
    BY <2>1 DEF IInv, TypeOK, HandsNotFree, InHands, Elements
  <2> QED
    BY <1>1, <2>1, <2>2
<1>12. OneHand'
  BY <1>1, <1>3, <1>5 DEF IInv, OneHand, Disjoint
<1> QED
  BY <1>6, <1>7, <1>10, <1>11, <1>12 DEF IInv

\* The worker takes the whole rx queue.
LEMMA TakeBatchKeeps == IInv /\ TakeBatch => IInv'
<1> SUFFICES ASSUME IInv, TakeBatch PROVE IInv'
  OBVIOUS
<1>1. /\ held = <<>> /\ held' = rxQueue /\ rxQueue' = <<>>
      /\ UNCHANGED <<node, state_, recv_head_, ring_head_, wait_for_disp_, toDispatch, entry,
                     marking, nicNext, nicPosted, recvCq, txQueue, collected, sending, sent>>
  BY DEF TakeBatch, loopVars, nicVars, sendVars
<1>2. /\ rxQueue' \in Seq(Buffers) /\ Elements(rxQueue') = {} /\ OneToOne(rxQueue')
      /\ Elements(held) = {}
  BY <1>1, EmptyElements
<1>3. TypeOK'
  BY <1>1, <1>2 DEF IInv, TypeOK
<1>4. Ring' /\ Loop' /\ Live' = Live /\ \A k : Back(k)' = Back(k)
  BY <1>1, IndicesStay
<1>5. InHands' = InHands
  BY <1>1, <1>2 DEF InHands
<1>6. LiveApart' /\ HandsNotFree'
  BY <1>1, <1>4, <1>5 DEF IInv, LiveApart, HandsNotFree
<1>7. OneHand'
  BY <1>1, <1>2 DEF IInv, OneHand, Disjoint
<1> QED
  BY <1>3, <1>4, <1>6, <1>7 DEF IInv

\* A released buffer is in no other queue.
LEMMA ReleaseKeeps == IInv /\ Release => IInv'
<1> SUFFICES ASSUME IInv, Release PROVE IInv'
  OBVIOUS
<1>1. /\ held # <<>> /\ held' = Tail(held)
      /\ state_' = [state_ EXCEPT ![Head(held)] = "free"]
      /\ UNCHANGED <<node, recv_head_, ring_head_, wait_for_disp_, toDispatch, entry, marking,
                     nicNext, nicPosted, recvCq, rxQueue, txQueue, collected, sending, sent>>
  BY DEF Release, loopVars, nicVars, sendVars
<1>2. held \in Seq(Buffers) /\ state_ \in [Buffers -> {"posted", "app", "free"}]
  BY DEF IInv, TypeOK
<1>3. /\ held' \in Seq(Buffers) /\ Head(held) \in Buffers
      /\ Elements(held) = Elements(held') \union {Head(held)}
      /\ OneToOne(held) => OneToOne(held') /\ Head(held) \notin Elements(held')
  BY <1>1, <1>2, TailElements
<1>4. TypeOK'
  BY <1>1, <1>2, <1>3 DEF IInv, TypeOK
<1>5. Ring' /\ Loop' /\ Live' = Live /\ \A k : Back(k)' = Back(k)
  BY <1>1, IndicesStay
<1>6. /\ InHands = InHands' \union {Head(held)}
      /\ Head(held) \notin InHands'
  BY <1>1, <1>3 DEF InHands, IInv, OneHand, Disjoint
<1>7. LiveApart'
  <2> SUFFICES ASSUME NEW k \in 1 .. Live
               PROVE  state_'[Back(k)] = "posted" /\ Back(k) \notin InHands'
    BY <1>5 DEF LiveApart
  <2>1. Back(k) \in Buffers
    <3>1. k \in 0 .. RingSize
      BY LiveBounds
    <3> QED
      BY <3>1, BackFacts DEF IInv, TypeOK
  <2>2. state_[Back(k)] = "posted" /\ Back(k) \notin InHands
    BY DEF IInv, LiveApart
  <2> QED
    BY <1>1, <1>2, <1>6, <2>1, <2>2
<1>8. HandsNotFree'
  <2> SUFFICES ASSUME NEW b \in InHands' PROVE state_'[b] # "free"
    BY DEF HandsNotFree
  <2>1. b \in InHands /\ b # Head(held)
    BY <1>6
  <2>2. b \in Buffers /\ state_[b] # "free"
    BY <2>1 DEF IInv, TypeOK, HandsNotFree, InHands, Elements
  <2> QED
    BY <1>1, <1>2, <2>1, <2>2
<1>9. OneHand'
  BY <1>1, <1>3 DEF IInv, OneHand, Disjoint
<1> QED
  BY <1>4, <1>5, <1>7, <1>8, <1>9 DEF IInv

\* A response keeps its buffer in the hands.
LEMMA RespondKeeps == IInv /\ Respond => IInv'
<1> SUFFICES ASSUME IInv, Respond PROVE IInv'
  OBVIOUS
<1>1. /\ held # <<>> /\ held' = Tail(held) /\ txQueue' = Append(txQueue, Head(held))
      /\ UNCHANGED <<node, state_, recv_head_, ring_head_, wait_for_disp_, toDispatch, entry,
                     marking, nicNext, nicPosted, recvCq, rxQueue, collected, sending, sent>>
  BY DEF Respond, loopVars, nicVars, sendVars
<1>2. held \in Seq(Buffers) /\ txQueue \in Seq(Buffers)
  BY DEF IInv, TypeOK
<1>3. /\ held' \in Seq(Buffers) /\ Head(held) \in Buffers
      /\ Elements(held) = Elements(held') \union {Head(held)}
      /\ OneToOne(held') /\ Head(held) \notin Elements(held')
  BY <1>1, <1>2, TailElements DEF IInv, OneHand
<1>4. Head(held) \notin Elements(txQueue) /\ OneToOne(txQueue)
  BY <1>3 DEF IInv, OneHand, Disjoint
<1>5. /\ txQueue' \in Seq(Buffers) /\ OneToOne(txQueue')
      /\ Elements(txQueue') = Elements(txQueue) \union {Head(held)}
  BY <1>1, <1>2, <1>3, <1>4, AppendElements
<1>6. TypeOK'
  BY <1>1, <1>3, <1>5 DEF IInv, TypeOK
<1>7. Ring' /\ Loop' /\ Live' = Live /\ \A k : Back(k)' = Back(k)
  BY <1>1, IndicesStay
<1>8. InHands' = InHands
  BY <1>1, <1>3, <1>5 DEF InHands
<1>9. LiveApart' /\ HandsNotFree'
  BY <1>1, <1>7, <1>8 DEF IInv, LiveApart, HandsNotFree
<1>10. OneHand'
  BY <1>1, <1>3, <1>5 DEF IInv, OneHand, Disjoint
<1> QED
  BY <1>6, <1>7, <1>9, <1>10 DEF IInv

\* Every step of the ring, its worker and its NIC.
LEMMA StepIInv == IInv /\ [Next]_vars => IInv'
<1> SUFFICES ASSUME IInv, [Next]_vars PROVE IInv'
  OBVIOUS
<1>1. CASE ReceivePacket \/ CompleteSend
  BY <1>1, ReceivePacketKeeps, CompleteSendKeeps
<1>2. CASE RxBurst \/ DispatchBegin
  BY <1>2, RxBurstKeeps, DispatchBeginKeeps
<1>3. CASE EnqueueRx \/ MarkAppOwned \/ DropRx
  BY <1>3, EnqueueRxKeeps, MarkAppOwnedKeeps, DropRxKeeps
<1>4. CASE CollectTx \/ NicTx
  BY <1>4, CollectTxKeeps, NicTxKeeps
<1>5. CASE Worker
  BY <1>5, TakeBatchKeeps, ReleaseKeeps, RespondKeeps DEF Worker
<1>6. CASE UNCHANGED vars
  <2>1. UNCHANGED <<node, state_, recv_head_, ring_head_, wait_for_disp_, toDispatch, entry,
                    marking, nicNext, nicPosted, recvCq, rxQueue, held, txQueue, collected,
                    sending, sent>>
    BY <1>6 DEF vars, loopVars, nicVars, workerVars, sendVars
  <2>2. TypeOK'
    BY <2>1 DEF IInv, TypeOK
  <2>3. Ring' /\ Loop' /\ Live' = Live /\ \A k : Back(k)' = Back(k)
    BY <2>1, IndicesStay
  <2>4. InHands' = InHands /\ OneHand'
    BY <2>1 DEF IInv, InHands, OneHand
  <2>5. LiveApart' /\ HandsNotFree'
    BY <2>1, <2>3, <2>4 DEF IInv, LiveApart, HandsNotFree
  <2> QED
    BY <2>2, <2>3, <2>4, <2>5 DEF IInv
<1> QED
  BY <1>1, <1>2, <1>3, <1>4, <1>5, <1>6 DEF Next, Dispatcher

\* The invariant holds in every reachable state.
LEMMA Invariance == Spec => []IInv
BY InitIInv, StepIInv, PTL DEF Spec

-----------------------------------------------------------------------------
(* The theorems *)

\* Every index names a ring entry and every buffer state is one of the three,
\* whatever the handlers of roce_dispatcher_dataplane.cc do in which order.
THEOREM TypeCorrect == Spec => []TypeOK
<1>1. IInv => TypeOK
  BY DEF IInv
<1> QED
  BY <1>1, Invariance, PTL

\* Distances back from recv_head_ are what IndicesAgree says with Onward.
LEMMA IIndicesAgree == IInv => IndicesAgree
<1> SUFFICES ASSUME IInv PROVE IndicesAgree
  OBVIOUS
<1> DEFINE w == wait_for_disp_ + recvCq + nicPosted
<1>1. /\ RingSize \in Nat \ {0} /\ recv_head_ \in Buffers /\ nicPosted \in 0 .. RingSize
      /\ w \in 0 .. RingSize /\ wait_for_disp_ + recvCq \in 0 .. w
      /\ w - (wait_for_disp_ + recvCq) = nicPosted
      /\ nicPosted \in 0 .. nicPosted /\ nicPosted - nicPosted = 0
      /\ nicNext = Back(nicPosted) /\ ring_head_ = Back(w) /\ w <= RingSize
  BY RingAssumption DEF IInv, TypeOK, Ring
<1> HIDE DEF w
<1>2. Onward(Back(w), wait_for_disp_ + recvCq) = Back(nicPosted)
  <2>1. Onward(Back(w), wait_for_disp_ + recvCq) = Back(w - (wait_for_disp_ + recvCq))
    BY <1>1, BackFacts
  <2> QED
    BY <1>1, <2>1
<1>3. Onward(Back(nicPosted), nicPosted) = recv_head_
  <2>1. Onward(Back(nicPosted), nicPosted) = Back(nicPosted - nicPosted)
    BY <1>1, BackFacts
  <2> QED
    BY <1>1, <2>1, BackFacts
<1> QED
  BY <1>1, <1>2, <1>3 DEF IndicesAgree, w

\* recv_head_, ring_head_, wait_for_disp_ and the NIC describe one ring, for
\* any ring size and batch sizes: dispatch_rx_pkts takes exactly the packets
\* whose completions rx_burst polled.
THEOREM IndicesAgreeAlways == Spec => []IndicesAgree
BY Invariance, IIndicesAgree, PTL

\* A window of the ring, counted back from recv_head_.
LEMMA WindowBack ==
  ASSUME recv_head_ \in Buffers, NEW e \in 0 .. RingSize, NEW n \in 0 .. e
  PROVE  \A b \in Window(Back(e), n) : \E j \in e - n + 1 .. e : b = Back(j)
<1> SUFFICES ASSUME NEW k \in 0 .. n - 1
             PROVE  \E j \in e - n + 1 .. e : Onward(Back(e), k) = Back(j)
  BY DEF Window
<1>1. RingSize \in Nat /\ k \in 0 .. e /\ e - k \in e - n + 1 .. e
  BY RingAssumption
<1>2. Onward(Back(e), k) = Back(e - k)
  BY <1>1, BackFacts
<1> QED
  BY <1>1, <1>2

\* The buffers of the three stages before the application, by distance.
LEMMA Stages ==
  ASSUME IInv
  PROVE  /\ \A b \in Receiving : \E j \in 1 .. nicPosted : b = Back(j)
         /\ \A b \in Completed : \E j \in nicPosted + 1 .. nicPosted + recvCq : b = Back(j)
         /\ \A b \in Undispatched : \E j \in nicPosted + recvCq + 1 .. Live : b = Back(j)
<1>1. /\ RingSize \in Nat \ {0} /\ recv_head_ \in Buffers
      /\ nicPosted \in Nat /\ recvCq \in Nat /\ wait_for_disp_ \in Nat /\ toDispatch \in Nat
      /\ wait_for_disp_ + recvCq + nicPosted <= RingSize /\ toDispatch <= wait_for_disp_
      /\ marking \in BOOLEAN
      /\ nicNext = Back(nicPosted)
      /\ ring_head_ = Back(wait_for_disp_ + recvCq + nicPosted)
      /\ toDispatch > 0 => entry = Back(toDispatch + recvCq + nicPosted)
  BY RingAssumption DEF IInv, TypeOK, Ring, Loop
<1>2. \A b \in Receiving : \E j \in 1 .. nicPosted : b = Back(j)
  <2>1. /\ nicPosted \in 0 .. RingSize /\ nicPosted \in 0 .. nicPosted
        /\ nicPosted - nicPosted + 1 = 1
    BY <1>1
  <2>2. \A b \in Window(Back(nicPosted), nicPosted) :
          \E j \in nicPosted - nicPosted + 1 .. nicPosted : b = Back(j)
    BY <1>1, <2>1, WindowBack
  <2> QED
    BY <1>1, <2>1, <2>2 DEF Receiving
<1>3. \A b \in Completed : \E j \in nicPosted + 1 .. nicPosted + recvCq : b = Back(j)
  <2> DEFINE w == wait_for_disp_ + recvCq + nicPosted
             e == nicPosted + recvCq
  <2>1. /\ w \in 0 .. RingSize /\ wait_for_disp_ \in 0 .. w /\ w - wait_for_disp_ = e
        /\ e \in 0 .. RingSize /\ recvCq \in 0 .. e /\ e - recvCq + 1 = nicPosted + 1
    BY <1>1
  <2>2. Completed = Window(Onward(Back(w), wait_for_disp_), recvCq)
    BY <1>1 DEF Completed
  <2> HIDE DEF w
  <2>3. Onward(Back(w), wait_for_disp_) = Back(w - wait_for_disp_)
    BY <1>1, <2>1, BackFacts
  <2> HIDE DEF e
  <2>4. \A b \in Window(Back(e), recvCq) : \E j \in e - recvCq + 1 .. e : b = Back(j)
    BY <1>1, <2>1, WindowBack
  <2> QED
    BY <2>1, <2>2, <2>3, <2>4 DEF e
<1>4. \A b \in Undispatched : \E j \in nicPosted + recvCq + 1 .. Live : b = Back(j)
  <2>1. ASSUME NEW d \in 0 .. wait_for_disp_
        PROVE  \A b \in Window(Back(d + recvCq + nicPosted), d) :
                 \E j \in nicPosted + recvCq + 1 .. d + recvCq + nicPosted : b = Back(j)
    <3> DEFINE e == d + recvCq + nicPosted
    <3>1. /\ e \in 0 .. RingSize /\ d \in 0 .. e
          /\ e - d + 1 = nicPosted + recvCq + 1
      BY <1>1
    <3> HIDE DEF e
    <3>2. \A b \in Window(Back(e), d) : \E j \in e - d + 1 .. e : b = Back(j)
      BY <1>1, <3>1, WindowBack
    <3> QED
      BY <3>1, <3>2 DEF e
  <2>2. wait_for_disp_ \in 0 .. wait_for_disp_ /\ toDispatch \in 0 .. wait_for_disp_
    BY <1>1
  <2>3. CASE toDispatch = 0
    <3>1. Undispatched = Window(Back(wait_for_disp_ + recvCq + nicPosted), wait_for_disp_)
      BY <1>1, <2>3 DEF Undispatched
    <3>2. Live = wait_for_disp_ + recvCq + nicPosted
      BY <2>3, LiveBounds DEF Live
    <3> QED
      BY <2>1, <2>2, <3>1, <3>2
  <2>4. CASE toDispatch > 0 /\ ~marking
    <3>1. Undispatched = Window(Back(toDispatch + recvCq + nicPosted), toDispatch)
      BY <1>1, <2>4 DEF Undispatched
    <3>2. Live = toDispatch + recvCq + nicPosted
      BY <2>4, LiveBounds DEF Live
    <3> QED
      BY <2>1, <2>2, <3>1, <3>2
  <2>5. CASE toDispatch > 0 /\ marking
    <3>1. Undispatched = Window(Back(toDispatch + recvCq + nicPosted), toDispatch) \ {entry}
      BY <1>1, <2>5 DEF Undispatched
    <3>2. Live = toDispatch + recvCq + nicPosted - 1
      <4>1. NotDispatched = toDispatch - 1
        BY <2>5, LiveBounds
      <4> QED
        BY <1>1, <4>1 DEF Live
    <3>3. ASSUME NEW j \in nicPosted + recvCq + 1 .. toDispatch + recvCq + nicPosted,
                 Back(j) # entry
          PROVE  j \in nicPosted + recvCq + 1 .. Live
      <4>1. j # toDispatch + recvCq + nicPosted
        BY <1>1, <2>5, <3>3
      <4> QED
        BY <1>1, <3>2, <4>1
    <3> QED
      BY <2>1, <2>2, <3>1, <3>3
  <2> QED
    BY <1>1, <2>3, <2>4, <2>5
<1> QED
  BY <1>2, <1>3, <1>4

\* The stages are disjoint parts of the live run, which is apart from the hands.
LEMMA IOneOwner == IInv => OneOwner
<1> SUFFICES ASSUME IInv PROVE OneOwner
  OBVIOUS
<1> DEFINE rh == rxQueue \o held
           rht == rh \o txQueue
           rhtc == rht \o collected
           all == rhtc \o sending
<1>1. /\ rxQueue \in Seq(Buffers) /\ held \in Seq(Buffers) /\ txQueue \in Seq(Buffers)
      /\ collected \in Seq(Buffers) /\ sending \in Seq(Buffers) /\ OneHand
  BY DEF IInv, TypeOK
<1>2. /\ rh \in Seq(Buffers) /\ Elements(rh) = Elements(rxQueue) \union Elements(held)
      /\ OneToOne(rh)
  BY <1>1, ConcatElements DEF OneHand
<1> HIDE DEF rh
<1>3. /\ rht \in Seq(Buffers) /\ Elements(rht) = Elements(rh) \union Elements(txQueue)
      /\ OneToOne(rht)
  <2>1. Disjoint(rh, txQueue)
    BY <1>1, <1>2 DEF OneHand, Disjoint
  <2> QED
    BY <1>1, <1>2, <2>1, ConcatElements DEF OneHand
<1> HIDE DEF rht
<1>4. /\ rhtc \in Seq(Buffers) /\ Elements(rhtc) = Elements(rht) \union Elements(collected)
      /\ OneToOne(rhtc)
  <2>1. Disjoint(rht, collected)
    BY <1>1, <1>2, <1>3 DEF OneHand, Disjoint
  <2> QED
    BY <1>1, <1>3, <2>1, ConcatElements DEF OneHand
<1> HIDE DEF rhtc
<1>5. /\ all \in Seq(Buffers) /\ Elements(all) = Elements(rhtc) \union Elements(sending)
      /\ OneToOne(all)
  <2>1. Disjoint(rhtc, sending)
    BY <1>1, <1>2, <1>3, <1>4 DEF OneHand, Disjoint
  <2> QED
    BY <1>1, <1>4, <2>1, ConcatElements DEF OneHand
<1> HIDE DEF all
<1>6. Cardinality(Elements(all)) = Len(all)
  BY <1>5, CountElements
<1>7. all = rxQueue \o held \o txQueue \o collected \o sending
  BY DEF all, rhtc, rht, rh
<1>8. InApp = InHands
  <2>1. InApp = Elements(all)
    BY <1>7 DEF InApp
  <2>2. Elements(all) = InHands
    BY <1>2, <1>3, <1>4, <1>5, Zenon DEF InHands
  <2> QED
    BY <2>1, <2>2
<1>9. /\ RingSize \in Nat /\ recv_head_ \in Buffers /\ nicPosted \in Nat /\ recvCq \in Nat
      /\ Live \in 0 .. RingSize /\ nicPosted + recvCq <= Live
  <2>1. recv_head_ \in Buffers /\ nicPosted \in Nat /\ recvCq \in Nat
    BY DEF IInv, TypeOK
  <2>2. RingSize \in Nat /\ NotDispatched \in Nat /\ Live \in 0 .. RingSize
    BY LiveBounds
  <2> QED
    BY <2>1, <2>2 DEF Live
<1>10. \A j \in 1 .. Live : j \in 1 .. RingSize /\ Back(j) \notin InHands
  BY <1>9 DEF IInv, LiveApart
<1>11. /\ \A j \in 1 .. nicPosted : j \in 1 .. Live
       /\ \A j \in nicPosted + 1 .. nicPosted + recvCq : j \in 1 .. Live
       /\ \A j \in nicPosted + recvCq + 1 .. Live : j \in 1 .. Live
       /\ \A j \in 1 .. nicPosted, l \in nicPosted + 1 .. nicPosted + recvCq : j # l
       /\ \A j \in 1 .. nicPosted, l \in nicPosted + recvCq + 1 .. Live : j # l
  BY <1>9
<1>12. \A j \in 1 .. RingSize, l \in 1 .. RingSize : Back(j) = Back(l) => j = l
  BY <1>9, BackFacts
<1>13. Receiving \intersect Completed = {}
  <2> SUFFICES ASSUME NEW b \in Receiving, b \in Completed PROVE FALSE
    OBVIOUS
  <2>1. PICK j \in 1 .. nicPosted : b = Back(j)
    BY Stages
  <2>2. PICK l \in nicPosted + 1 .. nicPosted + recvCq : b = Back(l)
    BY Stages
  <2>3. j \in 1 .. RingSize /\ l \in 1 .. RingSize /\ j # l
    BY <1>10, <1>11
  <2> QED
    BY <1>12, <2>1, <2>2, <2>3
<1>14. Receiving \intersect Undispatched = {}
  <2> SUFFICES ASSUME NEW b \in Receiving, b \in Undispatched PROVE FALSE
    OBVIOUS
  <2>1. PICK j \in 1 .. nicPosted : b = Back(j)
    BY Stages
  <2>2. PICK l \in nicPosted + recvCq + 1 .. Live : b = Back(l)
    BY Stages
  <2>3. j \in 1 .. RingSize /\ l \in 1 .. RingSize /\ j # l
    BY <1>10, <1>11
  <2> QED
    BY <1>12, <2>1, <2>2, <2>3
<1>15. /\ Receiving \intersect InApp = {}
       /\ Completed \intersect InApp = {}
       /\ Undispatched \intersect InApp = {}
  BY <1>8, <1>10, <1>11, Stages, Zenon
<1> QED
  BY <1>5, <1>6, <1>7, <1>13, <1>14, <1>15 DEF OneOwner, InApp

\* A buffer is never posted to the NIC, waiting for dispatch and with the
\* application at once, nor twice in the queues, for any number of buffers,
\* one thread or two: rx_burst and dispatch_rx_pkts hand each one on once.
THEOREM OneOwnerAlways == Spec => []OneOwner
BY Invariance, IOneOwner, PTL

\* On one thread the worker cannot take a packet before it is marked.
StillQueued == marking => entry \in Elements(rxQueue)

\* Where the worker and the dispatcher are one workspace, kAPP_OWNED_BUF never
\* overwrites the worker's kFREE_BUF: no buffer is lost to the ring.
THEOREM FreedStaysFreeOnOneThread ==
  ASSUME \A m \in Nodes : m.shared
  PROVE  Spec => FreedStaysFree
<1> DEFINE Kept == \A b \in Buffers : state_[b] = "free" => state_'[b] \in {"free", "posted"}
<1>1. Init => StillQueued
  BY DEF Init, StillQueued
<1>2. IInv /\ StillQueued /\ [Next]_vars => StillQueued'
  <2> SUFFICES ASSUME IInv, StillQueued, [Next]_vars PROVE StillQueued'
    OBVIOUS
  <2>1. CASE EnqueueRx
    <3>1. rxQueue \in Seq(Buffers) /\ entry \in Buffers
      BY DEF IInv, TypeOK
    <3>2. Elements(rxQueue') = Elements(rxQueue) \union {entry} /\ entry' = entry
      BY <2>1, <3>1, AppendElements DEF EnqueueRx
    <3> QED
      BY <3>2 DEF StillQueued
  <2>2. CASE MarkAppOwned
    BY <2>2 DEF MarkAppOwned, StillQueued
  <2>3. CASE DropRx
    BY <2>3 DEF DropRx, StillQueued
  <2>4. CASE DispatchBegin
    BY <2>4 DEF DispatchBegin, DispatcherBetweenPhases, StillQueued, IInv, Loop
  <2>5. CASE TakeBatch
    <3>1. node.shared
      BY DEF IInv, TypeOK
    <3> QED
      BY <2>5, <3>1 DEF TakeBatch, WorkerMayRun, DispatcherBetweenPhases, loopVars,
                        StillQueued, IInv, Loop
  <2>6. CASE ReceivePacket \/ CompleteSend \/ RxBurst \/ CollectTx \/ NicTx \/ Release
             \/ Respond \/ UNCHANGED vars
    <3>1. UNCHANGED <<marking, entry, rxQueue>>
      BY <2>6 DEF ReceivePacket, CompleteSend, RxBurst, CollectTx, NicTx, Release, Respond,
                  vars, loopVars, workerVars
    <3> QED
      BY <3>1 DEF StillQueued
  <2> QED
    BY <2>1, <2>2, <2>3, <2>4, <2>5, <2>6 DEF Next, Dispatcher, Worker
<1>3. IInv /\ StillQueued /\ [Next]_vars => [Kept]_state_
  <2> SUFFICES ASSUME IInv, StillQueued, [Next]_vars, NEW b \in Buffers, state_[b] = "free"
               PROVE  state_'[b] \in {"free", "posted"} \/ state_' = state_
    BY DEF Kept
  <2>1. state_ \in [Buffers -> {"posted", "app", "free"}]
    BY DEF IInv, TypeOK
  <2>2. CASE RxBurst
    <3>1. PICK n \in 0 .. RingSize :
            state_' = [c \in Buffers |->
                         IF c \in Window(recv_head_, n) THEN "posted" ELSE state_[c]]
      BY <2>2 DEF RxBurst
    <3> QED
      BY <3>1
  <2>3. CASE MarkAppOwned
    <3>1. entry \in InHands
      BY <2>3 DEF MarkAppOwned, StillQueued, InHands
    <3>2. b # entry
      BY <3>1 DEF IInv, HandsNotFree
    <3> QED
      BY <2>1, <2>3, <3>2 DEF MarkAppOwned
  <2>4. CASE DropRx
    BY <2>1, <2>4 DEF DropRx
  <2>5. CASE NicTx
    BY <2>1, <2>5 DEF NicTx
  <2>6. CASE Release
    BY <2>1, <2>6 DEF Release
  <2>7. CASE ReceivePacket \/ CompleteSend \/ DispatchBegin \/ EnqueueRx \/ CollectTx
             \/ TakeBatch \/ Respond \/ UNCHANGED vars
    BY <2>7 DEF ReceivePacket, CompleteSend, DispatchBegin, EnqueueRx, CollectTx, TakeBatch,
                Respond, vars
  <2> QED
    BY <2>2, <2>3, <2>4, <2>5, <2>6, <2>7 DEF Next, Dispatcher, Worker
<1>4. Spec => [](IInv /\ StillQueued)
  BY <1>1, <1>2, InitIInv, StepIInv, PTL DEF Spec
<1> QED
  BY <1>3, <1>4, PTL DEF Spec, FreedStaysFree, Kept

====================================================================================
