---------------------------- MODULE DpdkServerProofs ----------------------------
(***************************************************************************)
(* For any servers, sizes of queues, batches and rings: every variable of    *)
(* DpdkServer keeps its type and every queue its bound; and where the NIC    *)
(* delivers no data behind an ARP packet and responses in mbufs of their own *)
(* are no shorter than their requests, every mbuf is in one place.           *)
(*                                                                          *)
(* The argument: Where is what each of ten places holds.  A step takes a     *)
(* sequence of mbufs from the front of one place and puts it behind another  *)
(* (Moves), into the pool (Leaves), or takes it from there (Enters), and     *)
(* each of these keeps the places apart.  That dispatch_rx_pkts frees what   *)
(* is behind the first dispatch_total packets, and has enqueued those,       *)
(* takes an invariant about the order of packets: InOrder.                   *)
(***************************************************************************)
EXTENDS DpdkServer, SequenceTheorems, FiniteSetTheorems, TLAPS

-----------------------------------------------------------------------------
(* Sequences that share no element *)

\* Two sequences in a row.
LEMMA JoinElements ==
  ASSUME NEW S, NEW s \in Seq(S), NEW t \in Seq(S)
  PROVE  /\ s \o t \in Seq(S)
         /\ ToSet(s \o t) = ToSet(s) \union ToSet(t)
         /\ IsInjective(s \o t)
              <=> IsInjective(s) /\ IsInjective(t) /\ ToSet(s) \intersect ToSet(t) = {}
<1>1. /\ s \o t \in Seq(S) /\ Len(s \o t) = Len(s) + Len(t)
      /\ \A m \in 1 .. Len(s) + Len(t) :
           (s \o t)[m] = IF m <= Len(s) THEN s[m] ELSE t[m - Len(s)]
  BY ConcatProperties
<1>2. /\ Len(s) \in Nat /\ Len(t) \in Nat /\ DOMAIN (s \o t) = 1 .. Len(s) + Len(t)
      /\ DOMAIN s = 1 .. Len(s) /\ DOMAIN t = 1 .. Len(t)
  BY <1>1, LenProperties
<1>3. \A m \in DOMAIN (s \o t) :
        \/ m \in DOMAIN s /\ (s \o t)[m] = s[m]
        \/ m - Len(s) \in DOMAIN t /\ (s \o t)[m] = t[m - Len(s)] /\ m \notin DOMAIN s
  BY <1>1, <1>2
<1>4. \A m \in DOMAIN s : m \in DOMAIN (s \o t) /\ (s \o t)[m] = s[m]
  BY <1>1, <1>2
<1>5. \A m \in DOMAIN t :
        m + Len(s) \in DOMAIN (s \o t) /\ (s \o t)[m + Len(s)] = t[m] /\ m + Len(s) \notin DOMAIN s
  BY <1>1, <1>2
<1>6. ToSet(s \o t) = ToSet(s) \union ToSet(t)
  <2>1. \A m \in DOMAIN (s \o t) : (s \o t)[m] \in ToSet(s) \union ToSet(t)
    BY <1>3 DEF ToSet
  <2>2. \A m \in DOMAIN s : s[m] \in ToSet(s \o t)
    BY <1>4 DEF ToSet
  <2>3. \A m \in DOMAIN t : t[m] \in ToSet(s \o t)
    BY <1>5 DEF ToSet
  <2> QED
    BY <2>1, <2>2, <2>3 DEF ToSet
<1>7. ASSUME IsInjective(s), IsInjective(t), ToSet(s) \intersect ToSet(t) = {}
      PROVE  IsInjective(s \o t)
  <2> SUFFICES ASSUME NEW m \in DOMAIN (s \o t), NEW j \in DOMAIN (s \o t),
                      (s \o t)[m] = (s \o t)[j]
               PROVE  m = j
    BY DEF IsInjective
  <2>1. m \in Nat /\ j \in Nat
    BY <1>2
  <2>2. CASE m \in DOMAIN s /\ j \in DOMAIN s
    BY <2>2, <1>4, <1>7 DEF IsInjective
  <2>3. CASE m \notin DOMAIN s /\ j \notin DOMAIN s
    <3>1. m - Len(s) = j - Len(s)
      BY <2>3, <1>3, <1>7 DEF IsInjective
    <3> QED
      BY <3>1, <2>1, <1>2
  <2>4. CASE m \in DOMAIN s /\ j \notin DOMAIN s
    BY <2>4, <1>3, <1>7 DEF ToSet
  <2>5. CASE m \notin DOMAIN s /\ j \in DOMAIN s
    BY <2>5, <1>3, <1>7 DEF ToSet
  <2> QED
    BY <2>2, <2>3, <2>4, <2>5
<1>8. ASSUME IsInjective(s \o t)
      PROVE  IsInjective(s) /\ IsInjective(t) /\ ToSet(s) \intersect ToSet(t) = {}
  <2>1. IsInjective(s)
    BY <1>4, <1>8 DEF IsInjective
  <2>2. IsInjective(t)
    <3> SUFFICES ASSUME NEW m \in DOMAIN t, NEW j \in DOMAIN t, t[m] = t[j] PROVE m = j
      BY DEF IsInjective
    <3>1. m + Len(s) = j + Len(s)
      BY <1>5, <1>8 DEF IsInjective
    <3> QED
      BY <3>1, <1>2
  <2>3. \A m \in DOMAIN s, j \in DOMAIN t : s[m] # t[j]
    BY <1>4, <1>5, <1>8 DEF IsInjective
  <2> QED
    BY <2>1, <2>2, <2>3 DEF ToSet
<1> QED
  BY <1>1, <1>6, <1>7, <1>8

\* A sequence cut in two.
LEMMA CutSequence ==
  ASSUME NEW S, NEW s \in Seq(S), NEW n \in 0 .. Len(s)
  PROVE  /\ SubSeq(s, 1, n) \in Seq(S) /\ Len(SubSeq(s, 1, n)) = n
         /\ \A k \in 1 .. n : SubSeq(s, 1, n)[k] = s[k]
         /\ SubSeq(s, n + 1, Len(s)) \in Seq(S)
<1>1. Len(s) \in Nat /\ \A m \in 1 .. Len(s) : s[m] \in S
  BY LenProperties, ElementOfSeq
<1>2. /\ \A m \in 1 .. n : s[m] \in S
      /\ \A m \in n + 1 .. Len(s) : s[m] \in S
  BY <1>1
<1>3. /\ SubSeq(s, 1, n) \in Seq(S)
      /\ Len(SubSeq(s, 1, n)) = IF 1 <= n THEN n - 1 + 1 ELSE 0
      /\ \A m \in 1 .. n - 1 + 1 : SubSeq(s, 1, n)[m] = s[1 + m - 1]
  BY <1>1, <1>2, SubSeqProperties
<1>4. SubSeq(s, n + 1, Len(s)) \in Seq(S)
  BY <1>1, <1>2, SubSeqProperties
<1> QED
  BY <1>1, <1>3, <1>4

\* A sequence is what was taken from its front, and the rest.
LEMMA CutAndJoined ==
  ASSUME NEW S, NEW s \in Seq(S), NEW n \in 0 .. Len(s)
  PROVE  s = SubSeq(s, 1, n) \o SubSeq(s, n + 1, Len(s))
<1> DEFINE front == SubSeq(s, 1, n)
           rest == SubSeq(s, n + 1, Len(s))
<1>1. Len(s) \in Nat /\ \A m \in 1 .. Len(s) : s[m] \in S
  BY LenProperties, ElementOfSeq
<1>2. /\ front \in Seq(S) /\ Len(front) = n /\ rest \in Seq(S)
      /\ \A k \in 1 .. n : front[k] = s[k]
  BY CutSequence
<1>3. Len(rest) = Len(s) - n /\ \A k \in 1 .. Len(s) - n : rest[k] = s[n + k]
  <2>1. \A m \in n + 1 .. Len(s) : s[m] \in S
    BY <1>1
  <2>2. /\ Len(rest) = IF n + 1 <= Len(s) THEN Len(s) - (n + 1) + 1 ELSE 0
        /\ \A m \in 1 .. Len(s) - (n + 1) + 1 : rest[m] = s[n + 1 + m - 1]
    BY <1>1, <2>1, SubSeqProperties
  <2> HIDE DEF rest
  <2>3. Len(rest) = Len(s) - n
    BY <1>1, <2>2
  <2>4. \A k \in 1 .. Len(s) - n : k \in 1 .. Len(s) - (n + 1) + 1 /\ n + 1 + k - 1 = n + k
    BY <1>1
  <2> QED
    BY <2>2, <2>3, <2>4
<1> HIDE DEF front, rest
<1>4. /\ front \o rest \in Seq(S) /\ Len(front \o rest) = n + (Len(s) - n)
      /\ \A m \in 1 .. n + (Len(s) - n) :
           (front \o rest)[m] = IF m <= n THEN front[m] ELSE rest[m - n]
  <2>1. rest \in Seq(S) /\ front \in Seq(S) /\ Len(front) = n /\ Len(rest) = Len(s) - n
    BY <1>2, <1>3
  <2>2. /\ front \o rest \in Seq(S) /\ Len(front \o rest) = Len(front) + Len(rest)
        /\ \A m \in 1 .. Len(front) + Len(rest) :
             (front \o rest)[m] = IF m <= Len(front) THEN front[m] ELSE rest[m - Len(front)]
    BY <2>1, ConcatProperties
  <2> QED
    BY <2>1, <2>2
<1>5. Len(front \o rest) = Len(s)
  BY <1>1, <1>4
<1>6. \A m \in 1 .. Len(s) : (front \o rest)[m] = s[m]
  <2> SUFFICES ASSUME NEW m \in 1 .. Len(s) PROVE (front \o rest)[m] = s[m]
    OBVIOUS
  <2>1. CASE m <= n
    <3>1. m \in 1 .. n /\ m \in 1 .. n + (Len(s) - n)
      BY <2>1, <1>1
    <3>2. (front \o rest)[m] = front[m]
      BY <2>1, <3>1, <1>4
    <3> QED
      BY <3>1, <3>2, <1>2
  <2>2. CASE m > n
    <3>1. m - n \in 1 .. Len(s) - n /\ n + (m - n) = m /\ ~(m <= n)
          /\ m \in 1 .. n + (Len(s) - n)
      BY <2>2, <1>1
    <3>2. (front \o rest)[m] = rest[m - n]
      BY <3>1, <1>4
    <3> QED
      BY <3>1, <3>2, <1>3
  <2>3. m <= n \/ m > n
    BY <1>1
  <2> QED
    BY <2>1, <2>2, <2>3
<1>7. front \o rest = s
  BY <1>4, <1>5, <1>6, SeqEqual
<1> QED
  BY <1>7 DEF front, rest

\* The case of one element, as Head, Tail and Append have it.
LEMMA HeadAndTailJoined ==
  ASSUME NEW S, NEW s \in Seq(S), s # <<>>, NEW t \in Seq(S)
  PROVE  /\ <<Head(s)>> \in Seq(S) /\ Tail(s) \in Seq(S)
         /\ s = <<Head(s)>> \o Tail(s)
         /\ Append(t, Head(s)) = t \o <<Head(s)>>
<1>1. /\ Tail(s) \in Seq(S) /\ Head(s) \in S /\ Len(Tail(s)) = Len(s) - 1
      /\ \A m \in 1 .. Len(Tail(s)) : Tail(s)[m] = s[m + 1]
      /\ Head(s) = s[1] /\ Len(s) \in Nat \ {0}
  BY HeadTailProperties, LenProperties
<1>2. <<Head(s)>> \in Seq(S) /\ Len(<<Head(s)>>) = 1 /\ <<Head(s)>>[1] = Head(s)
  BY <1>1
<1>3. s = <<Head(s)>> \o Tail(s)
  <2>1. /\ <<Head(s)>> \o Tail(s) \in Seq(S) /\ Len(<<Head(s)>> \o Tail(s)) = 1 + (Len(s) - 1)
        /\ \A m \in 1 .. 1 + (Len(s) - 1) :
             (<<Head(s)>> \o Tail(s))[m] = IF m <= 1 THEN <<Head(s)>>[m] ELSE Tail(s)[m - 1]
    BY <1>1, <1>2, ConcatProperties
  <2>2. \A m \in 1 .. Len(s) : (<<Head(s)>> \o Tail(s))[m] = s[m]
    <3> SUFFICES ASSUME NEW m \in 1 .. Len(s) PROVE (<<Head(s)>> \o Tail(s))[m] = s[m]
      OBVIOUS
    <3>1. CASE m = 1
      BY <3>1, <2>1, <1>1, <1>2
    <3>2. CASE m # 1
      <4>1. m - 1 \in 1 .. Len(Tail(s)) /\ (m - 1) + 1 = m /\ ~(m <= 1)
            /\ m \in 1 .. 1 + (Len(s) - 1)
        BY <3>2, <1>1
      <4> QED
        BY <4>1, <2>1, <1>1
    <3> QED
      BY <3>1, <3>2
  <2>3. Len(<<Head(s)>> \o Tail(s)) = Len(s)
    BY <2>1, <1>1
  <2> QED
    BY <2>1, <2>2, <2>3, SeqEqual
<1>4. Append(t, Head(s)) = t \o <<Head(s)>>
  BY <1>1, <1>2, AppendIsConcat
<1> QED
  BY <1>1, <1>2, <1>3, <1>4

\* What Tail leaves behind.
LEMMA HeadElements ==
  ASSUME NEW S, NEW s \in Seq(S), s # <<>>, IsInjective(s)
  PROVE  /\ Head(s) \in S /\ ToSet(s) = {Head(s)} \union ToSet(Tail(s))
         /\ Head(s) \notin ToSet(Tail(s))
<1> DEFINE first == <<Head(s)>>
           rest == Tail(s)
<1>1. first \in Seq(S) /\ rest \in Seq(S) /\ s = first \o rest
  BY HeadAndTailJoined
<1>2. ToSet(first) = {Head(s)}
  BY DEF ToSet
<1>3. Head(s) \in S
  BY HeadTailProperties
<1> HIDE DEF first, rest
<1>4. /\ ToSet(s) = ToSet(first) \union ToSet(rest)
      /\ ToSet(first) \intersect ToSet(rest) = {}
  BY <1>1, JoinElements
<1>5. ToSet(s) = {Head(s)} \union ToSet(rest) /\ Head(s) \notin ToSet(rest)
  BY <1>2, <1>4
<1> QED
  BY <1>3, <1>5 DEF rest

-----------------------------------------------------------------------------
(* Holders: a function F of sequences that share out what is not out *)

Holders == {"nicRx", "rx_queue_", "wsRx", "msg", "toSend", "leftover", "wsTx", "tx_queue_", "nicTx",
            "arpTry"}

Contents == [Holders -> Seq(Nat)]

Apart(F, out, all) ==
  /\ \A h \in DOMAIN F : IsInjective(F[h]) /\ ToSet(F[h]) \intersect out = {}
  /\ \A g, h \in DOMAIN F : g # h => ToSet(F[g]) \intersect ToSet(F[h]) = {}
  /\ out \union UNION {ToSet(F[h]) : h \in DOMAIN F} = all

\* The front of one is put behind another.
LEMMA Moves ==
  ASSUME NEW F \in Contents, NEW G \in Contents, NEW out,
         NEW x \in Holders, NEW y \in Holders, x # y, NEW moved \in Seq(Nat),
         F[x] = moved \o G[x], G[y] = F[y] \o moved,
         \A h \in Holders \ {x, y} : G[h] = F[h],
         NEW all, Apart(F, out, all)
  PROVE  Apart(G, out, all)
<1>1. /\ ToSet(F[x]) = ToSet(moved) \union ToSet(G[x])
      /\ IsInjective(F[x]) <=> /\ IsInjective(moved) /\ IsInjective(G[x])
                               /\ ToSet(moved) \intersect ToSet(G[x]) = {}
  BY JoinElements DEF Contents
<1>2. /\ ToSet(G[y]) = ToSet(F[y]) \union ToSet(moved)
      /\ IsInjective(G[y]) <=> /\ IsInjective(F[y]) /\ IsInjective(moved)
                               /\ ToSet(F[y]) \intersect ToSet(moved) = {}
  BY JoinElements DEF Contents
<1>3. DOMAIN F = Holders /\ DOMAIN G = Holders
  BY DEF Contents
<1>4. /\ \A h \in Holders : IsInjective(F[h]) /\ ToSet(F[h]) \intersect out = {}
      /\ \A g, h \in Holders : g # h => ToSet(F[g]) \intersect ToSet(F[h]) = {}
      /\ out \union UNION {ToSet(F[h]) : h \in Holders} = all
  BY <1>3 DEF Apart
<1>5. \A h \in Holders : IsInjective(G[h]) /\ ToSet(G[h]) \intersect out = {}
  BY <1>1, <1>2, <1>4
<1>6. ASSUME NEW g \in Holders, NEW h \in Holders, g # h
      PROVE  ToSet(G[g]) \intersect ToSet(G[h]) = {}
  <2>1. \A k \in Holders \ {x, y} :
          /\ ToSet(G[k]) \intersect ToSet(G[x]) = {}
          /\ ToSet(G[k]) \intersect ToSet(G[y]) = {}
    BY <1>1, <1>2, <1>4
  <2>2. ToSet(G[x]) \intersect ToSet(G[y]) = {}
    BY <1>1, <1>2, <1>4
  <2>3. \A k, l \in Holders \ {x, y} : k # l => ToSet(G[k]) \intersect ToSet(G[l]) = {}
    BY <1>4
  <2>4. CASE (g = x /\ h = y) \/ (g = y /\ h = x)
    BY <2>2, <2>4
  <2>5. CASE g \in {x, y} /\ h \notin {x, y}
    BY <2>1, <2>5
  <2>6. CASE g \notin {x, y} /\ h \in {x, y}
    BY <2>1, <2>6
  <2>7. CASE g \notin {x, y} /\ h \notin {x, y}
    BY <2>3, <2>7, <1>6
  <2>8. \/ (g = x /\ h = y) \/ (g = y /\ h = x)
        \/ g \in {x, y} /\ h \notin {x, y}
        \/ g \notin {x, y} /\ h \in {x, y}
        \/ g \notin {x, y} /\ h \notin {x, y}
    BY <1>6
  <2> QED
    BY <2>4, <2>5, <2>6, <2>7, <2>8
<1>7. UNION {ToSet(G[h]) : h \in Holders} = UNION {ToSet(F[h]) : h \in Holders}
  <2>1. ASSUME NEW h \in Holders, NEW b \in ToSet(G[h])
        PROVE  \E g \in Holders : b \in ToSet(F[g])
    BY <1>1, <1>2, <2>1
  <2>2. ASSUME NEW h \in Holders, NEW b \in ToSet(F[h])
        PROVE  \E g \in Holders : b \in ToSet(G[g])
    BY <1>1, <1>2, <2>2
  <2>3. UNION {ToSet(G[h]) : h \in Holders} \subseteq UNION {ToSet(F[h]) : h \in Holders}
    <3> SUFFICES ASSUME NEW h \in Holders, NEW b \in ToSet(G[h])
                 PROVE  b \in UNION {ToSet(F[g]) : g \in Holders}
      OBVIOUS
    <3>1. PICK g \in Holders : b \in ToSet(F[g])
      BY <2>1
    <3> QED
      BY <3>1
  <2>4. UNION {ToSet(F[h]) : h \in Holders} \subseteq UNION {ToSet(G[h]) : h \in Holders}
    <3> SUFFICES ASSUME NEW h \in Holders, NEW b \in ToSet(F[h])
                 PROVE  b \in UNION {ToSet(G[g]) : g \in Holders}
      OBVIOUS
    <3>1. PICK g \in Holders : b \in ToSet(G[g])
      BY <2>2
    <3> QED
      BY <3>1
  <2> QED
    BY <2>3, <2>4
<1> QED
  BY <1>3, <1>4, <1>5, <1>6, <1>7 DEF Apart

\* The front of one is put out.
LEMMA Leaves ==
  ASSUME NEW F \in Contents, NEW G \in Contents, NEW out,
         NEW x \in Holders, NEW moved \in Seq(Nat),
         F[x] = moved \o G[x],
         \A h \in Holders \ {x} : G[h] = F[h],
         NEW all, Apart(F, out, all)
  PROVE  /\ Apart(G, out \union ToSet(moved), all)
         /\ ToSet(moved) \intersect out = {}
<1>1. /\ ToSet(F[x]) = ToSet(moved) \union ToSet(G[x])
      /\ IsInjective(F[x]) <=> /\ IsInjective(moved) /\ IsInjective(G[x])
                               /\ ToSet(moved) \intersect ToSet(G[x]) = {}
  BY JoinElements DEF Contents
<1>2. DOMAIN F = Holders /\ DOMAIN G = Holders
  BY DEF Contents
<1>3. /\ \A h \in Holders : IsInjective(F[h]) /\ ToSet(F[h]) \intersect out = {}
      /\ \A g, h \in Holders : g # h => ToSet(F[g]) \intersect ToSet(F[h]) = {}
      /\ out \union UNION {ToSet(F[h]) : h \in Holders} = all
  BY <1>2 DEF Apart
<1>4. \A h \in Holders : IsInjective(G[h]) /\ ToSet(G[h]) \intersect (out \union ToSet(moved)) = {}
  BY <1>1, <1>3
<1>5. \A g, h \in Holders : g # h => ToSet(G[g]) \intersect ToSet(G[h]) = {}
  BY <1>1, <1>3
<1>6. out \union ToSet(moved) \union UNION {ToSet(G[h]) : h \in Holders}
        = out \union UNION {ToSet(F[h]) : h \in Holders}
  <2>1. ASSUME NEW h \in Holders, NEW b \in ToSet(G[h])
        PROVE  \E g \in Holders : b \in ToSet(F[g])
    BY <1>1, <2>1
  <2>2. ASSUME NEW h \in Holders, NEW b \in ToSet(F[h])
        PROVE  b \in ToSet(moved) \/ \E g \in Holders : b \in ToSet(G[g])
    BY <1>1, <2>2
  <2>3. ToSet(moved) \subseteq UNION {ToSet(F[h]) : h \in Holders}
    BY <1>1
  <2>4. UNION {ToSet(G[h]) : h \in Holders} \subseteq UNION {ToSet(F[h]) : h \in Holders}
    <3> SUFFICES ASSUME NEW h \in Holders, NEW b \in ToSet(G[h])
                 PROVE  b \in UNION {ToSet(F[g]) : g \in Holders}
      OBVIOUS
    <3>1. PICK g \in Holders : b \in ToSet(F[g])
      BY <2>1
    <3> QED
      BY <3>1
  <2>5. UNION {ToSet(F[h]) : h \in Holders}
          \subseteq ToSet(moved) \union UNION {ToSet(G[h]) : h \in Holders}
    BY <2>2
  <2> DEFINE before == UNION {ToSet(F[h]) : h \in Holders}
             after == UNION {ToSet(G[h]) : h \in Holders}
  <2>6. ToSet(moved) \subseteq before /\ after \subseteq before /\ before \subseteq ToSet(moved) \union after
    BY <2>3, <2>4, <2>5
  <2> HIDE DEF before, after
  <2>7. out \union ToSet(moved) \union after = out \union before
    BY <2>6
  <2> QED
    BY <2>7 DEF before, after
<1> QED
  BY <1>1, <1>2, <1>3, <1>4, <1>5, <1>6 DEF Apart

\* What was out is put behind one.
LEMMA Enters ==
  ASSUME NEW F \in Contents, NEW G \in Contents, NEW out,
         NEW x \in Holders, NEW moved \in Seq(Nat),
         IsInjective(moved), ToSet(moved) \subseteq out, G[x] = F[x] \o moved,
         \A h \in Holders \ {x} : G[h] = F[h],
         NEW all, Apart(F, out, all)
  PROVE  Apart(G, out \ ToSet(moved), all)
<1>1. DOMAIN F = Holders /\ DOMAIN G = Holders
  BY DEF Contents
<1>2. /\ \A h \in Holders : IsInjective(F[h]) /\ ToSet(F[h]) \intersect out = {}
      /\ \A g, h \in Holders : g # h => ToSet(F[g]) \intersect ToSet(F[h]) = {}
      /\ out \union UNION {ToSet(F[h]) : h \in Holders} = all
  BY <1>1 DEF Apart
<1>3. /\ ToSet(G[x]) = ToSet(F[x]) \union ToSet(moved)
      /\ IsInjective(G[x]) <=> /\ IsInjective(F[x]) /\ IsInjective(moved)
                               /\ ToSet(F[x]) \intersect ToSet(moved) = {}
  BY JoinElements DEF Contents
<1>4. \A h \in Holders : IsInjective(G[h]) /\ ToSet(G[h]) \intersect (out \ ToSet(moved)) = {}
  BY <1>2, <1>3
<1>5. \A g, h \in Holders : g # h => ToSet(G[g]) \intersect ToSet(G[h]) = {}
  BY <1>2, <1>3
<1>6. (out \ ToSet(moved)) \union UNION {ToSet(G[h]) : h \in Holders}
        = out \union UNION {ToSet(F[h]) : h \in Holders}
  <2>1. ASSUME NEW h \in Holders, NEW b \in ToSet(G[h])
        PROVE  b \in out \/ \E g \in Holders : b \in ToSet(F[g])
    BY <2>1, <1>3
  <2>2. ASSUME NEW h \in Holders, NEW b \in ToSet(F[h])
        PROVE  \E g \in Holders : b \in ToSet(G[g])
    BY <2>2, <1>3
  <2> DEFINE before == UNION {ToSet(F[h]) : h \in Holders}
             after == UNION {ToSet(G[h]) : h \in Holders}
  <2>3. ToSet(moved) \subseteq after
    BY <1>3
  <2>4. after \subseteq out \union before
    <3> SUFFICES ASSUME NEW h \in Holders, NEW b \in ToSet(G[h]) PROVE b \in out \union before
      OBVIOUS
    <3>1. b \in out \/ \E g \in Holders : b \in ToSet(F[g])
      BY <2>1
    <3> QED
      BY <3>1
  <2>5. before \subseteq after
    <3> SUFFICES ASSUME NEW h \in Holders, NEW b \in ToSet(F[h]) PROVE b \in after
      OBVIOUS
    <3>1. PICK g \in Holders : b \in ToSet(G[g])
      BY <2>2
    <3> QED
      BY <3>1
  <2> HIDE DEF before, after
  <2>6. (out \ ToSet(moved)) \union after = out \union before
    BY <2>3, <2>4, <2>5
  <2> QED
    BY <2>6 DEF before, after
<1> QED
  BY <1>1, <1>2, <1>4, <1>5, <1>6 DEF Apart

-----------------------------------------------------------------------------
(* Operators of the model *)

Kinds == {"data", "arp", "otherArp"}
Packets == [mbuf : Mbufs, kind : Kinds]

\* What the configuration gives.
LEMMA BuildFacts ==
  ASSUME build \in Builds
  PROVE  /\ build.req \in Nat \ {0} /\ build.resp \in Nat \ {0} /\ build.poolSize \in Nat \ {0}
         /\ build.handler \in {"app", "echo"} /\ build.applyNew \in BOOLEAN
         /\ build.inFlight \in Nat \ {0}
         /\ build.resp > build.req => build.applyNew
         /\ Mbufs \subseteq Nat /\ IsFiniteSet(Mbufs) /\ NoMbuf \notin Mbufs
         /\ AppRxBatch \in Nat \ {0} /\ DispRxBatch \in Nat \ {0} /\ RingEntries \in Nat \ {0}
         /\ build.queueCap \in Nat /\ NicRxCap \in Nat /\ NicTxCap \in Nat /\ MaxArps \in Nat
         /\ build.dispTxBatch \in 1 .. RingEntries
<1>1. build \in Build /\ (build.resp > build.req => build.applyNew)
  BY BuildAssumption
<1>2. /\ build.req \in Nat \ {0} /\ build.resp \in Nat \ {0} /\ build.poolSize \in Nat \ {0}
      /\ build.handler \in {"app", "echo"} /\ build.applyNew \in BOOLEAN
      /\ build.inFlight \in Nat \ {0}
  BY <1>1 DEF Build
<1>4. build.queueCap \in Nat /\ build.dispTxBatch \in 1 .. RingEntries
  BY <1>1 DEF Build
<1>3. Mbufs \subseteq Nat /\ NoMbuf \notin Mbufs /\ IsFiniteSet(Mbufs)
  <2>1. IsFiniteSet(1 .. build.poolSize)
    BY <1>2, FS_Interval
  <2> QED
    BY <1>2, <2>1 DEF Mbufs, NoMbuf
<1> QED
  BY <1>1, <1>2, <1>3, <1>4, BuildAssumption

\* The pool hands out different mbufs it has.
LEMMA BulkFacts ==
  ASSUME build \in Builds, free \subseteq Mbufs, NEW n \in Nat, n <= Cardinality(free)
  PROVE  /\ Bulk(n) \in Seq(Mbufs) /\ Bulk(n) \in Seq(Nat) /\ Len(Bulk(n)) = n
         /\ IsInjective(Bulk(n)) /\ ToSet(Bulk(n)) \subseteq free
         /\ \A k \in 1 .. n : Bulk(n)[k] \in free
<1>1. Mbufs \subseteq Nat /\ IsFiniteSet(Mbufs)
  BY BuildFacts
<1>2. /\ Cardinality(free) \in Nat
      /\ ExistsBijection(1 .. Cardinality(free), free)
  BY <1>1, FS_Subset, FS_CardinalityType
<1>3. PICK f : f \in Bijection(1 .. Cardinality(free), free)
  BY <1>2 DEF ExistsBijection
<1>4. /\ f \in [1 .. Cardinality(free) -> free]
      /\ \A k, l \in 1 .. Cardinality(free) : f[k] = f[l] => k = l
  BY <1>3 DEF Bijection, Injection, IsInjective
<1> DEFINE s == [k \in 1 .. n |-> f[k]]
<1>5. \A k \in 1 .. n : k \in 1 .. Cardinality(free)
  BY <1>2
<1>6. s \in [1 .. n -> free] /\ IsInjective(s)
  BY <1>4, <1>5 DEF IsInjective
<1>7. Bulk(n) \in [1 .. n -> free] /\ IsInjective(Bulk(n))
  BY <1>6 DEF Bulk
<1>8. Bulk(n) \in [1 .. n -> Mbufs] /\ Bulk(n) \in [1 .. n -> Nat]
  BY <1>1, <1>7
<1>9. /\ Bulk(n) \in Seq(Mbufs) /\ Bulk(n) \in Seq(Nat) /\ Len(Bulk(n)) = n
  BY <1>8
<1>10. ToSet(Bulk(n)) \subseteq free
  BY <1>7 DEF ToSet
<1> QED
  BY <1>7, <1>9, <1>10

\* One mbuf.
LEMMA OneMbuf ==
  ASSUME build \in Builds, free \subseteq Mbufs, free # {}
  PROVE  /\ Bulk(1) = <<Bulk(1)[1]>> /\ Bulk(1)[1] \in free /\ ToSet(Bulk(1)) = {Bulk(1)[1]}
         /\ 1 <= Cardinality(free)
<1>1. Cardinality(free) \in Nat /\ Cardinality(free) # 0
  BY BuildFacts, FS_Subset, FS_CardinalityType, FS_EmptySet
<1>2. 1 <= Cardinality(free)
  BY <1>1
<1>3. Bulk(1) \in Seq(Mbufs) /\ Len(Bulk(1)) = 1 /\ Bulk(1)[1] \in free
  <2>1. 1 \in Nat /\ 1 \in 1 .. 1
    OBVIOUS
  <2> QED
    BY <1>2, <2>1, BulkFacts
<1> DEFINE one == Bulk(1)
<1>4. one \in Seq(Mbufs) /\ Len(one) = 1
  BY <1>3
<1> HIDE DEF one
<1>5. one = <<one[1]>> /\ ToSet(one) = {one[1]}
  BY <1>4 DEF ToSet
<1> QED
  BY <1>2, <1>3, <1>5 DEF one

\* What is behind the first n elements.
LEMMA FromFacts ==
  ASSUME NEW S, NEW s \in Seq(S), NEW n \in Nat
  PROVE  /\ From(s, n) \in Seq(S)
         /\ n <= Len(s) => /\ Len(From(s, n)) = Len(s) - n
                           /\ \A k \in 1 .. Len(s) - n : From(s, n)[k] = s[n + k]
                           /\ s = SubSeq(s, 1, n) \o From(s, n)
         /\ n >= Len(s) => From(s, n) = <<>>
<1>1. Len(s) \in Nat /\ \A k \in 1 .. Len(s) : s[k] \in S
  BY LenProperties, ElementOfSeq
<1>2. \A k \in n + 1 .. Len(s) : s[k] \in S
  BY <1>1
<1> DEFINE rest == SubSeq(s, n + 1, Len(s))
<1>3. /\ rest \in Seq(S)
      /\ Len(rest) = IF n + 1 <= Len(s) THEN Len(s) - (n + 1) + 1 ELSE 0
      /\ \A k \in 1 .. Len(s) - (n + 1) + 1 : rest[k] = s[n + 1 + k - 1]
  BY <1>1, <1>2, SubSeqProperties
<1>4. n >= Len(s) => rest = <<>>
  BY <1>1, SubSeqEmpty
<1>5. n <= Len(s) => s = SubSeq(s, 1, n) \o rest
  <2>1. n <= Len(s) => n \in 0 .. Len(s)
    BY <1>1
  <2> QED
    BY <2>1, CutAndJoined
<1> HIDE DEF rest
<1>6. ASSUME n <= Len(s)
      PROVE  Len(rest) = Len(s) - n /\ \A k \in 1 .. Len(s) - n : rest[k] = s[n + k]
  <2>1. Len(rest) = Len(s) - n
    BY <1>1, <1>3, <1>6
  <2>2. \A k \in 1 .. Len(s) - n : k \in 1 .. Len(s) - (n + 1) + 1 /\ n + 1 + k - 1 = n + k
    BY <1>1
  <2> QED
    BY <2>1, <2>2, <1>3
<1>7. From(s, n) = rest
  BY DEF From, rest
<1> QED
  BY <1>3, <1>4, <1>5, <1>6, <1>7

\* The mbufs of packets.
LEMMA MbufsOfFacts ==
  ASSUME NEW S, NEW P \in Seq([mbuf : S, kind : Kinds])
  PROVE  /\ MbufsOf(P) \in Seq(S) /\ Len(MbufsOf(P)) = Len(P)
         /\ \A k \in 1 .. Len(P) : MbufsOf(P)[k] = P[k].mbuf
<1>1. Len(P) \in Nat /\ DOMAIN P = 1 .. Len(P)
      /\ \A k \in 1 .. Len(P) : P[k] \in [mbuf : S, kind : Kinds]
  BY LenProperties, ElementOfSeq
<1>2. \A k \in 1 .. Len(P) : P[k].mbuf \in S
  BY <1>1
<1>3. MbufsOf(P) \in [1 .. Len(P) -> S] /\ \A k \in 1 .. Len(P) : MbufsOf(P)[k] = P[k].mbuf
  BY <1>1, <1>2 DEF MbufsOf
<1> QED
  BY <1>1, <1>3

\* The mbufs of a front, of a rest, and of one packet more.
LEMMA MbufsOfCut ==
  ASSUME NEW S, NEW P \in Seq([mbuf : S, kind : Kinds]), NEW n \in 0 .. Len(P)
  PROVE  /\ MbufsOf(SubSeq(P, 1, n)) = SubSeq(MbufsOf(P), 1, n)
         /\ MbufsOf(From(P, n)) = From(MbufsOf(P), n)
<1> DEFINE T == [mbuf : S, kind : Kinds]
           all == MbufsOf(P)
<1>1. /\ all \in Seq(S) /\ Len(all) = Len(P) /\ \A k \in 1 .. Len(P) : all[k] = P[k].mbuf
      /\ Len(P) \in Nat /\ n \in Nat /\ n <= Len(P)
  BY MbufsOfFacts, LenProperties
<1> HIDE DEF all
<1>2. /\ SubSeq(P, 1, n) \in Seq(T) /\ Len(SubSeq(P, 1, n)) = n
      /\ \A k \in 1 .. n : SubSeq(P, 1, n)[k] = P[k]
  BY CutSequence
<1>3. /\ SubSeq(all, 1, n) \in Seq(S) /\ Len(SubSeq(all, 1, n)) = n
      /\ \A k \in 1 .. n : SubSeq(all, 1, n)[k] = all[k]
  BY <1>1, CutSequence
<1>4. /\ From(P, n) \in Seq(T) /\ Len(From(P, n)) = Len(P) - n
      /\ \A k \in 1 .. Len(P) - n : From(P, n)[k] = P[n + k]
  BY <1>1, FromFacts
<1>5. /\ From(all, n) \in Seq(S) /\ Len(From(all, n)) = Len(P) - n
      /\ \A k \in 1 .. Len(P) - n : From(all, n)[k] = all[n + k]
  BY <1>1, FromFacts
<1>6. /\ MbufsOf(SubSeq(P, 1, n)) \in Seq(S) /\ Len(MbufsOf(SubSeq(P, 1, n))) = n
      /\ \A k \in 1 .. n : MbufsOf(SubSeq(P, 1, n))[k] = SubSeq(P, 1, n)[k].mbuf
  BY <1>2, MbufsOfFacts
<1>7. /\ MbufsOf(From(P, n)) \in Seq(S) /\ Len(MbufsOf(From(P, n))) = Len(P) - n
      /\ \A k \in 1 .. Len(P) - n : MbufsOf(From(P, n))[k] = From(P, n)[k].mbuf
  BY <1>4, MbufsOfFacts
<1>8. MbufsOf(SubSeq(P, 1, n)) = SubSeq(all, 1, n)
  <2>1. \A k \in 1 .. n : k \in 1 .. Len(P)
    BY <1>1
  <2>2. \A k \in 1 .. n : MbufsOf(SubSeq(P, 1, n))[k] = SubSeq(all, 1, n)[k]
    BY <2>1, <1>1, <1>2, <1>3, <1>6
  <2> QED
    BY <2>2, <1>3, <1>6, SeqEqual
<1>9. MbufsOf(From(P, n)) = From(all, n)
  <2>1. \A k \in 1 .. Len(P) - n : n + k \in 1 .. Len(P)
    BY <1>1
  <2>2. \A k \in 1 .. Len(P) - n : MbufsOf(From(P, n))[k] = From(all, n)[k]
    BY <2>1, <1>1, <1>4, <1>5, <1>7
  <2> QED
    BY <2>2, <1>5, <1>7, SeqEqual
<1> QED
  BY <1>8, <1>9 DEF all

\* The mbufs of one packet more.
LEMMA MbufsOfAppend ==
  ASSUME NEW S, NEW P \in Seq([mbuf : S, kind : Kinds]), NEW p \in [mbuf : S, kind : Kinds]
  PROVE  MbufsOf(Append(P, p)) = MbufsOf(P) \o <<p.mbuf>>
<1> DEFINE T == [mbuf : S, kind : Kinds]
           all == MbufsOf(P)
           one == p.mbuf
           more == Append(P, p)
<1>1. all \in Seq(S) /\ Len(all) = Len(P) /\ \A k \in 1 .. Len(P) : all[k] = P[k].mbuf
  BY MbufsOfFacts
<1>2. one \in S /\ Len(P) \in Nat
  BY LenProperties
<1>3. /\ more \in Seq(T) /\ Len(more) = Len(P) + 1
      /\ \A k \in 1 .. Len(P) : more[k] = P[k]
      /\ more[Len(P) + 1] = p
  BY AppendProperties
<1> HIDE DEF all, more
<1>4. /\ MbufsOf(more) \in Seq(S) /\ Len(MbufsOf(more)) = Len(P) + 1
      /\ \A k \in 1 .. Len(P) + 1 : MbufsOf(more)[k] = more[k].mbuf
  BY <1>3, MbufsOfFacts
<1>5. \A k \in 1 .. Len(P) : k \in 1 .. Len(P) + 1 /\ k # Len(P) + 1
  BY <1>2
<1>6. /\ \A k \in 1 .. Len(P) : MbufsOf(more)[k] = all[k]
      /\ MbufsOf(more)[Len(P) + 1] = one
  BY <1>1, <1>2, <1>3, <1>4, <1>5
<1>7. all \o <<one>> = Append(all, one)
  BY <1>1, <1>2, AppendIsConcat
<1>8. /\ Append(all, one) \in Seq(S) /\ Len(Append(all, one)) = Len(P) + 1
      /\ \A k \in 1 .. Len(P) : Append(all, one)[k] = all[k]
      /\ Append(all, one)[Len(P) + 1] = one
  BY <1>1, <1>2, AppendProperties
<1>9. \A k \in 1 .. Len(P) + 1 : MbufsOf(more)[k] = Append(all, one)[k]
  <2>1. \A k \in 1 .. Len(P) + 1 : k \in 1 .. Len(P) \/ k = Len(P) + 1
    BY <1>2
  <2> QED
    BY <2>1, <1>6, <1>8
<1>10. MbufsOf(more) = Append(all, one)
  BY <1>4, <1>8, <1>9, SeqEqual
<1> QED
  BY <1>7, <1>10 DEF all, more

-----------------------------------------------------------------------------
(* Types *)

Types ==
  /\ build \in Builds
  /\ free \subseteq Mbufs /\ lost \subseteq Mbufs /\ arps \in 0 .. MaxArps
  /\ arpTry \in Mbufs \union {NoMbuf}
  /\ nicRx \in Seq(Packets) /\ rx_queue_ \in Seq(Packets)
  /\ wsRx \in Seq(Mbufs) /\ wsTx \in Seq(Mbufs)
  /\ msg \in Seq(Mbufs) /\ toSend \in Seq(Mbufs) /\ leftover \in Seq(Mbufs)
  /\ tx_mbuf_buffer_ \in Seq(Mbufs) /\ tx_queue_ \in Seq(Mbufs) /\ nicTx \in Seq(Mbufs)
  /\ i \in Nat /\ dispatch_total \in Nat /\ done \in Nat
  /\ worker \in {"idle", "alloc", "release", "respond"} /\ flushing \in BOOLEAN

Bounds ==
  /\ Len(nicRx) <= NicRxCap /\ Len(rx_queue_) <= DispRxBatch
  /\ Len(wsRx) <= build.queueCap /\ Len(wsTx) <= build.queueCap
  /\ Len(tx_queue_) <= RingEntries /\ Len(nicTx) <= NicTxCap
  /\ i <= Len(rx_queue_) /\ dispatch_total <= i /\ done <= Len(nicTx)

\* An ARP reply is tried again before its packet is passed.
Pending ==
  arpTry # NoMbuf =>
    build.handler = "app" /\ i < Len(rx_queue_) /\ IsArp(rx_queue_[i + 1])

\* What the worker holds, by where it is in app_handler.
Hands ==
  /\ worker = "idle" => msg = <<>> /\ toSend = <<>> /\ leftover = <<>>
  /\ worker = "alloc" => /\ toSend = <<>> /\ leftover = <<>>
                         /\ build.applyNew /\ \E m \in Nat : Len(msg) = m * build.req
  /\ worker = "respond" => msg = <<>>

IInv == Types /\ Bounds /\ Pending /\ Hands

\* Lengths are numbers.
LEMMA Lengths ==
  ASSUME Types
  PROVE  /\ Len(nicRx) \in Nat /\ Len(rx_queue_) \in Nat /\ Len(wsRx) \in Nat /\ Len(wsTx) \in Nat
         /\ Len(msg) \in Nat /\ Len(toSend) \in Nat /\ Len(leftover) \in Nat
         /\ Len(tx_mbuf_buffer_) \in Nat /\ Len(tx_queue_) \in Nat /\ Len(nicTx) \in Nat
BY LenProperties DEF Types

\* What the dispatcher's constructor leaves satisfies the invariant.
LEMMA InitIInv == Init => IInv
<1> SUFFICES ASSUME Init PROVE IInv
  OBVIOUS
<1>1. build \in Builds
  BY DEF Init
<1>2. MaxArps \in Nat /\ build.queueCap \in Nat /\ NicRxCap \in Nat /\ NicTxCap \in Nat
      /\ DispRxBatch \in Nat /\ RingEntries \in Nat
  BY <1>1, BuildFacts
<1>3. \A S : <<>> \in Seq(S)
  BY EmptySeq
<1>4. Types
  <2>1. /\ lost \subseteq Mbufs /\ free \subseteq Mbufs /\ arps \in 0 .. MaxArps
        /\ i \in Nat /\ dispatch_total \in Nat /\ done \in Nat
        /\ arpTry \in Mbufs \union {NoMbuf}
    BY <1>2 DEF Init
  <2>2. flushing \in BOOLEAN /\ worker \in {"idle", "alloc", "release", "respond"}
    BY DEF Init
  <2>3. /\ nicRx \in Seq(Packets) /\ rx_queue_ \in Seq(Packets)
        /\ wsRx \in Seq(Mbufs) /\ wsTx \in Seq(Mbufs)
        /\ msg \in Seq(Mbufs) /\ toSend \in Seq(Mbufs) /\ leftover \in Seq(Mbufs)
        /\ tx_mbuf_buffer_ \in Seq(Mbufs) /\ tx_queue_ \in Seq(Mbufs) /\ nicTx \in Seq(Mbufs)
    BY <1>3 DEF Init
  <2> QED
    BY <1>1, <2>1, <2>2, <2>3 DEF Types
<1>5. Len(<<>>) = 0
  OBVIOUS
<1>6. Bounds
  BY <1>2, <1>5 DEF Init, Bounds
<1> QED
  BY <1>4, <1>6 DEF Init, IInv, Pending, Hands

\* The packets' and the mbufs' sets stay.
LEMMA SetsStay ==
  ASSUME build' = build
  PROVE  Mbufs' = Mbufs /\ Packets' = Packets
BY DEF Mbufs, Packets

\* The NIC takes an mbuf for a packet.
LEMMA ReceiveKeeps ==
  ASSUME IInv, NEW kind \in Kinds, Receive(kind)
  PROVE  IInv'
<1> DEFINE one == Bulk(1)[1]
           packet == [mbuf |-> one, kind |-> kind]
<1>1. /\ Len(nicRx) < NicRxCap /\ free # {} /\ arps' \in {arps, arps + 1}
      /\ arps' # arps => arps < MaxArps
      /\ nicRx' = Append(nicRx, packet) /\ free' = free \ ToSet(Bulk(1))
      /\ UNCHANGED <<build, lost, rx_queue_, i, dispatch_total, arpTry, wsRx, wsTx, workerVars, txVars>>
  BY DEF Receive
<1>2. one \in Mbufs /\ Mbufs' = Mbufs /\ Packets' = Packets
  BY <1>1, OneMbuf, SetsStay DEF IInv, Types
<1>3. packet \in Packets
  BY <1>2 DEF Packets
<1> HIDE DEF packet, one
<1>4. /\ nicRx' \in Seq(Packets) /\ Len(nicRx') = Len(nicRx) + 1 /\ Len(nicRx) \in Nat
  BY <1>1, <1>3, AppendProperties, Lengths DEF IInv, Types
<1>5. arps' \in 0 .. MaxArps /\ NicRxCap \in Nat
  <2>1. arps \in 0 .. MaxArps /\ MaxArps \in Nat /\ NicRxCap \in Nat
    BY BuildFacts DEF IInv, Types
  <2> QED
    BY <2>1, <1>1
<1>6. Types'
  BY <1>1, <1>2, <1>4, <1>5 DEF IInv, Types, workerVars, txVars
<1>7. Bounds'
  BY <1>1, <1>4, <1>5 DEF IInv, Bounds, workerVars, txVars
<1> QED
  BY <1>1, <1>6, <1>7 DEF IInv, Pending, Hands, workerVars, txVars

\* The NIC has sent a packet.
LEMMA TransmitKeeps == ASSUME IInv, Transmit PROVE IInv'
<1>1. /\ done < Len(nicTx) /\ done' = done + 1
      /\ UNCHANGED <<build, free, lost, rxVars, wsRx, wsTx, workerVars, tx_queue_, flushing, nicTx>>
  BY DEF Transmit
<1>2. Mbufs' = Mbufs /\ Packets' = Packets
  BY <1>1, SetsStay
<1>3. done' \in Nat /\ done' <= Len(nicTx)
  BY <1>1, Lengths DEF IInv, Types
<1> QED
  BY <1>1, <1>2, <1>3 DEF IInv, Types, Bounds, Pending, Hands, rxVars, workerVars

\* A burst's outcome.
LEMMA BurstFacts ==
  ASSUME IInv, NEW packets \in Seq(Mbufs), Burst(packets)
  PROVE  /\ Accepted(packets) \in 0 .. Len(packets)
         /\ nicTx' \in Seq(Mbufs) /\ Len(nicTx') <= NicTxCap /\ done' = 0
         /\ nicTx' = From(nicTx, done) \o SubSeq(packets, 1, Accepted(packets))
         /\ nicTx = SubSeq(nicTx, 1, done) \o From(nicTx, done)
         /\ From(nicTx, done) \in Seq(Mbufs) /\ SubSeq(nicTx, 1, done) \in Seq(Mbufs)
         /\ SubSeq(packets, 1, Accepted(packets)) \in Seq(Mbufs)
         /\ Reaped \subseteq Mbufs
<1>1. /\ nicTx \in Seq(Mbufs) /\ done \in Nat /\ done <= Len(nicTx) /\ Len(nicTx) \in Nat
      /\ Len(nicTx) <= NicTxCap /\ NicTxCap \in Nat /\ Len(packets) \in Nat
  BY Lengths, BuildFacts, LenProperties DEF IInv, Types, Bounds
<1>2. Accepted(packets) \in 0 .. Len(packets) /\ Accepted(packets) <= NicTxCap - (Len(nicTx) - done)
  BY <1>1 DEF Accepted, Lesser
<1> DEFINE n == Accepted(packets)
           front == SubSeq(packets, 1, n)
           rest == From(nicTx, done)
           out == SubSeq(nicTx, 1, done)
<1> HIDE DEF n
<1>3. front \in Seq(Mbufs) /\ Len(front) = n
  BY <1>2, CutSequence DEF n
<1>4. rest \in Seq(Mbufs) /\ Len(rest) = Len(nicTx) - done /\ nicTx = out \o rest
  BY <1>1, FromFacts
<1>5. done \in 0 .. Len(nicTx)
  BY <1>1
<1>6. out \in Seq(Mbufs)
  BY <1>1, <1>5, CutSequence
<1>7. nicTx' = rest \o front /\ done' = 0
  BY DEF Burst, n
<1> HIDE DEF front, rest, out
<1>8. rest \o front \in Seq(Mbufs) /\ Len(rest \o front) = Len(rest) + Len(front)
  BY <1>3, <1>4, ConcatProperties
<1>9. Len(nicTx') <= NicTxCap
  <2>1. n \in Nat /\ n <= NicTxCap - (Len(nicTx) - done)
    BY <1>1, <1>2 DEF n
  <2> QED
    BY <2>1, <1>1, <1>3, <1>4, <1>7, <1>8
<1>10. Reaped \subseteq Mbufs
  <2>1. ToSet(out) \subseteq Mbufs
    BY <1>6, ElementOfSeq, LenProperties DEF ToSet
  <2> QED
    BY <2>1 DEF Reaped, out
<1> QED
  BY <1>2, <1>3, <1>4, <1>6, <1>7, <1>8, <1>9, <1>10 DEF n, front, rest, out

\* rx_burst takes no more than rx_queue_ holds.
LEMMA RxBurstKeeps == ASSUME IInv, RxBurst PROVE IInv'
<1> DEFINE n == Lesser(Len(nicRx), DispRxBatch)
<1>1. /\ i = 0 /\ rx_queue_ = <<>> /\ n > 0
      /\ rx_queue_' = SubSeq(nicRx, 1, n) /\ nicRx' = From(nicRx, n)
      /\ UNCHANGED <<build, free, lost, arps, i, dispatch_total, arpTry, wsRx, wsTx, workerVars, txVars>>
  BY DEF RxBurst, DispatcherMayStart, BetweenPhases
<1>2. Mbufs' = Mbufs /\ Packets' = Packets
  BY <1>1, SetsStay
<1>3. /\ nicRx \in Seq(Packets) /\ Len(nicRx) \in Nat /\ DispRxBatch \in Nat
      /\ Len(nicRx) <= NicRxCap /\ NicRxCap \in Nat
  BY Lengths, BuildFacts DEF IInv, Types, Bounds
<1>4. n \in 0 .. Len(nicRx) /\ n <= DispRxBatch /\ n \in Nat /\ n <= Len(nicRx)
  BY <1>3 DEF Lesser
<1> HIDE DEF n
<1>5. /\ rx_queue_' \in Seq(Packets) /\ Len(rx_queue_') = n
      /\ nicRx' \in Seq(Packets) /\ Len(nicRx') = Len(nicRx) - n
  BY <1>1, <1>3, <1>4, CutSequence, FromFacts
<1>6. Types'
  BY <1>1, <1>2, <1>5 DEF IInv, Types, workerVars, txVars
<1>7. arpTry = NoMbuf
  <2>1. Len(rx_queue_) = 0
    BY <1>1
  <2> QED
    BY <2>1, <1>1 DEF IInv, Pending
<1>8. Bounds'
  <2>1. i' = 0 /\ dispatch_total' <= i' /\ i' <= Len(rx_queue_') /\ Len(rx_queue_') <= DispRxBatch
        /\ Len(nicRx') <= NicRxCap
    BY <1>1, <1>3, <1>4, <1>5 DEF IInv, Bounds
  <2> QED
    BY <2>1, <1>1 DEF IInv, Bounds, workerVars, txVars
<1> QED
  BY <1>1, <1>6, <1>7, <1>8 DEF IInv, Pending, Hands, workerVars, txVars

\* echo_handler enqueues no more than tx_queue_ has room for.
LEMMA EchoHandlerKeeps == ASSUME IInv, EchoHandler PROVE IInv'
<1> DEFINE n == Lesser(RingEntries - Len(tx_queue_), Len(rx_queue_))
           mbufs == MbufsOf(rx_queue_)
<1>1. /\ build.handler = "echo" /\ i = 0 /\ rx_queue_' = <<>>
      /\ tx_queue_' = tx_queue_ \o SubSeq(mbufs, 1, n)
      /\ free' = free \union ToSet(From(mbufs, n))
      /\ UNCHANGED <<build, lost, arps, nicRx, i, dispatch_total, arpTry, wsRx, wsTx, workerVars,
                     flushing, nicTx, done>>
  BY DEF EchoHandler, DispatcherMayStart, BetweenPhases
<1>2. Mbufs' = Mbufs /\ Packets' = Packets /\ <<>> \in Seq(Packets) /\ Len(<<>>) = 0
  BY <1>1, SetsStay, EmptySeq
<1>3. /\ rx_queue_ \in Seq(Packets) /\ Len(rx_queue_) \in Nat /\ RingEntries \in Nat
      /\ tx_queue_ \in Seq(Mbufs) /\ Len(tx_queue_) \in Nat /\ Len(tx_queue_) <= RingEntries
      /\ DispRxBatch \in Nat
  BY Lengths, BuildFacts DEF IInv, Types, Bounds
<1>4. mbufs \in Seq(Mbufs) /\ Len(mbufs) = Len(rx_queue_)
  BY <1>3, MbufsOfFacts DEF Packets
<1>5. n \in 0 .. Len(mbufs) /\ n <= RingEntries - Len(tx_queue_) /\ n \in Nat
  BY <1>3, <1>4 DEF Lesser
<1> HIDE DEF n, mbufs
<1>6. /\ SubSeq(mbufs, 1, n) \in Seq(Mbufs) /\ Len(SubSeq(mbufs, 1, n)) = n
      /\ From(mbufs, n) \in Seq(Mbufs)
  BY <1>4, <1>5, CutSequence, FromFacts
<1>7. tx_queue_' \in Seq(Mbufs) /\ Len(tx_queue_') = Len(tx_queue_) + n
  BY <1>1, <1>3, <1>6, ConcatProperties
<1>8. free' \subseteq Mbufs
  <2>1. ToSet(From(mbufs, n)) \subseteq Mbufs
    BY <1>6, ElementOfSeq, LenProperties DEF ToSet
  <2> QED
    BY <2>1, <1>1 DEF IInv, Types
<1>9. Types'
  BY <1>1, <1>2, <1>7, <1>8 DEF IInv, Types, workerVars
<1>10. Bounds'
  <2>1. Len(tx_queue_') <= RingEntries /\ Len(rx_queue_') = 0 /\ i' = 0 /\ dispatch_total' <= i'
        /\ i' <= Len(rx_queue_') /\ Len(rx_queue_') <= DispRxBatch
    BY <1>1, <1>2, <1>3, <1>5, <1>7 DEF IInv, Bounds
  <2> QED
    BY <2>1, <1>1 DEF IInv, Bounds, workerVars
<1> QED
  BY <1>1, <1>9, <1>10 DEF IInv, Pending, Hands, workerVars

\* What dispatch_rx_pkts looks at.
LEMMA LookingFacts ==
  ASSUME IInv, Looking
  PROVE  /\ build.handler = "app" /\ arpTry = NoMbuf /\ rx_queue_ \in Seq(Packets)
         /\ i \in Nat /\ Len(rx_queue_) \in Nat /\ i + 1 \in 1 .. Len(rx_queue_) /\ i + 1 <= Len(rx_queue_)
         /\ rx_queue_[i + 1] \in Packets /\ rx_queue_[i + 1].mbuf \in Mbufs
         /\ dispatch_total \in Nat /\ dispatch_total <= i
<1>1. /\ build.handler = "app" /\ arpTry = NoMbuf /\ i < Len(rx_queue_)
      /\ rx_queue_ \in Seq(Packets) /\ i \in Nat /\ Len(rx_queue_) \in Nat
      /\ dispatch_total \in Nat /\ dispatch_total <= i
  BY Lengths DEF Looking, IInv, Types, Bounds
<1>2. i + 1 \in 1 .. Len(rx_queue_) /\ i + 1 <= Len(rx_queue_)
  BY <1>1
<1>3. rx_queue_[i + 1] \in Packets
  BY <1>1, <1>2, ElementOfSeq
<1> QED
  BY <1>1, <1>2, <1>3 DEF Packets

\* A packet is enqueued for the worker.
LEMMA EnqueueRxKeeps == ASSUME IInv, EnqueueRx PROVE IInv'
<1> DEFINE b == rx_queue_[i + 1].mbuf
<1>1. /\ Looking /\ Len(wsRx) < build.queueCap
      /\ wsRx' = Append(wsRx, b)
      /\ i' = i + 1 /\ dispatch_total' = dispatch_total + 1
      /\ UNCHANGED <<build, free, lost, arps, nicRx, rx_queue_, arpTry, wsTx, workerVars, txVars>>
  BY DEF EnqueueRx
<1>2. Mbufs' = Mbufs /\ Packets' = Packets
  BY <1>1, SetsStay
<1>3. /\ arpTry = NoMbuf /\ i \in Nat /\ i + 1 <= Len(rx_queue_) /\ b \in Mbufs
      /\ dispatch_total \in Nat /\ dispatch_total <= i
      /\ Len(wsRx) \in Nat /\ build.queueCap \in Nat /\ wsRx \in Seq(Mbufs)
  BY <1>1, LookingFacts, Lengths, BuildFacts DEF IInv, Types
<1> HIDE DEF b
<1>4. wsRx' \in Seq(Mbufs) /\ Len(wsRx') = Len(wsRx) + 1
  BY <1>1, <1>3, AppendProperties
<1>5. Types'
  BY <1>1, <1>2, <1>3, <1>4 DEF IInv, Types, workerVars, txVars
<1>6. Bounds'
  BY <1>1, <1>3, <1>4 DEF IInv, Bounds, workerVars, txVars
<1> QED
  BY <1>1, <1>3, <1>5, <1>6 DEF IInv, Pending, Hands, workerVars, txVars

\* An ARP packet for somebody else is passed.
LEMMA IgnoreArpKeeps == ASSUME IInv, IgnoreArp PROVE IInv'
<1>1. /\ Looking /\ i' = i + 1
      /\ UNCHANGED <<build, free, lost, arps, nicRx, rx_queue_, dispatch_total, arpTry, wsRx, wsTx,
                     workerVars, txVars>>
  BY DEF IgnoreArp
<1>2. Mbufs' = Mbufs /\ Packets' = Packets
  BY <1>1, SetsStay
<1>3. /\ arpTry = NoMbuf /\ i \in Nat /\ i + 1 <= Len(rx_queue_)
      /\ dispatch_total \in Nat /\ dispatch_total <= i
  BY <1>1, LookingFacts
<1>4. Types'
  BY <1>1, <1>2, <1>3 DEF IInv, Types, workerVars, txVars
<1>5. Bounds'
  BY <1>1, <1>3 DEF IInv, Bounds, workerVars, txVars
<1> QED
  BY <1>1, <1>3, <1>4, <1>5 DEF IInv, Pending, Hands, workerVars, txVars

\* An ARP reply is offered to the NIC.
LEMMA ArpReplyKeeps == ASSUME IInv, ArpReply PROVE IInv'
<1> DEFINE bulk == Bulk(1)
           one == Bulk(1)[1]
<1>1. /\ Looking /\ rx_queue_[i + 1].kind = "arp" /\ free # {}
      /\ Burst(bulk) /\ free' = (free \ ToSet(bulk)) \union Reaped
      /\ \/ i' = i + 1 /\ arpTry' = arpTry
         \/ i' = i /\ arpTry' = one
      /\ UNCHANGED <<build, lost, arps, nicRx, rx_queue_, dispatch_total, wsRx, wsTx, workerVars,
                     tx_queue_, flushing>>
  BY DEF ArpReply
<1>2. Mbufs' = Mbufs /\ Packets' = Packets
  BY <1>1, SetsStay
<1>3. /\ build.handler = "app" /\ arpTry = NoMbuf /\ i \in Nat /\ i + 1 <= Len(rx_queue_)
      /\ dispatch_total \in Nat /\ dispatch_total <= i /\ Len(rx_queue_) \in Nat
  BY <1>1, LookingFacts
<1>4. bulk \in Seq(Mbufs) /\ one \in Mbufs
  <2>1. 1 \in Nat /\ 1 <= Cardinality(free) /\ one \in Mbufs
    BY <1>1, OneMbuf DEF IInv, Types
  <2> QED
    BY <2>1, BulkFacts DEF IInv, Types
<1> HIDE DEF bulk, one
<1>5. nicTx' \in Seq(Mbufs) /\ Len(nicTx') <= NicTxCap /\ done' = 0 /\ Reaped \subseteq Mbufs
  BY <1>1, <1>4, BurstFacts
<1>6. free' \subseteq Mbufs
  BY <1>1, <1>5 DEF IInv, Types
<1>7. Len(nicTx') \in Nat
  BY <1>5, LenProperties
<1>8. Types'
  <2>1. i' \in Nat /\ done' \in Nat /\ arpTry' \in Mbufs \union {NoMbuf}
    BY <1>1, <1>3, <1>4, <1>5
  <2> QED
    BY <2>1, <1>1, <1>2, <1>5, <1>6 DEF IInv, Types, workerVars
<1>9. Bounds'
  <2>1. i' <= Len(rx_queue_) /\ dispatch_total <= i' /\ done' <= Len(nicTx')
    BY <1>1, <1>3, <1>5, <1>7
  <2> QED
    BY <2>1, <1>1, <1>5 DEF IInv, Bounds, workerVars
<1>10. Pending'
  <2> SUFFICES ASSUME arpTry' # NoMbuf
               PROVE  build'.handler = "app" /\ i' < Len(rx_queue_') /\ IsArp(rx_queue_'[i' + 1])
    BY DEF Pending, IsArp
  <2>1. i' = i
    BY <1>1, <1>3
  <2> QED
    BY <2>1, <1>1, <1>3 DEF IsArp
<1> QED
  BY <1>1, <1>8, <1>9, <1>10 DEF IInv, Hands, workerVars

\* It is offered once more.
LEMMA ArpReplyAgainKeeps == ASSUME IInv, ArpReplyAgain PROVE IInv'
<1>1. /\ arpTry # NoMbuf /\ Burst(<<arpTry>>) /\ free' = free \union Reaped
      /\ lost' \in {lost, lost \union {arpTry}} /\ arpTry' = NoMbuf /\ i' = i + 1
      /\ UNCHANGED <<build, arps, nicRx, rx_queue_, dispatch_total, wsRx, wsTx, workerVars, tx_queue_,
                     flushing>>
  BY DEF ArpReplyAgain
<1>2. Mbufs' = Mbufs /\ Packets' = Packets
  BY <1>1, SetsStay
<1>3. /\ arpTry \in Mbufs /\ i \in Nat /\ i < Len(rx_queue_) /\ dispatch_total \in Nat
      /\ dispatch_total <= i /\ Len(rx_queue_) \in Nat
  BY <1>1, Lengths DEF IInv, Types, Bounds, Pending
<1>4. <<arpTry>> \in Seq(Mbufs)
  BY <1>3
<1>5. nicTx' \in Seq(Mbufs) /\ Len(nicTx') <= NicTxCap /\ done' = 0 /\ Reaped \subseteq Mbufs
  BY <1>1, <1>4, BurstFacts
<1>6. free' \subseteq Mbufs /\ lost' \subseteq Mbufs
  BY <1>1, <1>3, <1>5 DEF IInv, Types
<1>7. Len(nicTx') \in Nat
  BY <1>5, LenProperties
<1>8. i' \in Nat /\ done' \in Nat /\ i' <= Len(rx_queue_) /\ dispatch_total <= i' /\ done' <= Len(nicTx')
  BY <1>1, <1>3, <1>5, <1>7
<1>9. Types'
  BY <1>1, <1>2, <1>5, <1>6, <1>8 DEF IInv, Types, workerVars
<1>10. Bounds'
  BY <1>1, <1>5, <1>8 DEF IInv, Bounds, workerVars
<1> QED
  BY <1>1, <1>9, <1>10 DEF IInv, Pending, Hands, workerVars

\* rx_queue_ is emptied.
LEMMA DispatchEndKeeps == ASSUME IInv, DispatchEnd PROVE IInv'
<1> DEFINE rest == From(MbufsOf(rx_queue_), dispatch_total)
<1>1. /\ free' = free \union ToSet(rest)
      /\ rx_queue_' = <<>> /\ i' = 0 /\ dispatch_total' = 0
      /\ UNCHANGED <<build, lost, arps, nicRx, arpTry, wsRx, wsTx, workerVars, txVars>>
      /\ i = Len(rx_queue_) \/ Looking
  BY DEF DispatchEnd
<1>2. Mbufs' = Mbufs /\ Packets' = Packets /\ <<>> \in Seq(Packets) /\ Len(<<>>) = 0
      /\ DispRxBatch \in Nat
  BY <1>1, SetsStay, EmptySeq, BuildFacts DEF IInv, Types
<1>3. arpTry = NoMbuf
  <2>1. CASE Looking
    BY <2>1 DEF Looking
  <2>2. CASE i = Len(rx_queue_)
    <3>1. i \in Nat /\ ~(i < Len(rx_queue_))
      BY <2>2 DEF IInv, Types
    <3> QED
      BY <3>1 DEF IInv, Pending
  <2> QED
    BY <1>1, <2>1, <2>2
<1>4. rest \in Seq(Mbufs)
  <2>1. rx_queue_ \in Seq(Packets) /\ dispatch_total \in Nat
    BY DEF IInv, Types
  <2>2. MbufsOf(rx_queue_) \in Seq(Mbufs)
    BY <2>1, MbufsOfFacts DEF Packets
  <2> QED
    BY <2>1, <2>2, FromFacts
<1> HIDE DEF rest
<1>5. ToSet(rest) \subseteq Mbufs
  BY <1>4, ElementOfSeq, LenProperties DEF ToSet
<1>6. Types'
  BY <1>1, <1>2, <1>5 DEF IInv, Types, workerVars, txVars
<1>7. Bounds'
  <2>1. Len(rx_queue_') = 0 /\ i' <= Len(rx_queue_') /\ dispatch_total' <= i'
        /\ Len(rx_queue_') <= DispRxBatch
    BY <1>1, <1>2
  <2> QED
    BY <2>1, <1>1 DEF IInv, Bounds, workerVars, txVars
<1> QED
  BY <1>1, <1>3, <1>6, <1>7 DEF IInv, Pending, Hands, workerVars, txVars

\* Whole messages among n packets.
LEMMA WholeMessages ==
  ASSUME NEW n \in Nat, NEW r \in Nat \ {0}
  PROVE  n \div r \in Nat /\ (n \div r) * r \in Nat /\ (n \div r) * r <= n
OBVIOUS

\* m messages are m messages.
LEMMA MessagesOf ==
  ASSUME NEW m \in Nat, NEW r \in Nat \ {0}
  PROVE  (m * r) \div r = m
OBVIOUS

\* m messages of at most as many packets are at most as many packets.
LEMMA ProductMonotone ==
  ASSUME NEW m \in Nat, NEW a \in Nat, NEW b \in Nat, a <= b
  PROVE  m * a \in Nat /\ m * b \in Nat /\ m * a <= m * b
OBVIOUS

\* The batch of m messages app_handler takes, p packets, for r of a response.
Taken(m, p, r) ==
  /\ p = m * build.req /\ r = m * build.resp
  /\ p \in 0 .. Len(wsRx) /\ SubSeq(wsRx, 1, p) \in Seq(Mbufs)
  /\ worker = "idle"
  /\ wsRx' = From(wsRx, p) /\ wsRx' \in Seq(Mbufs) /\ Len(wsRx') = Len(wsRx) - p
  /\ wsRx = SubSeq(wsRx, 1, p) \o wsRx' /\ Len(SubSeq(wsRx, 1, p)) = p
  /\ \/ /\ build.applyNew /\ worker' = "alloc" /\ msg' = SubSeq(wsRx, 1, p)
        /\ toSend' = toSend /\ leftover' = leftover
     \/ /\ ~build.applyNew /\ worker' = "respond" /\ msg' = msg
        /\ toSend' \in Seq(Mbufs) /\ leftover' \in Seq(Mbufs)
        /\ SubSeq(wsRx, 1, p) = toSend' \o leftover'
  /\ UNCHANGED <<build, free, lost, rxVars, wsTx, tx_mbuf_buffer_, txVars>>

\* app_handler takes whole messages.
LEMMA TakenFacts ==
  ASSUME IInv, TakeBatch
  PROVE  \E m, p, r \in Nat : Taken(m, p, r)
<1> DEFINE m == Len(wsRx) \div build.req
           p == m * build.req
           r == m * build.resp
           batch == SubSeq(wsRx, 1, p)
<1>1. /\ worker = "idle" /\ wsRx' = From(wsRx, p)
      /\ IF build.applyNew
           THEN worker' = "alloc" /\ msg' = batch /\ UNCHANGED <<toSend, leftover>>
           ELSE /\ worker' = "respond"
                /\ toSend' = SubSeq(batch, 1, r)
                /\ leftover' = From(batch, r)
                /\ UNCHANGED msg
      /\ UNCHANGED <<build, free, lost, rxVars, wsTx, tx_mbuf_buffer_, txVars>>
  BY DEF TakeBatch, WorkerMayStart
<1>2. /\ wsRx \in Seq(Mbufs) /\ Len(wsRx) \in Nat /\ build.req \in Nat \ {0} /\ build.resp \in Nat
      /\ build.applyNew \in BOOLEAN /\ (~build.applyNew => build.resp <= build.req)
  <2>1. /\ build.req \in Nat \ {0} /\ build.resp \in Nat \ {0}
        /\ build.resp > build.req => build.applyNew
    BY BuildFacts DEF IInv, Types
  <2>2. build.applyNew \in BOOLEAN
    BY BuildFacts, Zenon DEF IInv, Types
  <2>3. ~(build.resp > build.req) => build.resp <= build.req
    BY <2>1
  <2>4. wsRx \in Seq(Mbufs) /\ Len(wsRx) \in Nat
    BY Lengths DEF IInv, Types
  <2>5. build.req \in Nat \ {0} /\ build.resp \in Nat
    BY <2>1
  <2>6. ~build.applyNew => build.resp <= build.req
    BY <2>1, <2>3, Zenon
  <2> QED
    BY <2>2, <2>4, <2>5, <2>6, Zenon
<1>3. m \in Nat /\ p \in Nat /\ p <= Len(wsRx)
  BY <1>2, WholeMessages
<1> HIDE DEF m
<1>4. r \in Nat /\ (~build.applyNew => r <= p)
  BY <1>2, <1>3, ProductMonotone
<1>5. p = m * build.req /\ r = m * build.resp
  OBVIOUS
<1> HIDE DEF p, r
<1>6. /\ p \in 0 .. Len(wsRx) /\ batch \in Seq(Mbufs) /\ Len(batch) = p
      /\ wsRx' \in Seq(Mbufs) /\ Len(wsRx') = Len(wsRx) - p /\ wsRx = batch \o wsRx'
  <2>1. p \in 0 .. Len(wsRx)
    BY <1>2, <1>3
  <2> QED
    BY <2>1, <1>1, <1>2, <1>3, CutSequence, FromFacts
<1> HIDE DEF batch
<1>7. ASSUME ~build.applyNew
      PROVE  /\ r \in 0 .. p /\ SubSeq(batch, 1, r) \in Seq(Mbufs) /\ From(batch, r) \in Seq(Mbufs)
             /\ batch = SubSeq(batch, 1, r) \o From(batch, r)
  <2>1. r \in 0 .. Len(batch) /\ r <= Len(batch)
    BY <1>3, <1>4, <1>6, <1>7
  <2> QED
    BY <2>1, <1>4, <1>6, CutSequence, FromFacts
<1>8. \/ /\ build.applyNew /\ worker' = "alloc" /\ msg' = batch
         /\ toSend' = toSend /\ leftover' = leftover
      \/ /\ ~build.applyNew /\ r \in 0 .. p
         /\ worker' = "respond" /\ msg' = msg
         /\ toSend' = SubSeq(batch, 1, r) /\ leftover' = From(batch, r)
         /\ toSend' \in Seq(Mbufs) /\ leftover' \in Seq(Mbufs)
         /\ batch = toSend' \o leftover'
  <2>1. CASE build.applyNew
    BY <2>1, <1>1
  <2>2. CASE ~build.applyNew
    BY <2>2, <1>1, <1>7
  <2> QED
    BY <2>1, <2>2
<1>9. Taken(m, p, r)
  BY <1>1, <1>5, <1>6, <1>8 DEF batch, Taken
<1> QED
  BY <1>3, <1>4, <1>9

\* The batch goes into the worker's hands.
LEMMA TakeBatchKeeps == ASSUME IInv, TakeBatch PROVE IInv'
<1>0. PICK m \in Nat, p \in Nat, r \in Nat : Taken(m, p, r)
  BY TakenFacts
<1>1. /\ p = m * build.req /\ r = m * build.resp
      /\ p \in 0 .. Len(wsRx) /\ SubSeq(wsRx, 1, p) \in Seq(Mbufs)
      /\ worker = "idle"
      /\ wsRx' = From(wsRx, p) /\ wsRx' \in Seq(Mbufs) /\ Len(wsRx') = Len(wsRx) - p
      /\ wsRx = SubSeq(wsRx, 1, p) \o wsRx' /\ Len(SubSeq(wsRx, 1, p)) = p
      /\ \/ /\ build.applyNew /\ worker' = "alloc" /\ msg' = SubSeq(wsRx, 1, p)
            /\ toSend' = toSend /\ leftover' = leftover
         \/ /\ ~build.applyNew /\ worker' = "respond" /\ msg' = msg
            /\ toSend' \in Seq(Mbufs) /\ leftover' \in Seq(Mbufs)
            /\ SubSeq(wsRx, 1, p) = toSend' \o leftover'
      /\ UNCHANGED <<build, free, lost, rxVars, wsTx, tx_mbuf_buffer_, txVars>>
  BY <1>0 DEF Taken
<1>2. Mbufs' = Mbufs /\ Packets' = Packets /\ build' = build
  BY <1>1, SetsStay
<1>3. /\ worker' \in {"idle", "alloc", "release", "respond"}
      /\ msg' \in Seq(Mbufs) /\ toSend' \in Seq(Mbufs) /\ leftover' \in Seq(Mbufs)
      /\ wsRx' \in Seq(Mbufs)
  BY <1>1 DEF IInv, Types
<1>4. Types'
  BY <1>1, <1>2, <1>3 DEF IInv, Types, rxVars, txVars
<1>5. Len(wsRx') <= build.queueCap
  <2>1. Len(wsRx) \in Nat /\ build.queueCap \in Nat /\ Len(wsRx) <= build.queueCap
    BY Lengths, BuildFacts DEF IInv, Types, Bounds
  <2>2. Len(wsRx') = Len(wsRx) - p
    BY <1>1
  <2> QED
    BY <2>1, <2>2
<1>6. Bounds'
  BY <1>1, <1>5 DEF IInv, Bounds, rxVars, txVars
<1>7. Hands'
  <2>1. msg = <<>> /\ toSend = <<>> /\ leftover = <<>>
    BY <1>1 DEF IInv, Hands
  <2>2. CASE build.applyNew
    <3>1. /\ worker' = "alloc" /\ Len(msg') = m * build'.req /\ toSend' = toSend
          /\ leftover' = leftover
      BY <2>2, <1>1, <1>2
    <3>2. \E k \in Nat : Len(msg') = k * build'.req
      BY <3>1
    <3> QED
      BY <2>1, <2>2, <3>1, <3>2, <1>2 DEF Hands
  <2>3. CASE ~build.applyNew
    <3>1. worker' = "respond" /\ msg' = msg
      BY <2>3, <1>1
    <3> QED
      BY <2>1, <3>1 DEF Hands
  <2> QED
    BY <2>2, <2>3
<1> QED
  BY <1>1, <1>4, <1>6, <1>7 DEF IInv, Pending, rxVars

\* The r mbufs alloc_bulk gets, and what there is in tx_mbuf_buffer_ behind them.
Allocated(r) ==
  /\ build.req <= build.resp => Len(msg) <= r
  /\ r <= Cardinality(free)
  /\ Bulk(r) \in Seq(Mbufs) /\ toSend' = Bulk(r) /\ free' = free \ ToSet(Bulk(r))
  /\ leftover' \in Seq(Mbufs) /\ (build.req <= build.resp => leftover' = <<>>)
  /\ tx_mbuf_buffer_' \in Seq(Mbufs)
  /\ worker = "alloc" /\ worker' = "release"
  /\ UNCHANGED <<build, lost, rxVars, wsRx, wsTx, msg, txVars>>

\* alloc_bulk gets mbufs for the responses of a batch of whole messages.
LEMMA AllocatedFacts == ASSUME IInv, AllocResponses PROVE \E r \in Nat : Allocated(r)
<1>1. PICK m \in Nat : Len(msg) = m * build.req
  BY DEF IInv, Hands, AllocResponses
<1> DEFINE r == (Len(msg) \div build.req) * build.resp
           bulk == Bulk(r)
           old == From(tx_mbuf_buffer_, r)
           buffer == bulk \o old
           last == Lesser(Len(msg), Len(buffer))
<1>2. /\ worker = "alloc" /\ Cardinality(free) >= r /\ worker' = "release"
      /\ free' = free \ ToSet(bulk)
      /\ tx_mbuf_buffer_' = IF build.req > build.resp THEN buffer ELSE <<>>
      /\ toSend' = SubSeq(buffer, 1, r)
      /\ leftover' = SubSeq(buffer, r + 1, last)
      /\ UNCHANGED <<build, lost, rxVars, wsRx, wsTx, msg, txVars>>
  BY DEF AllocResponses
<1>3. /\ build.req \in Nat \ {0} /\ build.resp \in Nat /\ Len(msg) \in Nat
      /\ free \subseteq Mbufs /\ tx_mbuf_buffer_ \in Seq(Mbufs) /\ Cardinality(free) \in Nat
  BY Lengths, BuildFacts, FS_Subset, FS_CardinalityType DEF IInv, Types
<1>4. r = m * build.resp
  BY <1>1, <1>3, MessagesOf
<1>5. r \in Nat /\ (build.req <= build.resp => Len(msg) <= r)
  BY <1>1, <1>3, <1>4, ProductMonotone
<1> HIDE DEF r
<1>6. r <= Cardinality(free)
  BY <1>2, <1>3, <1>5
<1>7. bulk \in Seq(Mbufs) /\ Len(bulk) = r
  BY <1>3, <1>5, <1>6, BulkFacts DEF IInv, Types
<1>8. old \in Seq(Mbufs)
  BY <1>3, <1>5, FromFacts
<1> HIDE DEF bulk, old
<1>9. /\ buffer \in Seq(Mbufs) /\ Len(buffer) \in Nat /\ r <= Len(buffer)
      /\ \A k \in 1 .. r : buffer[k] = bulk[k]
  <2>1. /\ buffer \in Seq(Mbufs) /\ Len(buffer) = Len(bulk) + Len(old) /\ Len(old) \in Nat
        /\ \A k \in 1 .. Len(bulk) + Len(old) :
             buffer[k] = IF k <= Len(bulk) THEN bulk[k] ELSE old[k - Len(bulk)]
    BY <1>7, <1>8, ConcatProperties, LenProperties
  <2>2. \A k \in 1 .. r : k \in 1 .. Len(bulk) + Len(old) /\ k <= Len(bulk)
    BY <2>1, <1>5, <1>7
  <2> QED
    BY <2>1, <2>2, <1>5, <1>7
<1> HIDE DEF buffer
<1>10. r \in 0 .. Len(buffer)
  BY <1>5, <1>9
<1>11. SubSeq(buffer, 1, r) = bulk
  <2>1. /\ SubSeq(buffer, 1, r) \in Seq(Mbufs) /\ Len(SubSeq(buffer, 1, r)) = r
        /\ \A k \in 1 .. r : SubSeq(buffer, 1, r)[k] = buffer[k]
    BY <1>9, <1>10, CutSequence
  <2> QED
    BY <2>1, <1>7, <1>9, SeqEqual
<1>12. last \in Nat /\ last <= Len(buffer) /\ last <= Len(msg)
  BY <1>3, <1>9 DEF Lesser
<1> HIDE DEF last
<1>13. SubSeq(buffer, r + 1, last) \in Seq(Mbufs)
  <2>1. \A k \in r + 1 .. last : k \in 1 .. Len(buffer)
    BY <1>5, <1>9, <1>12
  <2>2. \A k \in r + 1 .. last : buffer[k] \in Mbufs
    BY <2>1, <1>9, ElementOfSeq
  <2>3. r + 1 \in Int /\ last \in Int
    BY <1>5, <1>12
  <2> QED
    BY <2>2, <2>3, SubSeqProperties
<1>14. build.req <= build.resp => SubSeq(buffer, r + 1, last) = <<>>
  <2> SUFFICES ASSUME build.req <= build.resp PROVE SubSeq(buffer, r + 1, last) = <<>>
    OBVIOUS
  <2>1. last < r + 1 /\ r + 1 \in Int /\ last \in Int
    BY <1>3, <1>5, <1>12
  <2> QED
    BY <2>1, SubSeqEmpty
<1>15. tx_mbuf_buffer_' \in Seq(Mbufs)
  BY <1>2, <1>9, EmptySeq
<1>16. Allocated(r)
  BY <1>2, <1>5, <1>6, <1>7, <1>11, <1>13, <1>14, <1>15 DEF bulk, Allocated
<1> QED
  BY <1>5, <1>16

\* The new mbufs go into the worker's hands.
LEMMA AllocResponsesKeeps == ASSUME IInv, AllocResponses PROVE IInv'
<1>0. PICK r \in Nat : Allocated(r)
  BY AllocatedFacts
<1>1. /\ Bulk(r) \in Seq(Mbufs) /\ toSend' = Bulk(r) /\ free' = free \ ToSet(Bulk(r))
      /\ leftover' \in Seq(Mbufs) /\ tx_mbuf_buffer_' \in Seq(Mbufs)
      /\ worker = "alloc" /\ worker' = "release"
      /\ UNCHANGED <<build, lost, rxVars, wsRx, wsTx, msg, txVars>>
  BY <1>0 DEF Allocated
<1>2. Mbufs' = Mbufs /\ Packets' = Packets
  BY <1>1, SetsStay
<1>3. free' \subseteq Mbufs /\ toSend' \in Seq(Mbufs)
  BY <1>1 DEF IInv, Types
<1>4. Types'
  BY <1>1, <1>2, <1>3 DEF IInv, Types, rxVars, txVars
<1>5. Bounds'
  BY <1>1 DEF IInv, Bounds, rxVars, txVars
<1> QED
  BY <1>1, <1>4, <1>5 DEF IInv, Pending, Hands, rxVars

\* The requests are freed.
LEMMA ReleaseRequestsKeeps == ASSUME IInv, ReleaseRequests PROVE IInv'
<1>1. /\ worker' = "respond" /\ free' = free \union ToSet(msg) /\ msg' = <<>>
      /\ UNCHANGED <<build, lost, rxVars, wsRx, wsTx, toSend, leftover, tx_mbuf_buffer_, txVars>>
  BY DEF ReleaseRequests
<1>2. Mbufs' = Mbufs /\ Packets' = Packets /\ <<>> \in Seq(Mbufs)
  BY <1>1, SetsStay, EmptySeq
<1>3. ToSet(msg) \subseteq Mbufs
  BY ElementOfSeq, LenProperties DEF IInv, Types, ToSet
<1>4. Types'
  BY <1>1, <1>2, <1>3 DEF IInv, Types, rxVars, txVars
<1>5. Bounds'
  BY <1>1 DEF IInv, Bounds, rxVars, txVars
<1> QED
  BY <1>1, <1>4, <1>5 DEF IInv, Pending, Hands, rxVars

\* A response is enqueued only where there is room, or freed.
LEMMA RespondKeeps == ASSUME IInv, Respond PROVE IInv'
<1> DEFINE b == Head(toSend)
<1>1. /\ worker = "respond" /\ toSend # <<>>
      /\ \/ Len(wsTx) < build.queueCap /\ wsTx' = Append(wsTx, b) /\ free' = free
         \/ free' = free \union {b} /\ wsTx' = wsTx
      /\ toSend' = Tail(toSend)
      /\ UNCHANGED <<build, lost, rxVars, wsRx, worker, msg, leftover, tx_mbuf_buffer_, txVars>>
  BY DEF Respond
<1>2. Mbufs' = Mbufs /\ Packets' = Packets
  BY <1>1, SetsStay
<1>3. toSend' \in Seq(Mbufs) /\ b \in Mbufs
  BY <1>1, HeadTailProperties DEF IInv, Types
<1> HIDE DEF b
<1>4. wsTx \in Seq(Mbufs) /\ Len(wsTx) \in Nat /\ build.queueCap \in Nat /\ Len(wsTx) <= build.queueCap
  BY Lengths, BuildFacts DEF IInv, Types, Bounds
<1>5. Append(wsTx, b) \in Seq(Mbufs) /\ Len(Append(wsTx, b)) = Len(wsTx) + 1
  BY <1>3, <1>4, AppendProperties
<1>6. wsTx' \in Seq(Mbufs) /\ Len(wsTx') <= build.queueCap /\ free' \subseteq Mbufs
  <2>1. CASE Len(wsTx) < build.queueCap /\ wsTx' = Append(wsTx, b) /\ free' = free
    BY <2>1, <1>4, <1>5 DEF IInv, Types
  <2>2. CASE free' = free \union {b} /\ wsTx' = wsTx
    BY <2>2, <1>3, <1>4 DEF IInv, Types
  <2> QED
    BY <1>1, <2>1, <2>2
<1>7. Types'
  BY <1>1, <1>2, <1>3, <1>6 DEF IInv, Types, rxVars, txVars
<1>8. Bounds'
  BY <1>1, <1>6 DEF IInv, Bounds, rxVars, txVars
<1> QED
  BY <1>1, <1>7, <1>8 DEF IInv, Pending, Hands, rxVars

\* What the responses did not need is freed.
LEMMA FinishBatchKeeps == ASSUME IInv, FinishBatch PROVE IInv'
<1>1. /\ worker = "respond" /\ toSend = <<>> /\ worker' = "idle"
      /\ free' = free \union ToSet(leftover) /\ leftover' = <<>>
      /\ UNCHANGED <<build, lost, rxVars, wsRx, wsTx, msg, toSend, tx_mbuf_buffer_, txVars>>
  BY DEF FinishBatch
<1>2. Mbufs' = Mbufs /\ Packets' = Packets /\ <<>> \in Seq(Mbufs)
  BY <1>1, SetsStay, EmptySeq
<1>3. ToSet(leftover) \subseteq Mbufs
  BY ElementOfSeq, LenProperties DEF IInv, Types, ToSet
<1>4. Types'
  BY <1>1, <1>2, <1>3 DEF IInv, Types, rxVars, txVars
<1>5. Bounds'
  BY <1>1 DEF IInv, Bounds, rxVars, txVars
<1> QED
  BY <1>1, <1>4, <1>5 DEF IInv, Pending, Hands, rxVars

\* collect_tx_pkts takes no more than tx_queue_ has room for.
LEMMA CollectTxKeeps == ASSUME IInv, CollectTx PROVE IInv'
<1> DEFINE n == RoomFor(Len(wsTx))
<1>1. /\ n > 0
      /\ tx_queue_' = tx_queue_ \o SubSeq(wsTx, 1, n) /\ wsTx' = From(wsTx, n)
      /\ UNCHANGED <<build, free, lost, rxVars, wsRx, workerVars, flushing, nicTx, done>>
  BY DEF CollectTx
<1>2. Mbufs' = Mbufs /\ Packets' = Packets
  BY <1>1, SetsStay
<1>3. /\ wsTx \in Seq(Mbufs) /\ tx_queue_ \in Seq(Mbufs) /\ Len(wsTx) \in Nat /\ Len(tx_queue_) \in Nat
      /\ RingEntries \in Nat /\ Len(tx_queue_) <= RingEntries /\ build.queueCap \in Nat
      /\ Len(wsTx) <= build.queueCap
  BY Lengths, BuildFacts DEF IInv, Types, Bounds
<1>4. n \in 0 .. Len(wsTx) /\ n \in Nat /\ n <= Len(wsTx) /\ n <= RingEntries - Len(tx_queue_)
  BY <1>3 DEF RoomFor, Lesser
<1> HIDE DEF n
<1>5. /\ SubSeq(wsTx, 1, n) \in Seq(Mbufs) /\ Len(SubSeq(wsTx, 1, n)) = n
      /\ wsTx' \in Seq(Mbufs) /\ Len(wsTx') = Len(wsTx) - n
  BY <1>1, <1>3, <1>4, CutSequence, FromFacts
<1>6. tx_queue_' \in Seq(Mbufs) /\ Len(tx_queue_') = Len(tx_queue_) + n
  BY <1>1, <1>3, <1>5, ConcatProperties
<1>7. Len(tx_queue_') <= RingEntries /\ Len(wsTx') <= build.queueCap
  BY <1>3, <1>4, <1>5, <1>6
<1>8. Types'
  BY <1>1, <1>2, <1>5, <1>6 DEF IInv, Types, rxVars, workerVars
<1>9. Bounds'
  BY <1>1, <1>7 DEF IInv, Bounds, rxVars, workerVars
<1> QED
  BY <1>1, <1>8, <1>9 DEF IInv, Pending, Hands, rxVars, workerVars

\* A burst gives the NIC no more than it has room for.
LEMMA TxFlushKeeps == ASSUME IInv, TxFlush PROVE IInv'
<1> DEFINE n == Accepted(tx_queue_)
<1>1. /\ Burst(tx_queue_) /\ free' = free \union Reaped
      /\ tx_queue_' = From(tx_queue_, n)
      /\ flushing' = (n < Len(tx_queue_))
      /\ UNCHANGED <<build, lost, rxVars, wsRx, wsTx, workerVars>>
  BY DEF TxFlush
<1>2. Mbufs' = Mbufs /\ Packets' = Packets
  BY <1>1, SetsStay
<1>3. tx_queue_ \in Seq(Mbufs) /\ Len(tx_queue_) \in Nat /\ RingEntries \in Nat
      /\ Len(tx_queue_) <= RingEntries
  BY Lengths, BuildFacts DEF IInv, Types, Bounds
<1>4. n \in 0 .. Len(tx_queue_) /\ nicTx' \in Seq(Mbufs) /\ Len(nicTx') <= NicTxCap /\ done' = 0
      /\ Reaped \subseteq Mbufs
  BY <1>1, <1>3, BurstFacts
<1> HIDE DEF n
<1>5. n \in Nat /\ n <= Len(tx_queue_)
  BY <1>3, <1>4
<1>6. tx_queue_' \in Seq(Mbufs) /\ Len(tx_queue_') = Len(tx_queue_) - n
  BY <1>1, <1>3, <1>5, FromFacts
<1>7. /\ Len(tx_queue_') <= RingEntries /\ flushing' \in BOOLEAN /\ free' \subseteq Mbufs
      /\ done' \in Nat
  BY <1>1, <1>3, <1>4, <1>5, <1>6 DEF IInv, Types
<1>8. done' <= Len(nicTx')
  <2>1. Len(nicTx') \in Nat
    BY <1>4, LenProperties
  <2> QED
    BY <2>1, <1>4
<1>9. Types'
  BY <1>1, <1>2, <1>4, <1>6, <1>7 DEF IInv, Types, rxVars, workerVars
<1>10. Bounds'
  BY <1>1, <1>4, <1>7, <1>8 DEF IInv, Bounds, rxVars, workerVars
<1> QED
  BY <1>1, <1>9, <1>10 DEF IInv, Pending, Hands, rxVars, workerVars

\* Every step keeps the types.
LEMMA StepIInv == IInv /\ [Next]_vars => IInv'
<1> SUFFICES ASSUME IInv, [Next]_vars PROVE IInv'
  OBVIOUS
<1>1. ASSUME NEW kind \in Kinds, Receive(kind) PROVE IInv'
  BY <1>1, ReceiveKeeps
<1>2. CASE Transmit
  BY <1>2, TransmitKeeps
<1>3. CASE RxBurst \/ EchoHandler
  BY <1>3, RxBurstKeeps, EchoHandlerKeeps
<1>4. CASE Dispatching
  BY <1>4, EnqueueRxKeeps, IgnoreArpKeeps, ArpReplyKeeps, ArpReplyAgainKeeps, DispatchEndKeeps
  DEF Dispatching
<1>5. CASE CollectTx \/ TxFlush
  BY <1>5, CollectTxKeeps, TxFlushKeeps
<1>6. CASE TakeBatch
  BY <1>6, TakeBatchKeeps
<1>7. CASE Answering
  BY <1>7, AllocResponsesKeeps, ReleaseRequestsKeeps, RespondKeeps, FinishBatchKeeps DEF Answering
<1>8. CASE UNCHANGED vars
  BY <1>8, SetsStay
  DEF vars, rxVars, workerVars, txVars, IInv, Types, Bounds, Pending, Hands
<1> QED
  BY <1>1, <1>2, <1>3, <1>4, <1>5, <1>6, <1>7, <1>8 DEF Next, Nic, Dispatcher, Kinds

\* The invariant always holds.
LEMMA Invariance == Spec => []IInv
BY InitIInv, StepIInv, PTL DEF Spec

\* The invariant as TypeOK has it.
LEMMA TypesOK == IInv => TypeOK
<1> SUFFICES ASSUME IInv PROVE TypeOK
  OBVIOUS
<1>1. MbufsOf(nicRx) \in Seq(Mbufs) /\ MbufsOf(rx_queue_) \in Seq(Mbufs)
  BY MbufsOfFacts DEF IInv, Types, Packets
<1>2. i \in 0 .. Len(rx_queue_) /\ dispatch_total \in 0 .. i /\ done \in 0 .. Len(nicTx)
  BY Lengths DEF IInv, Types, Bounds
<1> QED
  BY <1>1, <1>2 DEF IInv, Types, Bounds, TypeOK

(* Every queue holds mbufs of the pool and no more than it has room for, the    *)
(* loop of dispatch_rx_pkts stays within the burst and dispatch_total within    *)
(* the loop (dpdk_dispatcher_dataplane.cc:86-186), whatever is built.           *)
THEOREM TypeCorrect == Spec => []TypeOK
BY Invariance, TypesOK, PTL

-----------------------------------------------------------------------------
(* Where the mbufs are *)

\* With no ARP packet before data, what is to be dispatched is behind what was.
Waiting == From(MbufsOf(rx_queue_), dispatch_total)
Tried == IF arpTry = NoMbuf THEN <<>> ELSE <<arpTry>>
Where ==
  [nicRx |-> MbufsOf(nicRx), rx_queue_ |-> Waiting, wsRx |-> wsRx, msg |-> msg,
   toSend |-> toSend, leftover |-> leftover, wsTx |-> wsTx, tx_queue_ |-> tx_queue_,
   nicTx |-> nicTx, arpTry |-> Tried]

Gone == free \union lost

Accounted ==
  /\ free \intersect lost = {}
  /\ Apart(Where, Gone, Mbufs)

\* The places by their names, in a state that satisfies the invariant.
WhereFacts ==
  IInv =>
    /\ Where \in Contents
    /\ Where["nicRx"] = MbufsOf(nicRx) /\ Where["rx_queue_"] = Waiting
    /\ Where["wsRx"] = wsRx /\ Where["msg"] = msg /\ Where["toSend"] = toSend
    /\ Where["leftover"] = leftover /\ Where["wsTx"] = wsTx /\ Where["tx_queue_"] = tx_queue_
    /\ Where["nicTx"] = nicTx /\ Where["arpTry"] = Tried

\* A sequence of mbufs is one of numbers.
LEMMA MbufSequences ==
  ASSUME build \in Builds, NEW s \in Seq(Mbufs)
  PROVE  s \in Seq(Nat)
BY BuildFacts, SeqMonotonic

(* The places before a step. *)
LEMMA BeforeStep == WhereFacts
<1> SUFFICES ASSUME IInv PROVE WhereFacts
  BY DEF WhereFacts
<1>1. MbufsOf(nicRx) \in Seq(Mbufs) /\ MbufsOf(rx_queue_) \in Seq(Mbufs)
  BY MbufsOfFacts DEF IInv, Types, Packets
<1>2. Waiting \in Seq(Mbufs)
  BY <1>1, FromFacts DEF IInv, Types, Waiting
<1>3. Tried \in Seq(Mbufs)
  <2>1. arpTry # NoMbuf => <<arpTry>> \in Seq(Mbufs)
    BY DEF IInv, Types
  <2> QED
    BY <2>1, EmptySeq DEF Tried
<1>4. /\ MbufsOf(nicRx) \in Seq(Nat) /\ Waiting \in Seq(Nat) /\ wsRx \in Seq(Nat)
      /\ msg \in Seq(Nat) /\ toSend \in Seq(Nat) /\ leftover \in Seq(Nat) /\ wsTx \in Seq(Nat)
      /\ tx_queue_ \in Seq(Nat) /\ nicTx \in Seq(Nat) /\ Tried \in Seq(Nat)
  BY <1>1, <1>2, <1>3, MbufSequences DEF IInv, Types
<1>5. DOMAIN Where = Holders /\ Where = [h \in Holders |-> Where[h]]
  BY DEF Where, Holders
<1>6. /\ Where["nicRx"] = MbufsOf(nicRx) /\ Where["rx_queue_"] = Waiting
      /\ Where["wsRx"] = wsRx /\ Where["msg"] = msg /\ Where["toSend"] = toSend
      /\ Where["leftover"] = leftover /\ Where["wsTx"] = wsTx /\ Where["tx_queue_"] = tx_queue_
      /\ Where["nicTx"] = nicTx /\ Where["arpTry"] = Tried
  BY DEF Where
<1>7. \A h \in Holders : Where[h] \in Seq(Nat)
  BY <1>4, <1>6 DEF Holders
<1>8. Where \in Contents
  BY <1>5, <1>7 DEF Contents
<1> QED
  BY <1>6, <1>8 DEF WhereFacts

(* The places after it. *)
LEMMA AfterStep == WhereFacts'
BY BeforeStep, PTL

\* What is computed from unchanged variables stays.
LEMMA PartsStay ==
  /\ nicRx' = nicRx => MbufsOf(nicRx)' = MbufsOf(nicRx)
  /\ UNCHANGED <<rx_queue_, dispatch_total>> => Waiting' = Waiting
  /\ arpTry' = arpTry => Tried' = Tried
BY DEF MbufsOf, Waiting, Tried, From

\* Nothing and something.
LEMMA EmptyJoined ==
  ASSUME NEW S, NEW s \in Seq(S)
  PROVE  /\ s \o <<>> = s /\ <<>> \o s = s /\ <<>> \in Seq(S)
         /\ From(s, 0) = s /\ SubSeq(s, 1, 0) = <<>> /\ SubSeq(s, 1, Len(s)) = s
         /\ ToSet(<<>>) = {}
<1>1. s \o <<>> = s /\ <<>> \o s = s /\ <<>> \in Seq(S) /\ ToSet(<<>>) = {}
  BY ConcatEmptySeq, EmptySeq DEF ToSet
<1>2. SubSeq(s, 1, 0) = <<>>
  BY SubSeqEmpty
<1>3. SubSeq(s, 1, Len(s)) = s
  BY SubSeqFull
<1>4. From(s, 0) = SubSeq(s, 1, Len(s))
  BY DEF From
<1> QED
  BY <1>1, <1>2, <1>3, <1>4

\* The next one and what is behind it.
LEMMA FromNext ==
  ASSUME NEW S, NEW s \in Seq(S), NEW n \in Nat, n + 1 <= Len(s)
  PROVE  /\ From(s, n) = <<s[n + 1]>> \o From(s, n + 1)
         /\ <<s[n + 1]>> \in Seq(S)
<1> DEFINE rest == From(s, n)
           behind == From(s, n + 1)
           one == s[n + 1]
<1>1. Len(s) \in Nat /\ n + 1 \in 1 .. Len(s) /\ n <= Len(s) /\ n + 1 \in Nat
  BY LenProperties
<1>2. one \in S
  BY <1>1, ElementOfSeq
<1>3. /\ rest \in Seq(S) /\ Len(rest) = Len(s) - n
      /\ \A k \in 1 .. Len(s) - n : rest[k] = s[n + k]
  BY <1>1, FromFacts
<1>4. /\ behind \in Seq(S) /\ Len(behind) = Len(s) - (n + 1)
      /\ \A k \in 1 .. Len(s) - (n + 1) : behind[k] = s[(n + 1) + k]
  BY <1>1, FromFacts
<1> HIDE DEF rest, behind
<1>5. <<one>> \in Seq(S) /\ Len(<<one>>) = 1 /\ <<one>>[1] = one
  BY <1>2
<1> DEFINE both == <<one>> \o behind
<1>6. /\ both \in Seq(S) /\ Len(both) = Len(<<one>>) + Len(behind)
      /\ \A k \in 1 .. Len(<<one>>) + Len(behind) :
           both[k] = IF k <= Len(<<one>>) THEN <<one>>[k] ELSE behind[k - Len(<<one>>)]
  BY <1>4, <1>5, ConcatProperties
<1> HIDE DEF both
<1>7. Len(both) = Len(rest)
  BY <1>1, <1>3, <1>4, <1>5, <1>6
<1>8. ASSUME NEW k \in 1 .. Len(s) - n PROVE both[k] = rest[k]
  <2>1. k \in 1 .. Len(<<one>>) + Len(behind)
    BY <1>1, <1>4, <1>5
  <2>2. CASE k = 1
    <3>1. both[k] = one
      BY <2>1, <2>2, <1>5, <1>6
    <3>2. rest[k] = s[n + 1]
      BY <2>2, <1>3
    <3> QED
      BY <3>1, <3>2
  <2>3. CASE k # 1
    <3>1. k - 1 \in 1 .. Len(s) - (n + 1) /\ (n + 1) + (k - 1) = n + k /\ ~(k <= 1)
      BY <2>3, <1>1
    <3>2. both[k] = behind[k - 1]
      BY <2>1, <3>1, <1>5, <1>6
    <3> QED
      BY <3>1, <3>2, <1>3, <1>4
  <2> QED
    BY <2>2, <2>3
<1>9. both = rest
  BY <1>3, <1>6, <1>7, <1>8, SeqEqual
<1> QED
  BY <1>5, <1>9 DEF both, rest, behind

-----------------------------------------------------------------------------
(* No step loses or duplicates an mbuf *)

\* From one place to another.
LEMMA Passes ==
  ASSUME IInv, IInv', Accounted, UNCHANGED <<build, free, lost>>,
         NEW x \in Holders, NEW y \in Holders, x # y, NEW moved \in Seq(Nat),
         Where[x] = moved \o Where'[x], Where'[y] = Where[y] \o moved,
         \A h \in Holders \ {x, y} : Where'[h] = Where[h]
  PROVE  Accounted'
<1>1. Where \in Contents /\ Where' \in Contents
  BY BeforeStep, AfterStep DEF WhereFacts
<1>2. Apart(Where', Gone, Mbufs)
  BY <1>1, Moves DEF Accounted
<1>3. Gone' = Gone /\ Mbufs' = Mbufs
  BY DEF Gone, Mbufs
<1> QED
  BY <1>2, <1>3 DEF Accounted

\* From one place to the pool.
LEMMA Freed ==
  ASSUME IInv, IInv', Accounted, UNCHANGED <<build, lost>>,
         NEW x \in Holders, NEW moved \in Seq(Nat), free' = free \union ToSet(moved),
         Where[x] = moved \o Where'[x],
         \A h \in Holders \ {x} : Where'[h] = Where[h]
  PROVE  Accounted'
<1>1. Where \in Contents /\ Where' \in Contents
  BY BeforeStep, AfterStep DEF WhereFacts
<1>2. Apart(Where', Gone \union ToSet(moved), Mbufs) /\ ToSet(moved) \intersect Gone = {}
  BY <1>1, Leaves DEF Accounted
<1>3. Gone' = Gone \union ToSet(moved) /\ Mbufs' = Mbufs
  BY DEF Gone, Mbufs
<1>4. free' \intersect lost' = {}
  BY <1>2 DEF Accounted, Gone
<1> QED
  BY <1>2, <1>3, <1>4 DEF Accounted

\* From the pool to a place.
LEMMA Drawn ==
  ASSUME IInv, IInv', Accounted, UNCHANGED <<build, lost>>,
         NEW x \in Holders, NEW moved \in Seq(Nat), free' = free \ ToSet(moved),
         IsInjective(moved), ToSet(moved) \subseteq free,
         Where'[x] = Where[x] \o moved,
         \A h \in Holders \ {x} : Where'[h] = Where[h]
  PROVE  Accounted'
<1>1. Where \in Contents /\ Where' \in Contents
  BY BeforeStep, AfterStep DEF WhereFacts
<1>2. ToSet(moved) \subseteq Gone
  BY DEF Gone
<1>3. Apart(Where', Gone \ ToSet(moved), Mbufs)
  BY <1>1, <1>2, Enters DEF Accounted
<1>4. Gone' = Gone \ ToSet(moved) /\ Mbufs' = Mbufs /\ free' \intersect lost' = {}
  BY DEF Gone, Mbufs, Accounted
<1> QED
  BY <1>3, <1>4 DEF Accounted

\* What the NIC has sent leaves its queue.
Sent == [Where EXCEPT !["nicTx"] = From(nicTx, done)]
\* What the NIC has sent may be freed.
LEMMA SentLeaves ==
  ASSUME IInv, Accounted
  PROVE  /\ Sent \in Contents /\ Sent["nicTx"] = From(nicTx, done)
         /\ \A h \in Holders \ {"nicTx"} : Sent[h] = Where[h]
         /\ Apart(Sent, Gone \union Reaped, Mbufs) /\ Reaped \intersect Gone = {}
<1>1. /\ nicTx \in Seq(Nat) /\ done \in Nat /\ done <= Len(nicTx) /\ done \in 0 .. Len(nicTx)
  BY MbufSequences, Lengths DEF IInv, Types, Bounds
<1>2. /\ From(nicTx, done) \in Seq(Nat) /\ SubSeq(nicTx, 1, done) \in Seq(Nat)
      /\ nicTx = SubSeq(nicTx, 1, done) \o From(nicTx, done)
  BY <1>1, FromFacts, CutSequence
<1>3. Where \in Contents /\ Where["nicTx"] = nicTx /\ "nicTx" \in Holders
  BY BeforeStep DEF WhereFacts, Holders
<1>4. /\ Sent \in Contents /\ Sent["nicTx"] = From(nicTx, done)
      /\ \A h \in Holders \ {"nicTx"} : Sent[h] = Where[h]
  BY <1>2, <1>3 DEF Sent, Contents
<1> DEFINE out == SubSeq(nicTx, 1, done)
<1>5. out \in Seq(Nat) /\ Where["nicTx"] = out \o Sent["nicTx"] /\ Reaped = ToSet(out)
  BY <1>2, <1>3, <1>4 DEF Reaped
<1> HIDE DEF out
<1>6. Apart(Sent, Gone \union ToSet(out), Mbufs) /\ ToSet(out) \intersect Gone = {}
  BY <1>3, <1>4, <1>5, Leaves DEF Accounted
<1> QED
  BY <1>4, <1>5, <1>6

\* From the pool to the NIC's receive queue.
LEMMA ReceiveAccounted ==
  ASSUME IInv, IInv', Accounted, NEW kind \in Kinds, Receive(kind)
  PROVE  Accounted'
<1> DEFINE one == Bulk(1)[1]
           packet == [mbuf |-> one, kind |-> kind]
<1>1. /\ free # {} /\ nicRx' = Append(nicRx, packet) /\ free' = free \ ToSet(Bulk(1))
      /\ UNCHANGED <<build, lost, rx_queue_, dispatch_total, arpTry, wsRx, wsTx, msg, toSend,
                     leftover, tx_queue_, nicTx>>
  BY DEF Receive, workerVars, txVars
<1>2. one \in free /\ one \in Mbufs /\ ToSet(Bulk(1)) = {one}
  BY <1>1, OneMbuf DEF IInv, Types
<1>3. packet \in [mbuf : Mbufs, kind : Kinds] /\ packet.mbuf = one
  BY <1>2
<1> HIDE DEF packet
<1>4. MbufsOf(nicRx') = MbufsOf(nicRx) \o <<one>>
  BY <1>1, <1>3, MbufsOfAppend DEF IInv, Types, Packets
<1> HIDE DEF one
<1> DEFINE moved == <<one>>
<1>5. moved \in Seq(Nat) /\ IsInjective(moved) /\ ToSet(moved) = {one}
  BY <1>2, BuildFacts DEF IInv, Types, IsInjective, ToSet
<1>6. Where'["nicRx"] = Where["nicRx"] \o moved /\ "nicRx" \in Holders
  BY <1>4, BeforeStep, AfterStep DEF WhereFacts, MbufsOf, Holders
<1>7. \A h \in Holders \ {"nicRx"} : Where'[h] = Where[h]
  BY <1>1, PartsStay, BeforeStep, AfterStep DEF WhereFacts, Holders
<1>8. free' = free \ ToSet(moved) /\ ToSet(moved) \subseteq free /\ UNCHANGED <<build, lost>>
  BY <1>1, <1>2, <1>5
<1> HIDE DEF moved
<1> QED
  BY <1>5, <1>6, <1>7, <1>8, Drawn

\* From there to rx_queue_.
LEMMA RxBurstAccounted == ASSUME IInv, IInv', Accounted, RxBurst PROVE Accounted'
<1> DEFINE n == Lesser(Len(nicRx), DispRxBatch)
           all == MbufsOf(nicRx)
           moved == SubSeq(all, 1, n)
<1>1. /\ i = 0 /\ rx_queue_ = <<>> /\ rx_queue_' = SubSeq(nicRx, 1, n) /\ nicRx' = From(nicRx, n)
      /\ UNCHANGED <<build, free, lost, dispatch_total, arpTry, wsRx, wsTx, msg, toSend,
                     leftover, tx_queue_, nicTx>>
  BY DEF RxBurst, DispatcherMayStart, BetweenPhases, workerVars, txVars
<1>2. nicRx \in Seq([mbuf : Mbufs, kind : Kinds]) /\ Len(nicRx) \in Nat /\ DispRxBatch \in Nat
      /\ dispatch_total = 0
  <2>1. dispatch_total = 0
    BY <1>1 DEF IInv, Types, Bounds
  <2> QED
    BY <2>1, Lengths, BuildFacts DEF IInv, Types, Packets
<1>3. n \in 0 .. Len(nicRx) /\ n \in Nat /\ n <= Len(nicRx)
  BY <1>2 DEF Lesser
<1> HIDE DEF n
<1>4. /\ all \in Seq(Mbufs) /\ Len(all) = Len(nicRx)
      /\ MbufsOf(rx_queue_') = moved /\ MbufsOf(nicRx') = From(all, n)
  BY <1>1, <1>2, <1>3, MbufsOfFacts, MbufsOfCut
<1>5. all \in Seq(Nat)
  BY <1>4, MbufSequences DEF IInv, Types
<1> HIDE DEF all
<1>6. moved \in Seq(Nat) /\ all = moved \o From(all, n)
  BY <1>3, <1>4, <1>5, CutSequence, FromFacts
<1> HIDE DEF moved
<1>7. Waiting = <<>>
  <2>1. MbufsOf(rx_queue_) = <<>> /\ Len(<<>>) = 0
    BY <1>1 DEF MbufsOf
  <2>2. <<>> \in Seq(Nat)
    BY EmptySeq
  <2>3. From(<<>>, 0) = <<>>
    BY <2>2, EmptyJoined
  <2> QED
    BY <1>2, <2>1, <2>3 DEF Waiting
<1>8. Waiting' = moved
  <2>1. From(moved, 0) = moved
    BY <1>6, EmptyJoined
  <2>2. Waiting' = From(moved, 0)
    BY <1>1, <1>2, <1>4 DEF Waiting, MbufsOf, From
  <2> QED
    BY <2>1, <2>2
<1>9. Where["nicRx"] = moved \o Where'["nicRx"] /\ Where'["rx_queue_"] = Where["rx_queue_"] \o moved
  <2>1. <<>> \o moved = moved
    BY <1>6, EmptyJoined
  <2>2. Where["nicRx"] = all /\ Where["rx_queue_"] = Waiting
    BY BeforeStep DEF WhereFacts, all
  <2>3. Where'["nicRx"] = MbufsOf(nicRx)' /\ Where'["rx_queue_"] = Waiting'
    BY AfterStep DEF WhereFacts
  <2>4. MbufsOf(nicRx)' = From(all, n)
    BY <1>4 DEF MbufsOf
  <2> QED
    BY <2>1, <2>2, <2>3, <2>4, <1>6, <1>7, <1>8
<1>10. \A h \in Holders \ {"nicRx", "rx_queue_"} : Where'[h] = Where[h]
  BY <1>1, PartsStay, BeforeStep, AfterStep DEF WhereFacts, Holders
<1> QED
  BY <1>1, <1>6, <1>9, <1>10, Passes DEF Holders

\* From rx_queue_ to tx_queue_, and without a place there to the pool.
LEMMA EchoHandlerAccounted == ASSUME IInv, IInv', Accounted, EchoHandler PROVE Accounted'
<1> DEFINE n == Lesser(RingEntries - Len(tx_queue_), Len(rx_queue_))
           all == MbufsOf(rx_queue_)
           moved == SubSeq(all, 1, n)
           rest == From(all, n)
           Between == [Where EXCEPT !["rx_queue_"] = rest, !["tx_queue_"] = tx_queue_']
<1>1. /\ i = 0 /\ rx_queue_' = <<>>
      /\ tx_queue_' = tx_queue_ \o moved /\ free' = free \union ToSet(rest)
      /\ UNCHANGED <<build, lost, nicRx, dispatch_total, arpTry, wsRx, wsTx, msg, toSend,
                     leftover, nicTx>>
  BY DEF EchoHandler, DispatcherMayStart, BetweenPhases, workerVars
<1>2. rx_queue_ \in Seq([mbuf : Mbufs, kind : Kinds]) /\ Len(rx_queue_) \in Nat /\ RingEntries \in Nat
      /\ dispatch_total = 0 /\ Len(tx_queue_) \in Nat /\ Len(tx_queue_) <= RingEntries
  <2>1. dispatch_total = 0 /\ Len(tx_queue_) <= RingEntries
    BY <1>1 DEF IInv, Types, Bounds
  <2> QED
    BY <2>1, Lengths, BuildFacts DEF IInv, Types, Packets
<1>3. all \in Seq(Mbufs) /\ Len(all) = Len(rx_queue_)
  BY <1>2, MbufsOfFacts
<1>4. n \in 0 .. Len(all) /\ n \in Nat /\ n <= Len(all)
  BY <1>2, <1>3 DEF Lesser
<1>5. all \in Seq(Nat)
  BY <1>3, MbufSequences DEF IInv, Types
<1>6. Where["rx_queue_"] = all
  <2>1. From(all, 0) = all
    BY <1>5, EmptyJoined
  <2> QED
    BY <2>1, <1>2, BeforeStep DEF WhereFacts, Waiting
<1>7. Where'["rx_queue_"] = <<>>
  <2>1. MbufsOf(rx_queue_)' = <<>> /\ Len(<<>>) = 0
    BY <1>1 DEF MbufsOf
  <2>2. <<>> \in Seq(Nat)
    BY EmptySeq
  <2>3. From(<<>>, 0) = <<>>
    BY <2>2, EmptyJoined
  <2>4. Waiting' = From(<<>>, 0)
    BY <2>1, <1>1, <1>2 DEF Waiting, From
  <2> QED
    BY <2>3, <2>4, AfterStep DEF WhereFacts
<1> HIDE DEF n, all
<1>8. moved \in Seq(Nat) /\ rest \in Seq(Nat) /\ all = moved \o rest
  BY <1>4, <1>5, CutSequence, FromFacts
<1> HIDE DEF moved, rest
<1>9. Where \in Contents /\ Where' \in Contents /\ Where'["tx_queue_"] = tx_queue_'
      /\ Where["tx_queue_"] = tx_queue_ /\ "rx_queue_" \in Holders /\ "tx_queue_" \in Holders
      /\ tx_queue_' \in Seq(Nat)
  BY BeforeStep, AfterStep DEF WhereFacts, Holders, Contents
<1>10. /\ Between \in Contents /\ Between["rx_queue_"] = rest /\ Between["tx_queue_"] = tx_queue_'
       /\ \A h \in Holders \ {"rx_queue_", "tx_queue_"} : Between[h] = Where[h]
  BY <1>8, <1>9 DEF Contents
<1> HIDE DEF Between
<1>11. Apart(Between, Gone, Mbufs)
  <2>1. Where["rx_queue_"] = moved \o Between["rx_queue_"] /\ Between["tx_queue_"] = Where["tx_queue_"] \o moved
    BY <1>1, <1>6, <1>8, <1>9, <1>10
  <2> QED
    BY <2>1, <1>8, <1>9, <1>10, Moves DEF Accounted
<1>12. \A h \in Holders \ {"rx_queue_"} : Where'[h] = Between[h]
  <2>1. \A h \in Holders \ {"rx_queue_", "tx_queue_"} : Where'[h] = Where[h]
    BY <1>1, PartsStay, BeforeStep, AfterStep DEF WhereFacts, Holders
  <2> QED
    BY <2>1, <1>9, <1>10
<1>13. Apart(Where', Gone \union ToSet(rest), Mbufs) /\ ToSet(rest) \intersect Gone = {}
  <2>1. Between["rx_queue_"] = rest \o Where'["rx_queue_"]
    BY <1>7, <1>8, <1>10, EmptyJoined
  <2> DEFINE x == "rx_queue_"
  <2>2. /\ x \in Holders /\ Between[x] = rest \o Where'[x]
        /\ \A h \in Holders \ {x} : Where'[h] = Between[h]
        /\ Between \in Contents /\ Where' \in Contents
    BY <2>1, <1>9, <1>10, <1>12
  <2> HIDE DEF x
  <2> QED
    BY <2>2, <1>8, <1>11, Leaves
<1>14. Gone' = Gone \union ToSet(rest) /\ Mbufs' = Mbufs /\ free' \intersect lost' = {}
  BY <1>1, <1>13 DEF Gone, Mbufs, Accounted
<1> QED
  BY <1>13, <1>14 DEF Accounted

\* From the worker's batch to the pool.
LEMMA ReleaseRequestsAccounted == ASSUME IInv, IInv', Accounted, ReleaseRequests PROVE Accounted'
<1>1. /\ free' = free \union ToSet(msg) /\ msg' = <<>>
      /\ UNCHANGED <<build, lost, nicRx, rx_queue_, dispatch_total, arpTry, wsRx, wsTx, toSend,
                     leftover, tx_queue_, nicTx>>
  BY DEF ReleaseRequests, rxVars, txVars
<1>2. msg \in Seq(Nat)
  BY MbufSequences DEF IInv, Types
<1>3. Where["msg"] = msg \o Where'["msg"]
  BY <1>1, <1>2, EmptyJoined, BeforeStep, AfterStep DEF WhereFacts
<1>4. \A h \in Holders \ {"msg"} : Where'[h] = Where[h]
  BY <1>1, PartsStay, BeforeStep, AfterStep DEF WhereFacts, Holders
<1> QED
  BY <1>1, <1>2, <1>3, <1>4, Freed DEF Holders

\* From what the responses did not need to the pool.
LEMMA FinishBatchAccounted == ASSUME IInv, IInv', Accounted, FinishBatch PROVE Accounted'
<1>1. /\ free' = free \union ToSet(leftover) /\ leftover' = <<>>
      /\ UNCHANGED <<build, lost, nicRx, rx_queue_, dispatch_total, arpTry, wsRx, wsTx, toSend,
                     msg, tx_queue_, nicTx>>
  BY DEF FinishBatch, rxVars, txVars
<1>2. leftover \in Seq(Nat)
  BY MbufSequences DEF IInv, Types
<1>3. Where["leftover"] = leftover \o Where'["leftover"]
  BY <1>1, <1>2, EmptyJoined, BeforeStep, AfterStep DEF WhereFacts
<1>4. \A h \in Holders \ {"leftover"} : Where'[h] = Where[h]
  BY <1>1, PartsStay, BeforeStep, AfterStep DEF WhereFacts, Holders
<1> QED
  BY <1>1, <1>2, <1>3, <1>4, Freed DEF Holders

\* From the responses to the worker's queue, or to the pool.
LEMMA RespondAccounted == ASSUME IInv, IInv', Accounted, Respond PROVE Accounted'
<1> DEFINE b == Head(toSend)
           moved == <<b>>
<1>1. /\ toSend # <<>>
      /\ \/ wsTx' = Append(wsTx, b) /\ free' = free
         \/ free' = free \union {b} /\ wsTx' = wsTx
      /\ toSend' = Tail(toSend)
      /\ UNCHANGED <<build, lost, nicRx, rx_queue_, dispatch_total, arpTry, wsRx, msg, leftover,
                     tx_queue_, nicTx>>
  BY DEF Respond, rxVars, txVars
<1>2. toSend \in Seq(Nat) /\ wsTx \in Seq(Nat)
  BY MbufSequences DEF IInv, Types
<1>3. moved \in Seq(Nat) /\ toSend = moved \o Tail(toSend) /\ Append(wsTx, b) = wsTx \o moved
  BY <1>1, <1>2, HeadAndTailJoined
<1>4. ToSet(moved) = {b}
  BY DEF ToSet
<1> HIDE DEF b, moved
<1>5. Where["toSend"] = moved \o Where'["toSend"] /\ Where["wsTx"] = wsTx /\ Where'["wsTx"] = wsTx'
  BY <1>1, <1>3, BeforeStep, AfterStep DEF WhereFacts
<1>6. \A h \in Holders \ {"toSend", "wsTx"} : Where'[h] = Where[h]
  BY <1>1, PartsStay, BeforeStep, AfterStep DEF WhereFacts, Holders
<1>7. CASE wsTx' = Append(wsTx, b) /\ free' = free
  <2>1. Where'["wsTx"] = Where["wsTx"] \o moved
    BY <1>3, <1>5, <1>7
  <2> QED
    BY <2>1, <1>1, <1>3, <1>5, <1>6, <1>7, Passes DEF Holders
<1>8. CASE free' = free \union {b} /\ wsTx' = wsTx
  <2>1. \A h \in Holders \ {"toSend"} : Where'[h] = Where[h]
    BY <1>5, <1>6, <1>8
  <2>2. free' = free \union ToSet(moved) /\ "toSend" \in Holders
    BY <1>4, <1>8 DEF Holders
  <2> QED
    BY <2>1, <2>2, <1>1, <1>3, <1>5, Freed
<1> QED
  BY <1>1, <1>7, <1>8

\* From the worker's queue to tx_queue_.
LEMMA CollectTxAccounted == ASSUME IInv, IInv', Accounted, CollectTx PROVE Accounted'
<1> DEFINE n == RoomFor(Len(wsTx))
           moved == SubSeq(wsTx, 1, n)
<1>1. /\ tx_queue_' = tx_queue_ \o moved /\ wsTx' = From(wsTx, n)
      /\ UNCHANGED <<build, free, lost, nicRx, rx_queue_, dispatch_total, arpTry, wsRx, msg, toSend,
                     leftover, nicTx>>
  BY DEF CollectTx, rxVars, workerVars
<1>2. wsTx \in Seq(Nat) /\ Len(wsTx) \in Nat /\ Len(tx_queue_) \in Nat
      /\ RingEntries \in Nat /\ Len(tx_queue_) <= RingEntries
  BY MbufSequences, Lengths, BuildFacts DEF IInv, Types, Bounds
<1>3. n \in 0 .. Len(wsTx) /\ n \in Nat /\ n <= Len(wsTx)
  BY <1>2 DEF RoomFor, Lesser
<1> HIDE DEF n
<1>4. moved \in Seq(Nat) /\ wsTx = moved \o From(wsTx, n)
  BY <1>2, <1>3, CutSequence, FromFacts
<1> HIDE DEF moved
<1>5. Where["wsTx"] = moved \o Where'["wsTx"] /\ Where'["tx_queue_"] = Where["tx_queue_"] \o moved
  BY <1>1, <1>4, BeforeStep, AfterStep DEF WhereFacts
<1>6. \A h \in Holders \ {"wsTx", "tx_queue_"} : Where'[h] = Where[h]
  BY <1>1, PartsStay, BeforeStep, AfterStep DEF WhereFacts, Holders
<1> QED
  BY <1>1, <1>4, <1>5, <1>6, Passes DEF Holders

\* From behind the dispatched packets to the pool.
LEMMA DispatchEndAccounted == ASSUME IInv, IInv', Accounted, DispatchEnd PROVE Accounted'
<1>1. /\ free' = free \union ToSet(Waiting) /\ rx_queue_' = <<>> /\ dispatch_total' = 0
      /\ UNCHANGED <<build, lost, nicRx, arpTry, wsRx, wsTx, msg, toSend, leftover, tx_queue_, nicTx>>
  BY DEF DispatchEnd, Waiting, workerVars, txVars
<1>2. Where["rx_queue_"] = Waiting /\ Where \in Contents
  BY BeforeStep DEF WhereFacts
<1>3. Waiting \in Seq(Nat)
  BY <1>2 DEF Contents, Holders
<1>4. Where'["rx_queue_"] = <<>>
  <2>1. MbufsOf(rx_queue_)' = <<>>
    BY <1>1 DEF MbufsOf
  <2>2. <<>> \in Seq(Nat)
    BY EmptySeq
  <2>3. From(<<>>, 0) = <<>>
    BY <2>2, EmptyJoined
  <2>4. Waiting' = From(<<>>, 0)
    BY <2>1, <1>1 DEF Waiting, From
  <2> QED
    BY <2>3, <2>4, AfterStep DEF WhereFacts
<1>5. Where["rx_queue_"] = Waiting \o Where'["rx_queue_"]
  BY <1>2, <1>3, <1>4, EmptyJoined
<1>6. \A h \in Holders \ {"rx_queue_"} : Where'[h] = Where[h]
  BY <1>1, PartsStay, BeforeStep, AfterStep DEF WhereFacts, Holders
<1> QED
  BY <1>1, <1>3, <1>5, <1>6, Freed DEF Holders

\* From the worker's queue to its batch, or in two parts to its responses and the rest.
LEMMA TakeBatchAccounted == ASSUME IInv, IInv', Accounted, TakeBatch PROVE Accounted'
<1>0. PICK m \in Nat, p \in Nat, r \in Nat : Taken(m, p, r)
  BY TakenFacts
<1> DEFINE batch == SubSeq(wsRx, 1, p)
<1>1. /\ batch \in Seq(Mbufs) /\ wsRx' \in Seq(Mbufs) /\ wsRx = batch \o wsRx' /\ worker = "idle"
      /\ \/ msg' = batch /\ toSend' = toSend /\ leftover' = leftover
         \/ /\ msg' = msg /\ toSend' \in Seq(Mbufs) /\ leftover' \in Seq(Mbufs)
            /\ batch = toSend' \o leftover'
      /\ UNCHANGED <<build, free, lost, nicRx, rx_queue_, dispatch_total, arpTry, wsTx,
                     tx_queue_, nicTx>>
  BY <1>0 DEF Taken, rxVars, txVars
<1> HIDE DEF batch
<1>2. msg = <<>> /\ toSend = <<>> /\ leftover = <<>>
  BY <1>1 DEF IInv, Hands
<1>3. batch \in Seq(Nat) /\ wsRx' \in Seq(Nat)
  BY <1>1, MbufSequences DEF IInv, Types
<1>4. \A h \in Holders \ {"wsRx", "msg", "toSend", "leftover"} : Where'[h] = Where[h]
  BY <1>1, PartsStay, BeforeStep, AfterStep DEF WhereFacts, Holders
<1>5. /\ Where \in Contents /\ Where' \in Contents /\ Where["wsRx"] = wsRx /\ Where'["wsRx"] = wsRx'
      /\ Where["msg"] = <<>> /\ Where'["msg"] = msg' /\ Where["toSend"] = <<>> /\ Where'["toSend"] = toSend'
      /\ Where["leftover"] = <<>> /\ Where'["leftover"] = leftover'
  BY <1>2, BeforeStep, AfterStep DEF WhereFacts
<1>6. CASE msg' = batch /\ toSend' = toSend /\ leftover' = leftover
  <2>1. Where["wsRx"] = batch \o Where'["wsRx"] /\ Where'["msg"] = Where["msg"] \o batch
    BY <1>1, <1>3, <1>5, <1>6, EmptyJoined
  <2>2. \A h \in Holders \ {"wsRx", "msg"} : Where'[h] = Where[h]
    BY <1>2, <1>4, <1>5, <1>6
  <2> QED
    BY <2>1, <2>2, <1>1, <1>3, Passes DEF Holders
<1>7. CASE /\ msg' = msg /\ toSend' \in Seq(Mbufs) /\ leftover' \in Seq(Mbufs)
           /\ batch = toSend' \o leftover'
  <2> DEFINE rest == leftover' \o wsRx'
             Between == [Where EXCEPT !["wsRx"] = rest, !["toSend"] = toSend']
  <2>1. toSend' \in Seq(Nat) /\ leftover' \in Seq(Nat)
    BY <1>1, <1>7, MbufSequences DEF IInv, Types
  <2>2. rest \in Seq(Nat) /\ wsRx = toSend' \o rest
    <3>1. rest \in Seq(Nat)
      BY <2>1, <1>3, ConcatProperties
    <3>2. (toSend' \o leftover') \o wsRx' = toSend' \o rest
      <4> DEFINE a == toSend'
                 b == leftover'
                 c == wsRx'
      <4>1. a \in Seq(Nat) /\ b \in Seq(Nat) /\ c \in Seq(Nat)
        BY <2>1, <1>3
      <4> HIDE DEF a, b, c
      <4>2. (a \o b) \o c = a \o (b \o c)
        BY <4>1, ConcatAssociative
      <4> QED
        BY <4>2 DEF a, b, c, rest
    <3> QED
      BY <3>1, <3>2, <1>1, <1>7
  <2> HIDE DEF rest
  <2>3. /\ Between \in Contents /\ Between["wsRx"] = rest /\ Between["toSend"] = toSend'
        /\ \A h \in Holders \ {"wsRx", "toSend"} : Between[h] = Where[h]
    BY <2>1, <2>2, <1>5 DEF Contents, Holders
  <2> HIDE DEF Between
  <2>4. Apart(Between, Gone, Mbufs)
    <3> DEFINE x == "wsRx"
               y == "toSend"
               moved == toSend'
    <3>1. /\ x \in Holders /\ y \in Holders /\ x # y /\ moved \in Seq(Nat)
          /\ Where[x] = moved \o Between[x] /\ Between[y] = Where[y] \o moved
          /\ \A h \in Holders \ {x, y} : Between[h] = Where[h]
          /\ Where \in Contents /\ Between \in Contents /\ Apart(Where, Gone, Mbufs)
      BY <2>1, <2>2, <2>3, <1>5, EmptyJoined DEF Holders, Accounted
    <3> HIDE DEF x, y, moved
    <3> QED
      BY <3>1, Moves
  <2>5. Apart(Where', Gone, Mbufs)
    <3> DEFINE x == "wsRx"
               y == "leftover"
               moved == leftover'
    <3>1. x \in Holders /\ y \in Holders /\ x # y
      BY DEF Holders
    <3>2. Between[x] = moved \o Where'[x]
      BY <2>3, <1>5 DEF rest
    <3>3. Where'[y] = Between[y] \o moved
      <4>1. Between[y] = <<>>
        BY <2>3, <1>5, <3>1
      <4> QED
        BY <4>1, <2>1, <1>5, EmptyJoined
    <3>4. \A h \in Holders \ {x, y} : Where'[h] = Between[h]
      BY <2>3, <1>2, <1>4, <1>5, <1>7
    <3>5. moved \in Seq(Nat)
      BY <2>1
    <3> HIDE DEF x, y, moved
    <3>6. /\ x \in Holders /\ y \in Holders /\ x # y /\ moved \in Seq(Nat)
          /\ Between[x] = moved \o Where'[x] /\ Where'[y] = Between[y] \o moved
          /\ \A h \in Holders \ {x, y} : Where'[h] = Between[h]
          /\ Between \in Contents /\ Where' \in Contents /\ Apart(Between, Gone, Mbufs)
      BY <3>1, <3>2, <3>3, <3>4, <3>5, <2>3, <2>4, <1>5
    <3> QED
      BY <3>6, Moves
  <2>6. Gone' = Gone /\ Mbufs' = Mbufs
    BY <1>1 DEF Gone, Mbufs
  <2> QED
    BY <2>5, <2>6, <1>1 DEF Accounted
<1> QED
  BY <1>1, <1>6, <1>7

\* Responses have at least as many packets as their requests where they have mbufs
\* of their own: then nothing behind the new mbufs is freed.
FreshResponses == \A b \in Builds : b.applyNew => b.req <= b.resp

\* From the pool to the responses: the requests keep their own.
LEMMA AllocResponsesAccounted ==
  ASSUME FreshResponses, IInv, IInv', Accounted, AllocResponses
  PROVE  Accounted'
<1>0. PICK r \in Nat : Allocated(r)
  BY AllocatedFacts
<1>1. /\ build.req <= build.resp => leftover' = <<>>
      /\ r <= Cardinality(free) /\ toSend' = Bulk(r) /\ free' = free \ ToSet(Bulk(r))
      /\ worker = "alloc"
      /\ UNCHANGED <<build, lost, nicRx, rx_queue_, dispatch_total, arpTry, wsRx, wsTx, msg,
                     tx_queue_, nicTx>>
  BY <1>0 DEF Allocated, rxVars, txVars
<1>2. build.applyNew /\ toSend = <<>> /\ leftover = <<>>
  BY <1>1 DEF IInv, Hands
<1>3. leftover' = <<>>
  BY <1>1, <1>2 DEF FreshResponses, IInv, Types
<1> DEFINE moved == Bulk(r)
<1>4. moved \in Seq(Nat) /\ IsInjective(moved) /\ ToSet(moved) \subseteq free
  BY <1>1, BulkFacts DEF IInv, Types
<1> HIDE DEF moved
<1>5. Where'["toSend"] = Where["toSend"] \o moved
  BY <1>1, <1>2, <1>4, EmptyJoined, BeforeStep, AfterStep DEF WhereFacts, moved
<1>6. \A h \in Holders \ {"toSend"} : Where'[h] = Where[h]
  BY <1>1, <1>2, <1>3, PartsStay, BeforeStep, AfterStep DEF WhereFacts, Holders
<1>7. free' = free \ ToSet(moved) /\ "toSend" \in Holders
  BY <1>1 DEF moved, Holders
<1> QED
  BY <1>1, <1>4, <1>5, <1>6, <1>7, Drawn

\* From tx_queue_ to the NIC, and what the NIC has sent to the pool.
LEMMA TxFlushAccounted == ASSUME IInv, IInv', Accounted, TxFlush PROVE Accounted'
<1> DEFINE n == Accepted(tx_queue_)
           moved == SubSeq(tx_queue_, 1, n)
<1>1. /\ Burst(tx_queue_) /\ free' = free \union Reaped
      /\ tx_queue_' = From(tx_queue_, n)
      /\ UNCHANGED <<build, lost, nicRx, rx_queue_, dispatch_total, arpTry, wsRx, wsTx, msg, toSend,
                     leftover>>
  BY DEF TxFlush, rxVars, workerVars
<1>2. tx_queue_ \in Seq(Mbufs) /\ tx_queue_ \in Seq(Nat) /\ Len(tx_queue_) \in Nat
  BY MbufSequences, Lengths DEF IInv, Types
<1>3. n \in 0 .. Len(tx_queue_) /\ nicTx' = From(nicTx, done) \o moved
  BY <1>1, <1>2, BurstFacts
<1> HIDE DEF n
<1>4. n \in Nat /\ n <= Len(tx_queue_)
  BY <1>2, <1>3
<1>5. moved \in Seq(Nat) /\ tx_queue_ = moved \o tx_queue_'
  BY <1>1, <1>2, <1>3, <1>4, CutSequence, FromFacts
<1> HIDE DEF moved
<1>6. /\ Sent \in Contents /\ Sent["nicTx"] = From(nicTx, done)
      /\ \A h \in Holders \ {"nicTx"} : Sent[h] = Where[h]
      /\ Apart(Sent, Gone \union Reaped, Mbufs) /\ Reaped \intersect Gone = {}
  BY SentLeaves
<1>7. /\ Where' \in Contents /\ Where'["nicTx"] = nicTx' /\ Where'["tx_queue_"] = tx_queue_'
      /\ Where["tx_queue_"] = tx_queue_
  BY BeforeStep, AfterStep DEF WhereFacts
<1>8. \A h \in Holders \ {"tx_queue_", "nicTx"} : Where'[h] = Where[h]
  BY <1>1, PartsStay, BeforeStep, AfterStep DEF WhereFacts, Holders
<1>9. Apart(Where', Gone \union Reaped, Mbufs)
  <2> DEFINE x == "tx_queue_"
             y == "nicTx"
  <2>1. x \in Holders /\ y \in Holders /\ x # y
    BY DEF Holders
  <2>2. Sent[x] = moved \o Where'[x] /\ Where'[y] = Sent[y] \o moved
    BY <1>3, <1>5, <1>6, <1>7, <2>1
  <2>3. \A h \in Holders \ {x, y} : Where'[h] = Sent[h]
    BY <1>6, <1>8
  <2> HIDE DEF x, y
  <2>4. /\ moved \in Seq(Nat) /\ Sent \in Contents /\ Where' \in Contents
        /\ Apart(Sent, Gone \union Reaped, Mbufs)
    BY <1>5, <1>6, <1>7
  <2> QED
    BY <2>1, <2>2, <2>3, <2>4, Moves
<1>10. Gone' = Gone \union Reaped /\ Mbufs' = Mbufs /\ free' \intersect lost' = {}
  BY <1>1, <1>6 DEF Gone, Mbufs, Accounted
<1> QED
  BY <1>9, <1>10 DEF Accounted

\* From the pool to the NIC or to arpTry, and what the NIC has sent to the pool.
LEMMA ArpReplyAccounted == ASSUME IInv, IInv', Accounted, ArpReply PROVE Accounted'
<1> DEFINE bulk == Bulk(1)
           one == Bulk(1)[1]
           n == Accepted(bulk)
<1>1. /\ Looking /\ free # {} /\ Burst(bulk) /\ free' = (free \ ToSet(bulk)) \union Reaped
      /\ \/ n = 1 /\ arpTry' = arpTry
         \/ n # 1 /\ arpTry' = one
      /\ UNCHANGED <<build, lost, nicRx, rx_queue_, dispatch_total, wsRx, wsTx, msg, toSend,
                     leftover, tx_queue_>>
  BY DEF ArpReply, workerVars
<1>2. arpTry = NoMbuf
  BY <1>1, LookingFacts
<1>3. bulk = <<one>> /\ one \in free /\ one \in Mbufs /\ one # NoMbuf
  BY <1>1, OneMbuf, BuildFacts DEF IInv, Types
<1>4. /\ bulk \in Seq(Mbufs) /\ bulk \in Seq(Nat) /\ Len(bulk) = 1 /\ IsInjective(bulk)
      /\ ToSet(bulk) \subseteq free
  <2>1. 1 \in Nat /\ 1 <= Cardinality(free)
    BY <1>1, OneMbuf DEF IInv, Types
  <2> QED
    BY <2>1, BulkFacts DEF IInv, Types
<1>5. n \in 0 .. Len(bulk) /\ nicTx' = From(nicTx, done) \o SubSeq(bulk, 1, n)
  BY <1>1, <1>4, BurstFacts
<1> HIDE DEF bulk, one, n
<1>6. n = 1 \/ n = 0
  BY <1>4, <1>5
<1>7. /\ Sent \in Contents /\ Sent["nicTx"] = From(nicTx, done)
      /\ \A h \in Holders \ {"nicTx"} : Sent[h] = Where[h]
      /\ Apart(Sent, Gone \union Reaped, Mbufs) /\ Reaped \intersect Gone = {}
  BY SentLeaves
<1>8. /\ Where' \in Contents /\ Where'["nicTx"] = nicTx' /\ Where'["arpTry"] = Tried'
      /\ Where["arpTry"] = <<>>
  BY <1>2, BeforeStep, AfterStep DEF WhereFacts, Tried
<1>9. \A h \in Holders \ {"nicTx", "arpTry"} : Where'[h] = Where[h]
  BY <1>1, PartsStay, BeforeStep, AfterStep DEF WhereFacts, Holders
<1>10. ToSet(bulk) \subseteq Gone \union Reaped
  BY <1>4 DEF Gone
<1>11. Apart(Where', (Gone \union Reaped) \ ToSet(bulk), Mbufs)
  <2>1. CASE n = 1
    <3> DEFINE x == "nicTx"
    <3>1. x \in Holders /\ Where'[x] = Sent[x] \o bulk
      BY <2>1, <1>4, <1>5, <1>7, <1>8, EmptyJoined DEF Holders
    <3>2. Tried' = <<>>
      BY <2>1, <1>1, <1>2 DEF Tried
    <3>3. \A h \in Holders \ {x} : Where'[h] = Sent[h]
      BY <3>2, <1>7, <1>8, <1>9
    <3> HIDE DEF x
    <3> QED
      BY <3>1, <3>3, <1>4, <1>7, <1>8, <1>10, Enters
  <2>2. CASE n = 0
    <3> DEFINE x == "arpTry"
    <3>1. Tried' = bulk
      BY <2>2, <1>1, <1>3 DEF Tried
    <3>2. x \in Holders /\ Sent[x] = <<>>
      BY <1>7, <1>8 DEF Holders
    <3>3. Where'[x] = Sent[x] \o bulk
      BY <3>1, <3>2, <1>4, <1>8, EmptyJoined
    <3>4. nicTx' = From(nicTx, done)
      <4>1. nicTx' = Sent["nicTx"] \o <<>> /\ Sent["nicTx"] \in Seq(Nat)
        BY <2>2, <1>4, <1>5, <1>7, EmptyJoined DEF Contents, Holders
      <4> QED
        BY <4>1, <1>7, EmptyJoined
    <3>5. \A h \in Holders \ {x} : Where'[h] = Sent[h]
      BY <3>4, <1>7, <1>8, <1>9
    <3> HIDE DEF x
    <3> QED
      BY <3>2, <3>3, <3>5, <1>4, <1>7, <1>8, <1>10, Enters
  <2> QED
    BY <2>1, <2>2, <1>6
<1>12. Gone' = (Gone \union Reaped) \ ToSet(bulk) /\ Mbufs' = Mbufs /\ free' \intersect lost' = {}
  BY <1>1, <1>4, <1>7 DEF Gone, Mbufs, Accounted
<1> QED
  BY <1>11, <1>12 DEF Accounted

\* From arpTry to the NIC or out of the program, and what the NIC has sent to the pool.
LEMMA ArpReplyAgainAccounted == ASSUME IInv, IInv', Accounted, ArpReplyAgain PROVE Accounted'
<1> DEFINE moved == <<arpTry>>
           n == Accepted(moved)
<1>1. /\ arpTry # NoMbuf /\ Burst(moved) /\ free' = free \union Reaped
      /\ \/ n = 1 /\ lost' = lost
         \/ n # 1 /\ lost' = lost \union {arpTry}
      /\ arpTry' = NoMbuf
      /\ UNCHANGED <<build, nicRx, rx_queue_, dispatch_total, wsRx, wsTx, msg, toSend, leftover,
                     tx_queue_>>
  BY DEF ArpReplyAgain, workerVars
<1>2. arpTry \in Mbufs /\ arpTry \in Nat
  BY <1>1, BuildFacts DEF IInv, Types
<1>3. moved \in Seq(Mbufs) /\ moved \in Seq(Nat) /\ Len(moved) = 1 /\ ToSet(moved) = {arpTry}
  BY <1>2 DEF ToSet
<1>4. n \in 0 .. Len(moved) /\ nicTx' = From(nicTx, done) \o SubSeq(moved, 1, n)
  BY <1>1, <1>3, BurstFacts
<1>5. Tried = moved /\ Tried' = <<>>
  BY <1>1 DEF Tried
<1> HIDE DEF moved, n
<1>6. n = 1 \/ n = 0
  BY <1>3, <1>4
<1>7. /\ Sent \in Contents /\ Sent["nicTx"] = From(nicTx, done)
      /\ \A h \in Holders \ {"nicTx"} : Sent[h] = Where[h]
      /\ Apart(Sent, Gone \union Reaped, Mbufs) /\ Reaped \intersect Gone = {}
  BY SentLeaves
<1>8. /\ Where' \in Contents /\ Where'["nicTx"] = nicTx' /\ Where'["arpTry"] = <<>>
      /\ Where["arpTry"] = moved
  BY <1>5, BeforeStep, AfterStep DEF WhereFacts
<1>9. \A h \in Holders \ {"nicTx", "arpTry"} : Where'[h] = Where[h]
  BY <1>1, PartsStay, BeforeStep, AfterStep DEF WhereFacts, Holders
<1> DEFINE x == "arpTry"
<1>10. x \in Holders /\ Sent[x] = moved \o Where'[x]
  BY <1>3, <1>7, <1>8, EmptyJoined DEF Holders
<1>11. CASE n = 1
  <2> DEFINE y == "nicTx"
  <2>1. y \in Holders /\ x # y /\ Where'[y] = Sent[y] \o moved
    BY <1>3, <1>4, <1>7, <1>8, <1>11, EmptyJoined DEF Holders
  <2>2. \A h \in Holders \ {x, y} : Where'[h] = Sent[h]
    BY <1>7, <1>9
  <2> HIDE DEF x, y
  <2>3. Apart(Where', Gone \union Reaped, Mbufs)
    <3>1. /\ moved \in Seq(Nat) /\ Sent \in Contents /\ Where' \in Contents
          /\ x \in Holders /\ Sent[x] = moved \o Where'[x]
          /\ Apart(Sent, Gone \union Reaped, Mbufs)
      BY <1>3, <1>7, <1>8, <1>10
    <3> QED
      BY <2>1, <2>2, <3>1, Moves
  <2>4. Gone' = Gone \union Reaped /\ Mbufs' = Mbufs /\ free' \intersect lost' = {}
    BY <1>1, <1>7, <1>11 DEF Gone, Mbufs, Accounted
  <2> QED
    BY <2>3, <2>4 DEF Accounted
<1>12. CASE n = 0
  <2>1. nicTx' = From(nicTx, done)
    <3>1. nicTx' = Sent["nicTx"] \o <<>> /\ Sent["nicTx"] \in Seq(Nat)
      BY <1>3, <1>4, <1>7, <1>12, EmptyJoined DEF Contents, Holders
    <3> QED
      BY <3>1, <1>7, EmptyJoined
  <2>2. \A h \in Holders \ {x} : Where'[h] = Sent[h]
    BY <2>1, <1>7, <1>8, <1>9
  <2> HIDE DEF x
  <2>3. /\ Apart(Where', (Gone \union Reaped) \union ToSet(moved), Mbufs)
        /\ ToSet(moved) \intersect (Gone \union Reaped) = {}
    <3>1. /\ moved \in Seq(Nat) /\ Sent \in Contents /\ Where' \in Contents
          /\ x \in Holders /\ Sent[x] = moved \o Where'[x]
          /\ Apart(Sent, Gone \union Reaped, Mbufs)
      BY <1>3, <1>7, <1>8, <1>10
    <3> QED
      BY <2>2, <3>1, Leaves
  <2>4. Gone' = (Gone \union Reaped) \union ToSet(moved) /\ Mbufs' = Mbufs
        /\ free' \intersect lost' = {}
    BY <2>3, <1>1, <1>3, <1>7, <1>12 DEF Gone, Mbufs, Accounted
  <2> QED
    BY <2>3, <2>4 DEF Accounted
<1> QED
  BY <1>6, <1>11, <1>12

-----------------------------------------------------------------------------
(* No data is received behind an ARP packet *)

DataFirst(packets) ==
  \A k, l \in 1 .. Len(packets) : k < l /\ IsArp(packets[k]) => IsArp(packets[l])

\* So long as ARP packets come last, the dispatched packets are the first ones and
\* those the loop has passed since are ARP packets.
InOrder ==
  /\ DataFirst(nicRx) /\ DataFirst(rx_queue_)
  /\ \A k \in 1 .. dispatch_total : ~IsArp(rx_queue_[k])
  /\ \A k \in dispatch_total + 1 .. i : IsArp(rx_queue_[k])

\* A part of a queue is ordered as the queue is.
LEMMA DataFirstInParts ==
  ASSUME NEW P \in Seq(Packets), DataFirst(P), NEW n \in 0 .. Len(P)
  PROVE  DataFirst(SubSeq(P, 1, n)) /\ DataFirst(From(P, n))
<1> DEFINE front == SubSeq(P, 1, n)
           rest == From(P, n)
<1>1. Len(P) \in Nat /\ n \in Nat /\ n <= Len(P)
  BY LenProperties
<1>2. front \in Seq(Packets) /\ Len(front) = n /\ \A k \in 1 .. n : front[k] = P[k]
  BY CutSequence
<1>3. rest \in Seq(Packets) /\ Len(rest) = Len(P) - n /\ \A k \in 1 .. Len(P) - n : rest[k] = P[n + k]
  BY <1>1, FromFacts
<1> HIDE DEF front, rest
<1>4. DataFirst(front)
  <2> SUFFICES ASSUME NEW k \in 1 .. Len(front), NEW l \in 1 .. Len(front), k < l, IsArp(front[k])
               PROVE  IsArp(front[l])
    BY DEF DataFirst
  <2>1. k \in 1 .. Len(P) /\ l \in 1 .. Len(P) /\ front[k] = P[k] /\ front[l] = P[l]
    BY <1>1, <1>2
  <2> QED
    BY <2>1 DEF DataFirst
<1>5. DataFirst(rest)
  <2> SUFFICES ASSUME NEW k \in 1 .. Len(rest), NEW l \in 1 .. Len(rest), k < l, IsArp(rest[k])
               PROVE  IsArp(rest[l])
    BY DEF DataFirst
  <2>1. /\ n + k \in 1 .. Len(P) /\ n + l \in 1 .. Len(P) /\ n + k < n + l
        /\ rest[k] = P[n + k] /\ rest[l] = P[n + l]
    BY <1>1, <1>3
  <2> QED
    BY <2>1 DEF DataFirst
<1> QED
  BY <1>4, <1>5 DEF front, rest

\* The NIC delivers no data while an ARP packet waits.
LEMMA ReceiveInOrder ==
  ASSUME ~ArpMayPrecede, IInv, InOrder, NEW kind \in Kinds, Receive(kind)
  PROVE  InOrder'
<1> DEFINE packet == [mbuf |-> Bulk(1)[1], kind |-> kind]
<1>1. /\ nicRx' = Append(nicRx, packet) /\ free # {}
      /\ kind = "data" => \A k \in DOMAIN nicRx : ~IsArp(nicRx[k])
      /\ UNCHANGED <<rx_queue_, i, dispatch_total>>
  BY DEF Receive
<1>2. packet \in Packets /\ (kind # "data" => IsArp(packet))
  BY <1>1, OneMbuf DEF Packets, IInv, Types, IsArp
<1> HIDE DEF packet
<1>3. nicRx \in Seq(Packets) /\ Len(nicRx) \in Nat /\ DOMAIN nicRx = 1 .. Len(nicRx)
  BY LenProperties DEF IInv, Types
<1>4. /\ Len(nicRx') = Len(nicRx) + 1 /\ nicRx'[Len(nicRx) + 1] = packet
      /\ \A k \in 1 .. Len(nicRx) : nicRx'[k] = nicRx[k]
  BY <1>1, <1>2, <1>3, AppendProperties
<1>5. DataFirst(nicRx')
  <2> SUFFICES ASSUME NEW k \in 1 .. Len(nicRx'), NEW l \in 1 .. Len(nicRx'), k < l,
                      IsArp(nicRx'[k])
               PROVE  IsArp(nicRx'[l])
    BY DEF DataFirst
  <2>1. k \in 1 .. Len(nicRx) /\ (l \in 1 .. Len(nicRx) \/ l = Len(nicRx) + 1)
    BY <1>3, <1>4
  <2>2. IsArp(nicRx[k]) /\ kind # "data"
    BY <2>1, <1>1, <1>3, <1>4
  <2>3. CASE l \in 1 .. Len(nicRx)
    BY <2>1, <2>2, <2>3, <1>4 DEF InOrder, DataFirst
  <2>4. CASE l = Len(nicRx) + 1
    BY <2>2, <2>4, <1>2, <1>4
  <2> QED
    BY <2>1, <2>3, <2>4
<1>6. DataFirst(rx_queue_)' /\ DataFirst(nicRx)'
  BY <1>1, <1>5 DEF InOrder, DataFirst
<1> QED
  BY <1>1, <1>6 DEF InOrder

\* rx_burst keeps the order.
LEMMA RxBurstInOrder == ASSUME IInv, InOrder, RxBurst PROVE InOrder'
<1> DEFINE n == Lesser(Len(nicRx), DispRxBatch)
<1>1. /\ i = 0 /\ rx_queue_' = SubSeq(nicRx, 1, n) /\ nicRx' = From(nicRx, n)
      /\ UNCHANGED <<i, dispatch_total>>
  BY DEF RxBurst, DispatcherMayStart, BetweenPhases
<1>2. nicRx \in Seq(Packets) /\ Len(nicRx) \in Nat /\ DispRxBatch \in Nat
  BY Lengths, BuildFacts DEF IInv, Types
<1>3. n \in 0 .. Len(nicRx)
  BY <1>2 DEF Lesser
<1> HIDE DEF n
<1>4. DataFirst(nicRx') /\ DataFirst(rx_queue_')
  BY <1>1, <1>2, <1>3, DataFirstInParts DEF InOrder
<1>5. i' = 0 /\ dispatch_total' = 0
  BY <1>1 DEF IInv, Types, Bounds
<1>6. DataFirst(nicRx)' /\ DataFirst(rx_queue_)'
  BY <1>4 DEF DataFirst
<1> QED
  BY <1>5, <1>6 DEF InOrder

\* rx_queue_ is emptied.
LEMMA EmptiedInOrder ==
  ASSUME IInv, InOrder, nicRx' = nicRx, rx_queue_' = <<>>, i' = 0, dispatch_total' = 0
  PROVE  InOrder'
<1>1. DataFirst(nicRx)' /\ DataFirst(rx_queue_)'
  BY DEF InOrder, DataFirst
<1> QED
  BY <1>1 DEF InOrder

\* The loop passes an ARP packet.
LEMMA PassedInOrder ==
  ASSUME IInv, InOrder, UNCHANGED <<nicRx, rx_queue_, dispatch_total>>, i' = i + 1,
         IsArp(rx_queue_[i + 1])
  PROVE  InOrder'
<1>1. DataFirst(nicRx)' /\ DataFirst(rx_queue_)'
  BY DEF InOrder, DataFirst
<1>2. i \in Nat /\ dispatch_total \in Nat
  BY DEF IInv, Types
<1>3. ASSUME NEW k \in dispatch_total + 1 .. i' PROVE IsArp(rx_queue_'[k])
  <2>1. k \in dispatch_total + 1 .. i \/ k = i + 1
    BY <1>2
  <2> QED
    BY <2>1 DEF InOrder
<1> QED
  BY <1>1, <1>3 DEF InOrder, IsArp

\* A packet is dispatched only so long as all before it were.
LEMMA DispatchedFirst ==
  ASSUME IInv, InOrder, Looking, ~IsArp(rx_queue_[i + 1])
  PROVE  dispatch_total = i
<1>1. /\ i \in Nat /\ dispatch_total \in Nat /\ dispatch_total <= i /\ Len(rx_queue_) \in Nat
      /\ i + 1 \in 1 .. Len(rx_queue_)
  BY LookingFacts
<1>2. ASSUME dispatch_total # i PROVE FALSE
  <2>1. /\ i \in dispatch_total + 1 .. i /\ i \in 1 .. Len(rx_queue_)
        /\ i < i + 1
    BY <1>1, <1>2
  <2>2. IsArp(rx_queue_[i])
    BY <2>1 DEF InOrder
  <2>3. IsArp(rx_queue_[i + 1])
    BY <2>1, <2>2, <1>1 DEF InOrder, DataFirst
  <2> QED
    BY <2>3
<1> QED
  BY <1>2

\* Dispatched packets are the first ones.
LEMMA EnqueueRxInOrder == ASSUME IInv, InOrder, EnqueueRx PROVE InOrder'
<1>1. /\ Looking /\ ~IsArp(rx_queue_[i + 1])
      /\ i' = i + 1 /\ dispatch_total' = dispatch_total + 1
      /\ UNCHANGED <<nicRx, rx_queue_>>
  BY DEF EnqueueRx
<1>2. dispatch_total = i /\ i \in Nat
  BY <1>1, DispatchedFirst, LookingFacts
<1>3. DataFirst(nicRx)' /\ DataFirst(rx_queue_)'
  BY <1>1 DEF InOrder, DataFirst
<1>4. \A k \in 1 .. dispatch_total' : k \in 1 .. dispatch_total \/ k = i + 1
  BY <1>1, <1>2
<1>5. \A k \in 1 .. dispatch_total' : ~IsArp(rx_queue_'[k])
  BY <1>1, <1>4 DEF InOrder
<1>6. \A k \in dispatch_total' + 1 .. i' : FALSE
  BY <1>1, <1>2
<1> QED
  BY <1>3, <1>5, <1>6 DEF InOrder, IsArp

\* Every step keeps the order.
LEMMA StepInOrder == ~ArpMayPrecede /\ IInv /\ InOrder /\ [Next]_vars => InOrder'
<1> SUFFICES ASSUME ~ArpMayPrecede, IInv, InOrder, [Next]_vars PROVE InOrder'
  OBVIOUS
<1>1. ASSUME NEW kind \in Kinds, Receive(kind) PROVE InOrder'
  BY <1>1, ReceiveInOrder
<1>2. CASE RxBurst
  BY <1>2, RxBurstInOrder
<1>3. CASE EchoHandler
  <2>1. i' = 0 /\ dispatch_total' = 0 /\ nicRx' = nicRx /\ rx_queue_' = <<>>
    BY <1>3 DEF EchoHandler, DispatcherMayStart, BetweenPhases, IInv, Types, Bounds
  <2> QED
    BY <2>1, EmptiedInOrder
<1>4. CASE EnqueueRx
  BY <1>4, EnqueueRxInOrder
<1>5. CASE IgnoreArp
  BY <1>5, PassedInOrder DEF IgnoreArp, IsArp
<1>6. CASE ArpReply
  <2>1. /\ UNCHANGED <<nicRx, rx_queue_, dispatch_total>> /\ IsArp(rx_queue_[i + 1])
        /\ i' \in {i, i + 1}
    BY <1>6 DEF ArpReply, IsArp
  <2>2. CASE i' = i
    BY <2>1, <2>2 DEF InOrder, DataFirst, IsArp
  <2> QED
    BY <2>1, <2>2, PassedInOrder
<1>7. CASE ArpReplyAgain
  <2>1. arpTry # NoMbuf /\ UNCHANGED <<nicRx, rx_queue_, dispatch_total>> /\ i' = i + 1
    BY <1>7 DEF ArpReplyAgain
  <2> QED
    BY <2>1, PassedInOrder DEF IInv, Pending
<1>8. CASE DispatchEnd
  <2>1. i' = 0 /\ dispatch_total' = 0 /\ nicRx' = nicRx /\ rx_queue_' = <<>>
    BY <1>8 DEF DispatchEnd
  <2> QED
    BY <2>1, EmptiedInOrder
<1>9. ASSUME UNCHANGED <<nicRx, rx_queue_, i, dispatch_total>> PROVE InOrder'
  BY <1>9 DEF InOrder, DataFirst, IsArp
<1>10. CASE Transmit \/ CollectTx \/ TxFlush
  BY <1>9, <1>10 DEF Transmit, CollectTx, TxFlush, rxVars
<1>11. CASE TakeBatch \/ Answering
  BY <1>9, <1>11
  DEF TakeBatch, Answering, AllocResponses, ReleaseRequests, Respond, FinishBatch, rxVars
<1>12. CASE UNCHANGED vars
  BY <1>9, <1>12 DEF vars, rxVars
<1> QED
  BY <1>1, <1>2, <1>3, <1>4, <1>5, <1>6, <1>7, <1>8, <1>10, <1>11, <1>12
  DEF Next, Nic, Dispatcher, Dispatching, Kinds

-----------------------------------------------------------------------------
(* Every mbuf is in one place *)

\* From the first place behind the dispatched ones to the worker's queue: had an ARP
\* packet been passed before, DispatchEnd would free what the worker has.
LEMMA EnqueueRxAccounted ==
  ASSUME IInv, IInv', InOrder, Accounted, EnqueueRx
  PROVE  Accounted'
<1> DEFINE b == rx_queue_[i + 1].mbuf
           moved == <<b>>
           mbufs == MbufsOf(rx_queue_)
<1>1. /\ Looking /\ ~IsArp(rx_queue_[i + 1]) /\ wsRx' = Append(wsRx, b)
      /\ dispatch_total' = dispatch_total + 1
      /\ UNCHANGED <<build, free, lost, nicRx, rx_queue_, arpTry, wsTx, msg, toSend, leftover,
                     tx_queue_, nicTx>>
  BY DEF EnqueueRx, workerVars, txVars
<1>2. dispatch_total = i
  BY <1>1, DispatchedFirst
<1>3. /\ i \in Nat /\ i + 1 \in 1 .. Len(rx_queue_) /\ i + 1 <= Len(rx_queue_) /\ b \in Mbufs
      /\ rx_queue_ \in Seq(Packets)
  BY <1>1, LookingFacts
<1>4. mbufs \in Seq(Mbufs) /\ Len(mbufs) = Len(rx_queue_) /\ mbufs[i + 1] = b
  BY <1>3, MbufsOfFacts DEF Packets
<1>5. Waiting = From(mbufs, i)
  BY <1>2 DEF Waiting
<1>6. Waiting' = From(mbufs, i + 1)
  BY <1>1, <1>2 DEF Waiting, MbufsOf, From
<1> HIDE DEF mbufs
<1>7. Waiting = moved \o Waiting' /\ moved \in Seq(Mbufs)
  BY <1>3, <1>4, <1>5, <1>6, FromNext
<1>8. wsRx' = wsRx \o moved
  BY <1>1, <1>3, AppendIsConcat DEF IInv, Types
<1>9. moved \in Seq(Nat)
  BY <1>7, MbufSequences DEF IInv, Types
<1> HIDE DEF b, moved
<1>10. Where["rx_queue_"] = moved \o Where'["rx_queue_"] /\ Where'["wsRx"] = Where["wsRx"] \o moved
  BY <1>7, <1>8, BeforeStep, AfterStep DEF WhereFacts
<1>11. \A h \in Holders \ {"rx_queue_", "wsRx"} : Where'[h] = Where[h]
  BY <1>1, PartsStay, BeforeStep, AfterStep DEF WhereFacts, Holders
<1> QED
  BY <1>1, <1>9, <1>10, <1>11, Passes DEF Holders

\* A step that moves no mbuf.
LEMMA StaysAccounted ==
  ASSUME Accounted,
         UNCHANGED <<build, free, lost, nicRx, rx_queue_, dispatch_total, arpTry, wsRx, msg, toSend,
                     leftover, wsTx, tx_queue_, nicTx>>
  PROVE  Accounted'
<1>1. Where' = Where /\ Gone' = Gone /\ Mbufs' = Mbufs
  BY PartsStay DEF Where, Gone, Mbufs
<1> QED
  BY <1>1 DEF Accounted

\* At first every mbuf is in the pool.
LEMMA InitAccounted == Init => Accounted
<1> SUFFICES ASSUME Init PROVE Accounted
  OBVIOUS
<1>1. free = Mbufs /\ lost = {}
  BY DEF Init
<1>2. IInv
  BY InitIInv
<1>3. MbufsOf(nicRx) = <<>> /\ MbufsOf(rx_queue_) = <<>> /\ Tried = <<>> /\ dispatch_total = 0
  BY DEF Init, MbufsOf, Tried
<1>4. Waiting = <<>>
  <2>1. <<>> \in Seq(Nat)
    BY EmptySeq
  <2> QED
    BY <2>1, <1>3, EmptyJoined DEF Waiting
<1>5. DOMAIN Where = Holders /\ \A h \in Holders : Where[h] = <<>>
  BY <1>2, <1>3, <1>4, BeforeStep DEF Init, WhereFacts, Holders, Contents
<1>6. ToSet(<<>>) = {} /\ IsInjective(<<>>)
  BY DEF ToSet, IsInjective
<1>7. /\ \A h \in DOMAIN Where : IsInjective(Where[h]) /\ ToSet(Where[h]) = {}
      /\ Gone = Mbufs
  BY <1>1, <1>5, <1>6 DEF Gone
<1>8. Gone \union UNION {ToSet(Where[h]) : h \in DOMAIN Where} = Mbufs
  BY <1>7
<1> QED
  BY <1>1, <1>7, <1>8 DEF Accounted, Apart

\* No step loses or duplicates an mbuf.
LEMMA StepAccounted ==
  ASSUME FreshResponses, IInv, IInv', InOrder, Accounted, [Next]_vars
  PROVE  Accounted'
<1>1. ASSUME NEW kind \in Kinds, Receive(kind) PROVE Accounted'
  BY <1>1, ReceiveAccounted
<1>2. CASE Transmit \/ IgnoreArp \/ UNCHANGED vars
  BY <1>2, StaysAccounted DEF Transmit, IgnoreArp, vars, rxVars, workerVars, txVars
<1>3. CASE RxBurst \/ EchoHandler
  BY <1>3, RxBurstAccounted, EchoHandlerAccounted
<1>4. CASE EnqueueRx \/ ArpReply \/ ArpReplyAgain \/ DispatchEnd
  BY <1>4, EnqueueRxAccounted, ArpReplyAccounted, ArpReplyAgainAccounted, DispatchEndAccounted
<1>5. CASE CollectTx \/ TxFlush
  BY <1>5, CollectTxAccounted, TxFlushAccounted
<1>6. CASE TakeBatch
  BY <1>6, TakeBatchAccounted
<1>7. CASE Answering
  BY <1>7, AllocResponsesAccounted, ReleaseRequestsAccounted, RespondAccounted,
     FinishBatchAccounted DEF Answering
<1> QED
  BY <1>1, <1>2, <1>3, <1>4, <1>5, <1>6, <1>7 DEF Next, Nic, Dispatcher, Dispatching, Kinds

\* What is behind the dispatched packets is what is not dispatched.
LEMMA NotDispatchedFacts ==
  ASSUME IInv, InOrder
  PROVE  /\ Range(NotDispatched) = ToSet(Waiting)
         /\ IsInjective(Waiting) => IsInjective(NotDispatched)
<1> DEFINE d == dispatch_total
           N == NotDispatched
           W == Waiting
<1>1. /\ d \in Nat /\ i \in Nat /\ d <= i /\ i <= Len(rx_queue_) /\ Len(rx_queue_) \in Nat
      /\ rx_queue_ \in Seq(Packets)
  BY Lengths DEF IInv, Types, Bounds
<1>2. DOMAIN rx_queue_ = 1 .. Len(rx_queue_)
  BY <1>1, LenProperties
<1>3. /\ W \in Seq(Mbufs) /\ Len(W) = Len(rx_queue_) - d
      /\ \A k \in 1 .. Len(rx_queue_) - d : W[k] = rx_queue_[d + k].mbuf
  <2> DEFINE mbufs == MbufsOf(rx_queue_)
  <2>1. /\ mbufs \in Seq(Mbufs) /\ Len(mbufs) = Len(rx_queue_)
        /\ \A k \in 1 .. Len(rx_queue_) : mbufs[k] = rx_queue_[k].mbuf
    BY <1>1, MbufsOfFacts DEF Packets
  <2>2. W = From(mbufs, d)
    BY DEF Waiting
  <2> HIDE DEF mbufs, W
  <2>3. /\ W \in Seq(Mbufs) /\ Len(W) = Len(rx_queue_) - d
        /\ \A k \in 1 .. Len(rx_queue_) - d : W[k] = mbufs[d + k]
    <3>1. d \in Nat /\ d <= Len(mbufs)
      BY <1>1, <2>1
    <3> HIDE DEF d
    <3>2. /\ From(mbufs, d) \in Seq(Mbufs) /\ Len(From(mbufs, d)) = Len(mbufs) - d
          /\ \A k \in 1 .. Len(mbufs) - d : From(mbufs, d)[k] = mbufs[d + k]
      BY <2>1, <3>1, FromFacts
    <3> QED
      BY <2>1, <2>2, <3>2
  <2>4. \A k \in 1 .. Len(rx_queue_) - d : d + k \in 1 .. Len(rx_queue_)
    BY <1>1
  <2> QED
    BY <2>1, <2>3, <2>4
<1>4. DOMAIN N = d + 1 .. Len(rx_queue_)
  <2>1. \A n \in 1 .. Len(rx_queue_) : n \in 1 .. d \/ n \in d + 1 .. i \/ n > i
    BY <1>1
  <2>2. \A n \in 1 .. d : ~(n > i) /\ ~IsArp(rx_queue_[n])
    BY <1>1 DEF InOrder
  <2>3. \A n \in d + 1 .. i : IsArp(rx_queue_[n])
    BY DEF InOrder
  <2>4. \A n \in 1 .. Len(rx_queue_) :
          (n > i \/ IsArp(rx_queue_[n])) <=> n \in d + 1 .. Len(rx_queue_)
    <3> SUFFICES ASSUME NEW n \in 1 .. Len(rx_queue_)
                 PROVE  (n > i \/ IsArp(rx_queue_[n])) <=> n \in d + 1 .. Len(rx_queue_)
      OBVIOUS
    <3>1. CASE n \in 1 .. d
      BY <3>1, <2>2, <1>1
    <3>2. CASE n \in d + 1 .. i
      BY <3>2, <2>3, <1>1
    <3>3. CASE n > i
      BY <3>3, <1>1
    <3> QED
      BY <3>1, <3>2, <3>3, <2>1
  <2>5. DOMAIN N = {n \in 1 .. Len(rx_queue_) : n > i \/ IsArp(rx_queue_[n])}
    BY <1>2 DEF NotDispatched
  <2>6. \A n \in d + 1 .. Len(rx_queue_) : n \in 1 .. Len(rx_queue_)
    BY <1>1
  <2> QED
    BY <2>4, <2>5, <2>6
<1>5. \A n \in d + 1 .. Len(rx_queue_) : N[n] = rx_queue_[n].mbuf
  BY <1>4 DEF NotDispatched
<1>6. DOMAIN W = 1 .. Len(rx_queue_) - d
  BY <1>3, LenProperties
<1> HIDE DEF N, W
<1>7. \A k \in DOMAIN W : d + k \in DOMAIN N /\ N[d + k] = W[k]
  BY <1>1, <1>3, <1>4, <1>5, <1>6
<1>8. \A n \in DOMAIN N : n - d \in DOMAIN W /\ W[n - d] = N[n]
  <2> SUFFICES ASSUME NEW n \in DOMAIN N PROVE n - d \in DOMAIN W /\ W[n - d] = N[n]
    OBVIOUS
  <2>1. n - d \in DOMAIN W /\ d + (n - d) = n
    BY <1>1, <1>4, <1>6
  <2> QED
    BY <2>1, <1>7
<1>9. Range(N) = ToSet(W)
  BY <1>7, <1>8 DEF Range, ToSet
<1>10. ASSUME IsInjective(W) PROVE IsInjective(N)
  <2> SUFFICES ASSUME NEW n \in DOMAIN N, NEW l \in DOMAIN N, N[n] = N[l] PROVE n = l
    BY DEF IsInjective
  <2>1. n - d = l - d
    BY <1>8, <1>10 DEF IsInjective
  <2> QED
    BY <2>1, <1>1, <1>4
<1> QED
  BY <1>9, <1>10 DEF N, W

\* The places as OneHolder has them.
LEMMA HeldFacts ==
  ASSUME IInv
  PROVE  /\ DOMAIN Held = Holders
         /\ Held["rx_queue_"] = NotDispatched
         /\ \A h \in Holders \ {"rx_queue_"} : Held[h] = Where[h]
<1>1. DOMAIN Held = Holders
  BY DEF Held, Holders
<1>2. /\ Held["nicRx"] = MbufsOf(nicRx) /\ Held["rx_queue_"] = NotDispatched
      /\ Held["wsRx"] = wsRx /\ Held["msg"] = msg /\ Held["toSend"] = toSend
      /\ Held["leftover"] = leftover /\ Held["wsTx"] = wsTx /\ Held["tx_queue_"] = tx_queue_
      /\ Held["nicTx"] = nicTx /\ Held["arpTry"] = Tried
  BY DEF Held, Tried
<1>3. \A h \in Holders \ {"rx_queue_"} : Held[h] = Where[h]
  BY <1>2, BeforeStep DEF WhereFacts, Holders
<1> QED
  BY <1>1, <1>2, <1>3

\* Then every mbuf is in one place.
LEMMA AccountedOneHolder == IInv /\ InOrder /\ Accounted => OneHolder
<1> SUFFICES ASSUME IInv, InOrder, Accounted PROVE OneHolder
  OBVIOUS
<1>1. DOMAIN Where = Holders /\ DOMAIN Held = Holders
  BY HeldFacts, BeforeStep DEF WhereFacts, Contents
<1>2. Where["rx_queue_"] = Waiting /\ Held["rx_queue_"] = NotDispatched
  BY HeldFacts, BeforeStep DEF WhereFacts
<1>3. \A h \in Holders : /\ Range(Held[h]) = ToSet(Where[h])
                         /\ IsInjective(Where[h]) => IsInjective(Held[h])
  <2>1. \A h \in Holders \ {"rx_queue_"} : Held[h] = Where[h]
    BY HeldFacts
  <2>2. \A f : Range(f) = ToSet(f)
    BY DEF Range, ToSet
  <2> QED
    BY <2>1, <2>2, <1>2, NotDispatchedFacts
<1>4. /\ \A h \in Holders : IsInjective(Where[h]) /\ ToSet(Where[h]) \intersect Gone = {}
      /\ \A g, h \in Holders : g # h => ToSet(Where[g]) \intersect ToSet(Where[h]) = {}
      /\ Gone \union UNION {ToSet(Where[h]) : h \in Holders} = Mbufs
      /\ free \intersect lost = {}
  BY <1>1 DEF Accounted, Apart
<1>5. \A h \in Holders : IsInjective(Held[h]) /\ Range(Held[h]) \intersect Gone = {}
  BY <1>3, <1>4
<1>6. \A g, h \in Holders : g # h => Range(Held[g]) \intersect Range(Held[h]) = {}
  BY <1>3, <1>4
<1>7. {Range(Held[h]) : h \in Holders} = {ToSet(Where[h]) : h \in Holders}
  BY <1>3
<1>8. Gone \union UNION {Range(Held[h]) : h \in Holders} = Mbufs
  BY <1>4, <1>7
<1> QED
  BY <1>1, <1>4, <1>5, <1>6, <1>8 DEF OneHolder, Gone

\* At first no packet is there.
LEMMA InitInOrder == Init => InOrder
BY DEF Init, InOrder, DataFirst

(* Where the NIC delivers no data behind an ARP packet, and responses in mbufs  *)
(* of their own have at least as many packets as their requests, every mbuf is *)
(* in one place: dispatch_rx_pkts, app_handler, msg_handler_server and tx_burst *)
(* free none that a queue still has, put none into two queues and lose only    *)
(* ARP replies the NIC refused twice (dpdk_dispatcher_dataplane.cc:86-186).    *)
THEOREM OneHolderAlways ==
  ASSUME ~ArpMayPrecede, FreshResponses
  PROVE  Spec => []OneHolder
<1>1. Init => IInv /\ InOrder /\ Accounted
  BY InitIInv, InitInOrder, InitAccounted
<1>2. IInv /\ InOrder /\ Accounted /\ [Next]_vars => (IInv /\ InOrder /\ Accounted)'
  BY StepIInv, StepInOrder, StepAccounted
<1>3. IInv /\ InOrder /\ Accounted => OneHolder
  BY AccountedOneHolder
<1> QED
  BY <1>1, <1>2, <1>3, PTL DEF Spec

================================================================================
