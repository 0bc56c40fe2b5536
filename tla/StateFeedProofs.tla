-------------------------- MODULE StateFeedProofs ---------------------------
(***************************************************************************)
(* Proofs about a State that is fed with an archive.                       *)
(*                                                                         *)
(* Three things are proved of the loops of src/shared/state.rs.  A run of  *)
(* take_until on a buffer that is cut in two is the run on its first part  *)
(* and, when that is not over, the run on the second (TakeUntilCut); so    *)
(* take_slices depends on the concatenation of its slices only             *)
(* (SlicesAreTakenAsOne).  And on the bytes of an archive every state      *)
(* stands exactly where the bytes consumed before say (FeedInv), wherever  *)
(* the chunks end.  The third is proved where a usize holds the sizes of   *)
(* the entries: where one is larger the counter of the state is cut to a   *)
(* usize, and the machine may not go forward (MCStateFeed32.cfg).          *)
(* And the splits of a chunk in slices are exact, by SlicesProofs          *)
(* (SplitsAreExact).                                                       *)
(***************************************************************************)
EXTENDS StateFeed, SlicesProofs

-----------------------------------------------------------------------------
(* A buffer cut in two.  A transition that the first part does not exhaust *)
(* does not see the second; one that it exhausts goes on in the second.    *)
LEMMA AllZeroOf ==
  ASSUME NEW c \in Seq(Byte), NEW d \in Seq(Byte), NEW k \in Nat, k <= Len(d)
  PROVE  /\ AllZero(SubSeq(c \o d, 1, Len(c) + k)) <=> (AllZero(c) /\ AllZero(SubSeq(d, 1, k)))
<1> DEFINE p == SubSeq(c \o d, 1, Len(c) + k)
           q == SubSeq(d, 1, k)
<1>1. Len(c) \in Nat /\ Len(d) \in Nat
  BY LenProperties
<1>2. /\ c \o d \in Seq(Byte) /\ Len(c \o d) = Len(c) + Len(d)
      /\ \A i \in 1 .. Len(c) + Len(d) :
           (c \o d)[i] = IF i <= Len(c) THEN c[i] ELSE d[i - Len(c)]
  BY ConcatProperties
<1>3. Len(p) = Len(c) + k /\ \A i \in 1 .. Len(c) + k : p[i] = (c \o d)[i]
  BY <1>1, <1>2, SubSeqProperties
<1>4. Len(q) = k /\ \A i \in 1 .. k : q[i] = d[i]
  BY <1>1, SubSeqProperties
<1> HIDE DEF p, q
<1>5. ASSUME AllZero(p) PROVE AllZero(c) /\ AllZero(q)
  <2>1. ASSUME NEW i \in 1 .. Len(c) PROVE c[i] = ZeroByte
    <3>1. i \in 1 .. Len(c) + k /\ i \in 1 .. Len(c) + Len(d) /\ i <= Len(c)
      BY <1>1
    <3> QED
      BY <1>2, <1>3, <1>5, <3>1 DEF AllZero
  <2>2. ASSUME NEW i \in 1 .. k PROVE q[i] = ZeroByte
    <3>1. /\ Len(c) + i \in 1 .. Len(c) + k /\ Len(c) + i \in 1 .. Len(c) + Len(d)
          /\ ~ (Len(c) + i <= Len(c)) /\ (Len(c) + i) - Len(c) = i
      BY <1>1
    <3>2. (c \o d)[Len(c) + i] = ZeroByte
      BY <1>3, <1>5, <3>1 DEF AllZero
    <3>3. (c \o d)[Len(c) + i] = d[(Len(c) + i) - Len(c)]
      BY <1>2, <3>1
    <3> QED
      BY <1>4, <3>1, <3>2, <3>3
  <2> QED
    BY <1>4, <2>1, <2>2 DEF AllZero
<1>6. ASSUME AllZero(c), AllZero(q) PROVE AllZero(p)
  <2>1. ASSUME NEW i \in 1 .. Len(c) + k PROVE (c \o d)[i] = ZeroByte
    <3>0. i \in 1 .. Len(c) + Len(d)
      BY <1>1
    <3>1. CASE i <= Len(c)
      <4>1. i \in 1 .. Len(c)
        BY <3>1
      <4> QED
        BY <1>2, <1>6, <3>0, <3>1, <4>1 DEF AllZero
    <3>2. CASE ~ (i <= Len(c))
      <4>1. i - Len(c) \in 1 .. k
        BY <1>1, <3>2
      <4>2. (c \o d)[i] = d[i - Len(c)]
        BY <1>2, <3>0, <3>2
      <4>3. q[i - Len(c)] = d[i - Len(c)] /\ q[i - Len(c)] = ZeroByte
        BY <1>4, <1>6, <4>1 DEF AllZero
      <4> QED
        BY <4>2, <4>3
    <3> QED
      BY <3>1, <3>2
  <2> QED
    BY <1>3, <2>1 DEF AllZero
<1> QED
  BY <1>5, <1>6 DEF p, q

LEMMA AdvanceCut ==
  ASSUME NEW c \in Seq(Byte), NEW d \in Seq(Byte), NEW m \in Nat
  PROVE  /\ m <= Len(c) => /\ Advance(c, m) = m /\ Advance(c \o d, m) = m
                           /\ Fronted(c \o d, m) = Fronted(c, m)
         /\ ~ (m <= Len(c)) =>
              /\ Advance(c, m) = Len(c) /\ Fronted(c, Len(c)) = c
              /\ m - Len(c) \in Nat \ {0}
              /\ Advance(d, m - Len(c)) \in 0 .. Len(d)
              /\ Advance(c \o d, m) = Len(c) + Advance(d, m - Len(c))
              /\ (m - Len(c)) - Advance(d, m - Len(c)) = m - Advance(c \o d, m)
              /\ Advance(d, m - Len(c)) < m - Len(c) <=> Advance(c \o d, m) < m
              /\ AllZero(Fronted(c \o d, Advance(c \o d, m)))
                   <=> (AllZero(c) /\ AllZero(Fronted(d, Advance(d, m - Len(c)))))
<1>1. Len(c) \in Nat /\ Len(d) \in Nat
  BY LenProperties
<1>2. /\ c \o d \in Seq(Byte) /\ Len(c \o d) = Len(c) + Len(d)
      /\ \A i \in 1 .. Len(c) + Len(d) :
           (c \o d)[i] = IF i <= Len(c) THEN c[i] ELSE d[i - Len(c)]
  BY ConcatProperties
<1>3. CASE m <= Len(c)
  <2>1. Advance(c, m) = m /\ Advance(c \o d, m) = m
    BY <1>1, <1>2, <1>3 DEF Advance
  <2>2. Fronted(c \o d, m) = Fronted(c, m)
    <3> DEFINE p == SubSeq(c \o d, 1, m)
               q == SubSeq(c, 1, m)
    <3>1. p \in Seq(Byte) /\ Len(p) = m /\ \A i \in 1 .. m : p[i] = (c \o d)[i]
      BY <1>1, <1>2, <1>3, SubSeqProperties
    <3>2. q \in Seq(Byte) /\ Len(q) = m /\ \A i \in 1 .. m : q[i] = c[i]
      BY <1>1, <1>3, SubSeqProperties
    <3> HIDE DEF p, q
    <3>3. \A i \in 1 .. m : p[i] = q[i]
      BY <1>1, <1>2, <1>3, <3>1, <3>2
    <3>4. p = q
      BY <3>1, <3>2, <3>3, SeqEqual
    <3> QED
      BY <3>4 DEF p, q, Fronted
  <2> QED
    BY <1>3, <2>1, <2>2
<1>4. CASE ~ (m <= Len(c))
  <2> DEFINE k == Advance(d, m - Len(c))
  <2>1. Advance(c, m) = Len(c) /\ m - Len(c) \in Nat \ {0}
    BY <1>1, <1>4 DEF Advance
  <2>2. Fronted(c, Len(c)) = c
    BY SubSeqFull DEF Fronted
  <2>3. k \in 0 .. Len(d) /\ k <= m - Len(c)
    BY <1>1, <2>1 DEF Advance
  <2>4. Advance(c \o d, m) = Len(c) + k
    BY <1>1, <1>2, <1>4 DEF Advance
  <2> HIDE DEF k
  <2>5. AllZero(SubSeq(c \o d, 1, Len(c) + k)) <=> (AllZero(c) /\ AllZero(SubSeq(d, 1, k)))
    <3>1. k \in Nat /\ k <= Len(d)
      BY <2>3
    <3> QED
      BY <3>1, AllZeroOf
  <2>6. /\ (m - Len(c)) - k = m - (Len(c) + k)
        /\ (k < m - Len(c) <=> Len(c) + k < m)
    BY <1>1, <2>3
  <2> QED
    BY <1>4, <2>1, <2>2, <2>3, <2>4, <2>5, <2>6 DEF k, Fronted
<1> QED
  BY <1>3, <1>4

Crosses(s, c, d, hdr) ==
  LET r == TarNext(s, c, hdr)
      w == TarNext(s, c \o d, hdr)
      q == TarNext(r.state, d, hdr)
  IN  /\ r.err # "none" => w.err = r.err
      /\ r.err = "none" =>
           \/ w = r
           \/ /\ r.n = Len(c) /\ r.state \notin Stop
              /\ w.err = q.err
              /\ w.err = "none" => w.state = q.state /\ w.n = Len(c) + q.n

LEMMA Crossing ==
  ASSUME NEW s, CounterFits(s), NEW c \in Seq(Byte), NEW d \in Seq(Byte), NEW hdr
  PROVE  Crosses(s, c, d, hdr)
<1> DEFINE r == TarNext(s, c, hdr)
           w == TarNext(s, c \o d, hdr)
           m == s.rem
           k == Advance(d, m - Len(c))
<1>1. m \in Nat /\ s.empty \in BOOLEAN /\ GoodState(s)
  BY Canonical DEF CounterFits
<1>2. ASSUME w = r PROVE Crosses(s, c, d, hdr)
  BY <1>2 DEF Crosses
<1>3. ASSUME NEW t, r = Result(t, Len(c)), t \notin Stop,
             \/ \E u, n : w = Result(u, Len(c) + n) /\ TarNext(t, d, hdr) = Result(u, n)
             \/ \E e : w = Failure(s, e) /\ TarNext(t, d, hdr) = Failure(t, e) /\ e # "none"
      PROVE  Crosses(s, c, d, hdr)
  <2>1. r.err = "none" /\ r.state = t /\ r.n = Len(c)
    BY <1>3 DEF Result
  <2>2. CASE \E u, n : w = Result(u, Len(c) + n) /\ TarNext(t, d, hdr) = Result(u, n)
    BY <1>3, <2>1, <2>2 DEF Crosses, Result
  <2>3. CASE \E e : w = Failure(s, e) /\ TarNext(t, d, hdr) = Failure(t, e) /\ e # "none"
    BY <1>3, <2>1, <2>3 DEF Crosses, Failure
  <2> QED
    BY <1>3, <2>2, <2>3
<1>4. ASSUME m <= Len(c),
             s.tag \in {"ReceivingHeader", "ReceivingData", "AligningData", "ReceivingEof"}
      PROVE  w = r
  <2>1. Advance(c, m) = m /\ Advance(c \o d, m) = m /\ Fronted(c \o d, m) = Fronted(c, m)
    BY <1>1, <1>4, AdvanceCut
  <2>2. s.tag = "ReceivingData" => AsUsize(s.rem) = s.rem
    BY DEF CounterFits, AsUsize
  <2>3. CASE s.tag = "ReceivingHeader"
    BY <2>1, <2>3 DEF TarNext, NextReceivingHeader
  <2>4. CASE s.tag = "ReceivingData"
    BY <2>1, <2>2, <2>4 DEF TarNext, NextReceivingData
  <2>5. CASE s.tag = "AligningData"
    BY <2>1, <2>5 DEF TarNext, NextAligningData
  <2>6. CASE s.tag = "ReceivingEof"
    BY <2>1, <2>6 DEF TarNext, NextReceivingEof
  <2> QED
    BY <1>4, <2>3, <2>4, <2>5, <2>6
<1>5. ASSUME ~ (m <= Len(c))
      PROVE  /\ Advance(c, m) = Len(c) /\ Fronted(c, Len(c)) = c
             /\ m - Len(c) \in Nat \ {0} /\ Len(c) < m
             /\ k \in 0 .. Len(d)
             /\ Advance(c \o d, m) = Len(c) + k
             /\ (m - Len(c)) - k = m - (Len(c) + k)
             /\ k < m - Len(c) <=> Len(c) + k < m
             /\ AllZero(Fronted(c \o d, Len(c) + k)) <=> (AllZero(c) /\ AllZero(Fronted(d, k)))
  <2>1. Advance(c \o d, m) = Len(c) + k
    BY <1>1, <1>5, AdvanceCut
  <2>2. Len(c) \in Nat /\ m \in Nat
    BY <1>1, LenProperties
  <2>3. /\ Advance(c, m) = Len(c) /\ Fronted(c, Len(c)) = c
        /\ m - Len(c) \in Nat \ {0} /\ k \in 0 .. Len(d)
    BY <1>5, <2>2, AdvanceCut
  <2>4. /\ (m - Len(c)) - k = m - Advance(c \o d, m)
        /\ k < m - Len(c) <=> Advance(c \o d, m) < m
    BY <1>5, <2>2, AdvanceCut
  <2>5. AllZero(Fronted(c \o d, Advance(c \o d, m))) <=> (AllZero(c) /\ AllZero(Fronted(d, k)))
    BY <1>5, <2>2, AdvanceCut
  <2>6. Len(c) < m
    BY <1>5, <2>2
  <2> HIDE DEF m, k
  <2> QED
    BY <2>1, <2>3, <2>4, <2>5, <2>6
<1> HIDE DEF r, w, k, m
<1>6. CASE s.tag = "ReceivingHeader"
  <2>1. CASE m <= Len(c)
    BY <1>2, <1>4, <1>6, <2>1
  <2>2. CASE ~ (m <= Len(c))
    <3> DEFINE e == s.empty /\ AllZero(c)
               t == ReceivingHeader(m - Len(c), e)
    <3>1. r = Result(t, Len(c))
      <4>1. r = NextReceivingHeader(s, c)
        BY <1>6 DEF r, TarNext
      <4> QED
        BY <1>5, <2>2, <4>1 DEF NextReceivingHeader, m
    <3>2. t \notin Stop
      BY DEF ReceivingHeader, Stop, ReceivedHeader, ReceivedEof, St
    <3>3. t.tag = "ReceivingHeader" /\ t.rem = m - Len(c) /\ t.empty = e
      BY DEF ReceivingHeader, St
    <3> DEFINE f == e /\ AllZero(Fronted(d, k))
               q == TarNext(t, d, hdr)
    <3>4. w = IF Len(c) + k < m
              THEN Result(ReceivingHeader(m - (Len(c) + k),
                            s.empty /\ AllZero(Fronted(c \o d, Len(c) + k))), Len(c) + k)
              ELSE IF s.empty /\ AllZero(Fronted(c \o d, Len(c) + k))
              THEN Result(ReceivingEof(BlockSize), Len(c) + k)
              ELSE Result(ReceivedHeader, Len(c) + k)
      <4>1. w = NextReceivingHeader(s, c \o d)
        BY <1>6 DEF w, TarNext
      <4> QED
        BY <1>5, <2>2, <4>1 DEF NextReceivingHeader, m
    <3>5. (s.empty /\ AllZero(Fronted(c \o d, Len(c) + k))) = f
      BY <1>5, <2>2
    <3>6. q = IF k < m - Len(c) THEN Result(ReceivingHeader((m - Len(c)) - k, f), k)
              ELSE IF f THEN Result(ReceivingEof(BlockSize), k)
              ELSE Result(ReceivedHeader, k)
      <4>1. q = NextReceivingHeader(t, d)
        BY <3>3 DEF TarNext
      <4> HIDE DEF t, q
      <4> QED
        BY <3>3, <4>1 DEF NextReceivingHeader, k
    <3> HIDE DEF f, t, q
    <3>7. (m - Len(c)) - k = m - (Len(c) + k) /\ (k < m - Len(c) <=> Len(c) + k < m)
      BY <1>5, <2>2
    <3>8. \E u, n : w = Result(u, Len(c) + n) /\ q = Result(u, n)
      BY <3>4, <3>5, <3>6, <3>7
    <3> QED
      BY <1>3, <3>1, <3>2, <3>8 DEF q
  <2> QED
    BY <2>1, <2>2
<1>7. CASE s.tag = "ReceivingData"
  <2>1. CASE m <= Len(c)
    BY <1>2, <1>4, <1>7, <2>1
  <2>2. CASE ~ (m <= Len(c))
    <3> DEFINE t == ReceivingData(m - Len(c))
               q == TarNext(t, d, hdr)
    <3>0. AsUsize(m) = m /\ AsUsize(m - Len(c)) = m - Len(c)
      <4>1. m < UsizeMod /\ Len(c) \in Nat
        BY <1>7, LenProperties DEF CounterFits, m
      <4>2. m - Len(c) < UsizeMod
        BY <1>1, <4>1, UsizeAssumption
      <4> QED
        BY <4>1, <4>2 DEF AsUsize
    <3>1. r = Result(t, Len(c))
      <4>1. r = NextReceivingData(s, c)
        BY <1>7 DEF r, TarNext
      <4> QED
        BY <1>5, <2>2, <3>0, <4>1 DEF NextReceivingData, m
    <3>2. t \notin Stop
      BY DEF ReceivingData, Stop, ReceivedHeader, ReceivedEof, St
    <3>3. t.tag = "ReceivingData" /\ t.rem = m - Len(c)
      BY DEF ReceivingData, St
    <3>4. w = IF Len(c) + k < m THEN Result(ReceivingData(m - (Len(c) + k)), Len(c) + k)
              ELSE Result(ReceivedData, Len(c) + k)
      <4>1. w = NextReceivingData(s, c \o d)
        BY <1>7 DEF w, TarNext
      <4> QED
        BY <1>5, <2>2, <3>0, <4>1 DEF NextReceivingData, m
    <3>5. q = IF k < m - Len(c) THEN Result(ReceivingData((m - Len(c)) - k), k)
              ELSE Result(ReceivedData, k)
      <4>1. q = NextReceivingData(t, d)
        BY <3>3 DEF TarNext
      <4> HIDE DEF t, q
      <4> QED
        BY <3>0, <3>3, <4>1 DEF NextReceivingData, k
    <3> HIDE DEF t, q
    <3>6. (m - Len(c)) - k = m - (Len(c) + k) /\ (k < m - Len(c) <=> Len(c) + k < m)
      BY <1>5, <2>2
    <3>7. \E u, n : w = Result(u, Len(c) + n) /\ q = Result(u, n)
      BY <3>4, <3>5, <3>6
    <3> QED
      BY <1>3, <3>1, <3>2, <3>7 DEF q
  <2> QED
    BY <2>1, <2>2
<1>8. CASE s.tag = "AligningData"
  <2>1. CASE m <= Len(c)
    BY <1>2, <1>4, <1>8, <2>1
  <2>2. CASE ~ (m <= Len(c))
    <3> DEFINE t == AligningData(m - Len(c))
               q == TarNext(t, d, hdr)
    <3>1. r = Result(t, Len(c))
      <4>1. r = NextAligningData(s, c)
        BY <1>8 DEF r, TarNext
      <4> QED
        BY <1>5, <2>2, <4>1 DEF NextAligningData, m
    <3>2. t \notin Stop
      BY DEF AligningData, Stop, ReceivedHeader, ReceivedEof, St
    <3>3. t.tag = "AligningData" /\ t.rem = m - Len(c)
      BY DEF AligningData, St
    <3>4. w = IF Len(c) + k < m THEN Result(AligningData(m - (Len(c) + k)), Len(c) + k)
              ELSE Result(AlignedData, Len(c) + k)
      <4>1. w = NextAligningData(s, c \o d)
        BY <1>8 DEF w, TarNext
      <4> QED
        BY <1>5, <2>2, <4>1 DEF NextAligningData, m
    <3>5. q = IF k < m - Len(c) THEN Result(AligningData((m - Len(c)) - k), k)
              ELSE Result(AlignedData, k)
      <4>1. q = NextAligningData(t, d)
        BY <3>3 DEF TarNext
      <4> HIDE DEF t, q
      <4> QED
        BY <3>3, <4>1 DEF NextAligningData, k
    <3> HIDE DEF t, q
    <3>6. (m - Len(c)) - k = m - (Len(c) + k) /\ (k < m - Len(c) <=> Len(c) + k < m)
      BY <1>5, <2>2
    <3>7. \E u, n : w = Result(u, Len(c) + n) /\ q = Result(u, n)
      BY <3>4, <3>5, <3>6
    <3> QED
      BY <1>3, <3>1, <3>2, <3>7 DEF q
  <2> QED
    BY <2>1, <2>2
<1>9. CASE s.tag = "ReceivingEof"
  <2>1. CASE m <= Len(c)
    BY <1>2, <1>4, <1>9, <2>1
  <2>2. CASE ~ (m <= Len(c))
    <3> DEFINE t == ReceivingEof(m - Len(c))
               q == TarNext(t, d, hdr)
    <3>1. r = IF ~ AllZero(c) THEN Failure(s, "ExpectingEmptyBlock") ELSE Result(t, Len(c))
      <4>1. r = NextReceivingEof(s, c)
        BY <1>9 DEF r, TarNext
      <4> QED
        BY <1>5, <2>2, <4>1 DEF NextReceivingEof, m
    <3>2. t \notin Stop
      BY DEF ReceivingEof, Stop, ReceivedHeader, ReceivedEof, St
    <3>3. t.tag = "ReceivingEof" /\ t.rem = m - Len(c)
      BY DEF ReceivingEof, St
    <3>4. w = IF ~ (AllZero(c) /\ AllZero(Fronted(d, k)))
              THEN Failure(s, "ExpectingEmptyBlock")
              ELSE IF Len(c) + k < m THEN Result(ReceivingEof(m - (Len(c) + k)), Len(c) + k)
              ELSE Result(ReceivedEof, Len(c) + k)
      <4>1. w = NextReceivingEof(s, c \o d)
        BY <1>9 DEF w, TarNext
      <4> QED
        BY <1>5, <2>2, <4>1 DEF NextReceivingEof, m
    <3>5. q = IF ~ AllZero(Fronted(d, k)) THEN Failure(t, "ExpectingEmptyBlock")
              ELSE IF k < m - Len(c) THEN Result(ReceivingEof((m - Len(c)) - k), k)
              ELSE Result(ReceivedEof, k)
      <4>1. q = NextReceivingEof(t, d)
        BY <3>3 DEF TarNext
      <4> HIDE DEF t, q
      <4> QED
        BY <3>3, <4>1 DEF NextReceivingEof, k
    <3> HIDE DEF t, q
    <3>6. (m - Len(c)) - k = m - (Len(c) + k) /\ (k < m - Len(c) <=> Len(c) + k < m)
      BY <1>5, <2>2
    <3>7. CASE ~ AllZero(c)
      <4>1. r.err = "ExpectingEmptyBlock" /\ w.err = "ExpectingEmptyBlock"
        BY <3>1, <3>4, <3>7 DEF Failure
      <4> QED
        BY <4>1 DEF Crosses, r, w
    <3>8. CASE AllZero(c) /\ AllZero(Fronted(d, k))
      <4>1. \E u, n : w = Result(u, Len(c) + n) /\ q = Result(u, n)
        BY <3>4, <3>5, <3>6, <3>8
      <4>2. r = Result(t, Len(c))
        BY <3>1, <3>8
      <4> QED
        BY <1>3, <3>2, <4>1, <4>2 DEF q
    <3>9. CASE AllZero(c) /\ ~ AllZero(Fronted(d, k))
      <4>1. \E e : w = Failure(s, e) /\ q = Failure(t, e) /\ e # "none"
        BY <3>4, <3>5, <3>9
      <4>2. r = Result(t, Len(c))
        BY <3>1, <3>9
      <4> QED
        BY <1>3, <3>2, <4>1, <4>2 DEF q
    <3> QED
      BY <3>7, <3>8, <3>9
  <2> QED
    BY <2>1, <2>2
<1>10. CASE s.tag \in {"ExpectingHeader", "ReceivedHeader", "ReceivedData", "AlignedData",
                       "ReceivedEof"}
  <2>1. w = r
    BY <1>10 DEF TarNext, r, w
  <2> QED
    BY <1>2, <2>1
<1>11. s.tag \in Tags
  BY <1>1 DEF GoodState, StateType
<1> QED
  BY <1>6, <1>7, <1>8, <1>9, <1>10, <1>11 DEF Tags

-----------------------------------------------------------------------------
Unfinished(x) == x.err = "none" /\ x.state \notin Stop

GoOn(s, n) == [state |-> s, n |-> n, err |-> "more"]

LEMMA RestOfCut ==
  ASSUME NEW c \in Seq(Byte), NEW d \in Seq(Byte), NEW n \in Nat
  PROVE  /\ c \o d \in Seq(Byte) /\ Len(c \o d) = Len(c) + Len(d)
         /\ n <= Len(c) => SubSeq(c \o d, n + 1, Len(c \o d)) = SubSeq(c, n + 1, Len(c)) \o d
         /\ n <= Len(d) => SubSeq(c \o d, (Len(c) + n) + 1, Len(c \o d)) = SubSeq(d, n + 1, Len(d))
<1> DEFINE b == c \o d
<1>1. Len(c) \in Nat /\ Len(d) \in Nat
  BY LenProperties
<1>2. /\ b \in Seq(Byte) /\ Len(b) = Len(c) + Len(d)
      /\ \A i \in 1 .. Len(c) + Len(d) : b[i] = IF i <= Len(c) THEN c[i] ELSE d[i - Len(c)]
  BY ConcatProperties
<1> HIDE DEF b
<1>3. ASSUME n <= Len(c)
      PROVE  SubSeq(b, n + 1, Len(b)) = SubSeq(c, n + 1, Len(c)) \o d
  <2> DEFINE p == SubSeq(b, n + 1, Len(b))
             q == SubSeq(c, n + 1, Len(c))
             e == q \o d
  <2>1. n <= Len(b) /\ Len(b) - n = (Len(c) - n) + Len(d)
    BY <1>1, <1>2, <1>3
  <2>2. p \in Seq(Byte) /\ Len(p) = Len(b) - n /\ \A i \in 1 .. Len(b) - n : p[i] = b[n + i]
    BY <1>2, <2>1, RestOf
  <2>3. q \in Seq(Byte) /\ Len(q) = Len(c) - n /\ \A i \in 1 .. Len(c) - n : q[i] = c[n + i]
    BY <1>3, RestOf
  <2> HIDE DEF p, q
  <2>4. /\ e \in Seq(Byte) /\ Len(e) = Len(q) + Len(d)
        /\ \A i \in 1 .. Len(q) + Len(d) : e[i] = IF i <= Len(q) THEN q[i] ELSE d[i - Len(q)]
    BY <2>3, ConcatProperties
  <2> HIDE DEF e
  <2>5. ASSUME NEW i \in 1 .. Len(p) PROVE p[i] = e[i]
    <3>1. /\ i \in 1 .. Len(b) - n /\ n + i \in 1 .. Len(c) + Len(d)
          /\ i \in 1 .. Len(q) + Len(d)
      BY <1>1, <1>2, <2>1, <2>2, <2>3
    <3>2. CASE i <= Len(q)
      <4>1. i \in 1 .. Len(c) - n /\ n + i <= Len(c)
        BY <1>1, <1>3, <2>3, <3>1, <3>2
      <4> QED
        BY <1>2, <2>2, <2>3, <2>4, <3>1, <3>2, <4>1
    <3>3. CASE ~ (i <= Len(q))
      <4>1. ~ (n + i <= Len(c)) /\ (n + i) - Len(c) = i - Len(q)
        BY <1>1, <1>3, <2>3, <3>1, <3>3
      <4>2. b[n + i] = d[(n + i) - Len(c)]
        BY <1>2, <3>1, <4>1
      <4> QED
        BY <2>2, <2>4, <3>1, <3>3, <4>1, <4>2
    <3> QED
      BY <3>2, <3>3
  <2>6. Len(p) = Len(e)
    BY <2>1, <2>2, <2>3, <2>4
  <2> QED
    BY <2>2, <2>4, <2>5, <2>6, SeqEqual DEF p, e, q
<1>4. ASSUME n <= Len(d)
      PROVE  SubSeq(b, (Len(c) + n) + 1, Len(b)) = SubSeq(d, n + 1, Len(d))
  <2> DEFINE p == SubSeq(b, (Len(c) + n) + 1, Len(b))
             q == SubSeq(d, n + 1, Len(d))
             j == Len(c) + n
  <2>1. j \in Nat /\ j <= Len(b) /\ Len(b) - j = Len(d) - n
    BY <1>1, <1>2, <1>4
  <2>2. p \in Seq(Byte) /\ Len(p) = Len(b) - j /\ \A i \in 1 .. Len(b) - j : p[i] = b[j + i]
    BY <1>2, <2>1, RestOf
  <2>3. q \in Seq(Byte) /\ Len(q) = Len(d) - n /\ \A i \in 1 .. Len(d) - n : q[i] = d[n + i]
    BY <1>4, RestOf
  <2> HIDE DEF p, q
  <2>4. ASSUME NEW i \in 1 .. Len(p) PROVE p[i] = q[i]
    <3>1. /\ i \in 1 .. Len(b) - j /\ i \in 1 .. Len(d) - n
          /\ j + i \in 1 .. Len(c) + Len(d) /\ ~ (j + i <= Len(c))
          /\ (j + i) - Len(c) = n + i
      BY <1>1, <1>2, <2>1, <2>2
    <3>2. b[j + i] = d[(j + i) - Len(c)]
      BY <1>2, <3>1
    <3> QED
      BY <2>2, <2>3, <3>1, <3>2
  <2>5. Len(p) = Len(q)
    BY <2>1, <2>2, <2>3
  <2> QED
    BY <2>2, <2>3, <2>4, <2>5, SeqEqual DEF p, q
<1> QED
  BY <1>2, <1>3, <1>4 DEF b

(* Rounds from a run that has ended, or is about to.                       *)
LEMMA RoundsIdle ==
  ASSUME NEW acc \in Taken, acc.err # "more", NEW b, NEW hdr
  PROVE  Rounds(acc, b, hdr) = acc
<1> DEFINE step == TakeStep(b, hdr)
<1>1. step[acc] = acc
  BY StepIdle
<1> HIDE DEF step
<1>2. step[step[step[step[step[step[step[step[acc]]]]]]]] = acc
  BY <1>1
<1> QED
  BY <1>2 DEF Rounds, step

(* A run over the first part of a buffer, and the same run over both: they *)
(* end alike, or the second goes on where the first exhausted its part.    *)
Continues(acc, c, d, hdr) ==
  LET part  == Rounds(acc, c, hdr)
      whole == Rounds(acc, c \o d, hdr)
  IN  IF Unfinished(part)
      THEN part.n = Len(c) /\ Same(whole, Rounds(GoOn(part.state, Len(c)), c \o d, hdr))
      ELSE Same(whole, part)

LEMMA ContinuesOne ==
  ASSUME NEW c \in Seq(Byte), NEW d \in Seq(Byte), Len(d) > 0, NEW hdr, SizeFits(hdr),
         NEW acc, Going(acc, c), acc.err = "more",
         \A x : /\ Going(x, c) /\ x.err = "more"
                /\ Rank(x.state) < Rank(acc.state)
                => Continues(x, c, d, hdr)
  PROVE  Continues(acc, c, d, hdr)
<1> DEFINE b    == c \o d
           a    == acc.n
           rest == SubSeq(c, a + 1, Len(c))
           r    == TarNext(acc.state, rest, hdr)
           w    == TarNext(acc.state, rest \o d, hdr)
           q    == TarNext(r.state, d, hdr)
           inC  == TakeStep(c, hdr)[acc]
           inB  == TakeStep(b, hdr)[acc]
           part == Rounds(acc, c, hdr)
           whole == Rounds(acc, b, hdr)
<1>1. /\ acc \in Taken /\ a \in Nat /\ a <= Len(c) /\ CounterFits(acc.state)
      /\ Len(c) \in Nat /\ Len(d) \in Nat /\ acc.state \in StateType
  BY LenProperties DEF Going, Taken
<1>2. /\ b \in Seq(Byte) /\ Len(b) = Len(c) + Len(d)
      /\ SubSeq(b, a + 1, Len(b)) = rest \o d
      /\ SubSeq(b, Len(c) + 1, Len(b)) = d
  <2>1. /\ b \in Seq(Byte) /\ Len(b) = Len(c) + Len(d)
        /\ SubSeq(b, a + 1, Len(b)) = rest \o d
    BY <1>1, RestOfCut
  <2>2. SubSeq(b, (Len(c) + 0) + 1, Len(b)) = SubSeq(d, 0 + 1, Len(d))
    <3>1. 0 \in Nat /\ 0 <= Len(d)
      BY <1>1
    <3> QED
      BY <3>1, RestOfCut
  <2>3. SubSeq(d, 1, Len(d)) = d
    BY SubSeqFull
  <2>4. (Len(c) + 0) + 1 = Len(c) + 1 /\ 0 + 1 = 1
    BY <1>1
  <2> QED
    BY <2>1, <2>2, <2>3, <2>4
<1>3. rest \in Seq(Byte) /\ Len(rest) = Len(c) - a
  BY <1>1, RestOf
<1> HIDE DEF b, rest
<1>4. Crosses(acc.state, rest, d, hdr)
  BY <1>1, <1>3, Crossing
<1>5. /\ r.n \in 0 .. Len(rest) /\ CounterFits(r.state)
      /\ r.err = "none" /\ r.state \notin Stop =>
            r.n = Len(rest) \/ Rank(r.state) < Rank(acc.state)
  BY <1>1, <1>3, TarNextDescends
<1>6. inC = TakenAfter(a, c, r) /\ inB = TakenAfter(a, b, w)
  BY <1>1, <1>2, StepIs DEF rest
<1>7. /\ Going(inC, c) /\ Going(inB, b) /\ Going(acc, b)
  <2>1. Going(acc, b)
    <3>1. acc.n <= Len(b)
      BY <1>1, <1>2
    <3> QED
      BY <3>1 DEF Going
  <2> QED
    BY <1>2, <2>1, OneRound
<1>8. part = Rounds(inC, c, hdr) /\ whole = Rounds(inB, b, hdr)
  BY <1>2, <1>7, RoundsEnd
<1>9. /\ r.err # "none" => w.err = r.err
      /\ r.err = "none" =>
           \/ w = r
           \/ /\ r.n = Len(rest) /\ r.state \notin Stop
              /\ w.err = q.err
              /\ w.err = "none" => w.state = q.state /\ w.n = Len(rest) + q.n
  BY <1>4 DEF Crosses
<1>10. r.err \in Errors /\ w.err \in Errors /\ w.n \in Nat
  <2>1. hdr \in Header
    BY DEF SizeFits
  <2>2. rest \o d \in Seq(Byte)
    BY <1>3, ConcatProperties
  <2>3. r.err \in Errors
    BY <1>1, <1>3, <2>1, TarNextType
  <2>4. w.err \in Errors /\ w.n \in 0 .. Len(rest \o d)
    BY <1>1, <2>1, <2>2, TarNextType
  <2> QED
    BY <2>3, <2>4
<1>11. Continues(acc, c, d, hdr) <=>
         IF Unfinished(part)
         THEN part.n = Len(c) /\ Same(whole, Rounds(GoOn(part.state, Len(c)), b, hdr))
         ELSE Same(whole, part)
  BY DEF Continues, b
<1>12. \A x : Going(x, c) /\ x.err = "more" /\ Rank(x.state) < Rank(acc.state) =>
         Continues(x, c, d, hdr)
  OBVIOUS
<1>13. "more" \notin Errors
  BY DEF Errors
<1>14. ASSUME NEW x, Going(x, b) \/ Going(x, c), x.err # "more"
       PROVE  Rounds(x, b, hdr) = x /\ Rounds(x, c, hdr) = x
  BY <1>14, RoundsIdle DEF Going
<1> HIDE DEF a, r, w, q, inC, inB, part, whole
<1>15. /\ inC = [state |-> r.state, n |-> a + r.n,
                err |-> IF r.err = "none" /\ r.state \notin Stop /\ a + r.n < Len(c)
                        THEN "more" ELSE r.err]
       /\ inB = [state |-> w.state, n |-> a + w.n,
                err |-> IF w.err = "none" /\ w.state \notin Stop /\ a + w.n < Len(b)
                        THEN "more" ELSE w.err]
  BY <1>6 DEF TakenAfter
<1>16. ASSUME w.err # "none" PROVE whole.err = w.err
  <2>1. inB.err = w.err /\ inB.err # "more"
    BY <1>10, <1>13, <1>15, <1>16
  <2> QED
    BY <1>7, <1>8, <1>14, <2>1
<1>20. CASE r.err # "none"
  <2>1. inC.err = r.err /\ inC.err # "more"
    BY <1>10, <1>13, <1>15, <1>20
  <2>2. part = inC
    BY <1>7, <1>8, <1>14, <2>1
  <2>3. whole.err = r.err
    BY <1>9, <1>16, <1>20
  <2> QED
    BY <1>11, <1>20, <2>1, <2>2, <2>3 DEF Same, Unfinished
<1>21. CASE r.err = "none" /\ r.state \in Stop
  <2>1. w = r
    BY <1>9, <1>21
  <2>2. inC = inB /\ inC.err = "none" /\ inC.state = r.state
    BY <1>15, <1>21, <2>1
  <2>3. part = inC /\ whole = inC
    BY <1>7, <1>8, <1>14, <2>2
  <2> QED
    BY <1>11, <1>21, <2>2, <2>3 DEF Same, Unfinished
<1>22. CASE r.err = "none" /\ r.state \notin Stop /\ a + r.n < Len(c)
  <2>1. r.n # Len(rest)
    BY <1>1, <1>3, <1>5, <1>22
  <2>2. w = r
    BY <1>9, <1>22, <2>1
  <2>3. a + r.n < Len(b)
    BY <1>1, <1>2, <1>3, <1>5, <1>22
  <2>4. inC = inB /\ inC.err = "more" /\ inC.state = r.state
    BY <1>15, <1>22, <2>2, <2>3
  <2>5. Rank(inC.state) < Rank(acc.state)
    BY <1>5, <1>22, <2>1, <2>4
  <2>6. Continues(inC, c, d, hdr)
    BY <1>7, <1>12, <2>4, <2>5
  <2>7. IF Unfinished(part)
        THEN part.n = Len(c) /\ Same(whole, Rounds(GoOn(part.state, Len(c)), b, hdr))
        ELSE Same(whole, part)
    BY <1>8, <2>4, <2>6 DEF Continues, b
  <2> QED
    BY <1>11, <2>7
<1>23. CASE r.err = "none" /\ r.state \notin Stop /\ a + r.n = Len(c)
  <2> DEFINE go == GoOn(r.state, Len(c))
  <2>1. inC = [state |-> r.state, n |-> Len(c), err |-> "none"]
    BY <1>1, <1>15, <1>23
  <2>2. part = inC
    BY <1>7, <1>8, <1>14, <2>1
  <2>3. Unfinished(part) /\ part.n = Len(c) /\ part.state = r.state
    BY <1>23, <2>1, <2>2 DEF Unfinished
  <2>4. SUFFICES Same(whole, Rounds(go, b, hdr))
    BY <1>11, <2>3
  <2>5. go.state = r.state /\ go.n = Len(c) /\ go.err = "more"
    BY DEF GoOn
  <2>6. Going(go, b)
    <3>1. r.state \in StateType
      BY <1>5 DEF CounterFits, GoodState
    <3>2. Len(c) <= Len(b)
      BY <1>1, <1>2
    <3> QED
      BY <1>1, <1>5, <3>1, <3>2 DEF Going, Taken, GoOn
  <2>7. CASE w = r
    <3>1. a + r.n < Len(b)
      BY <1>1, <1>2, <1>23
    <3>2. inB = go
      BY <1>15, <1>23, <2>7, <3>1 DEF GoOn
    <3> QED
      BY <1>8, <3>2 DEF Same
  <2>8. CASE w # r
    <3>1. /\ r.n = Len(rest) /\ w.err = q.err
          /\ w.err = "none" => w.state = q.state /\ w.n = Len(rest) + q.n
      BY <1>9, <1>23, <2>8
    <3> DEFINE next == TakeStep(b, hdr)[go]
    <3>2. next = TakenAfter(Len(c), b, q)
      <4>1. q = TarNext(go.state, SubSeq(b, go.n + 1, Len(b)), hdr)
        BY <1>2, <2>5 DEF q
      <4>2. go \in Taken
        BY <2>6 DEF Going
      <4> HIDE DEF go
      <4> QED
        BY <2>5, <4>1, <4>2, StepIs
    <3>3. Rounds(go, b, hdr) = Rounds(next, b, hdr) /\ Going(next, b)
      BY <1>2, <2>6, RoundsEnd, OneRound
    <3>4. q.n \in Nat
      <4>1. r.state \in StateType /\ hdr \in Header
        BY <1>5 DEF CounterFits, GoodState, SizeFits
      <4>2. q.n \in 0 .. Len(d)
        BY <4>1, TarNextType DEF q
      <4> QED
        BY <4>2
    <3> HIDE DEF go, next
    <3>5. next = [state |-> q.state, n |-> Len(c) + q.n,
                  err |-> IF q.err = "none" /\ q.state \notin Stop /\ Len(c) + q.n < Len(b)
                          THEN "more" ELSE q.err]
      BY <3>2 DEF TakenAfter
    <3>6. CASE w.err = "none"
      <4>1. a + w.n = Len(c) + q.n
        <5>1. w.n = Len(rest) + q.n
          BY <3>1, <3>6
        <5> QED
          BY <1>1, <1>3, <3>4, <5>1
      <4>2. next = inB
        BY <1>15, <3>1, <3>5, <3>6, <4>1
      <4> QED
        BY <1>8, <3>3, <4>2 DEF Same
    <3>7. CASE w.err # "none"
      <4>1. next.err = q.err /\ next.err # "more"
        BY <1>10, <1>13, <3>1, <3>5, <3>7
      <4>2. Rounds(go, b, hdr) = next
        BY <1>14, <3>3, <4>1
      <4>3. whole.err = w.err
        BY <1>16, <3>7
      <4> QED
        BY <3>1, <3>7, <4>1, <4>2, <4>3 DEF Same
    <3> QED
      BY <3>6, <3>7
  <2> QED
    BY <2>7, <2>8
<1>24. a + r.n < Len(c) \/ a + r.n = Len(c)
  BY <1>1, <1>3, <1>5
<1> QED
  BY <1>20, <1>21, <1>22, <1>23, <1>24

LEMMA ContinuesAll ==
  ASSUME NEW c \in Seq(Byte), NEW d \in Seq(Byte), Len(d) > 0, NEW hdr, SizeFits(hdr),
         NEW acc, Going(acc, c), acc.err = "more"
  PROVE  Continues(acc, c, d, hdr)
<1> DEFINE T == {m \in 0 .. 9 : \A x : Going(x, c) /\ x.err = "more" /\ Rank(x.state) < m =>
                                  Continues(x, c, d, hdr)}
<1>1. ASSUME NEW x, Going(x, c) PROVE Rank(x.state) \in 0 .. 8
  BY <1>1, RankRange DEF Going, CounterFits, GoodState
<1>2. 0 \in T
  <2>1. 0 \in 0 .. 9
    OBVIOUS
  <2>2. ASSUME NEW x, Going(x, c), Rank(x.state) < 0 PROVE FALSE
    BY <1>1, <2>2
  <2> QED
    BY <2>1, <2>2
<1>3. ASSUME NEW m \in 0 .. 9 - 1, m \in T PROVE m + 1 \in T
  <2>1. m + 1 \in 0 .. 9
    OBVIOUS
  <2>2. ASSUME NEW x, Going(x, c), x.err = "more", Rank(x.state) < m + 1
        PROVE  Continues(x, c, d, hdr)
    <3>1. ASSUME NEW y, Going(y, c), y.err = "more", Rank(y.state) < Rank(x.state)
          PROVE  Continues(y, c, d, hdr)
      <4>1. Rank(y.state) < m
        BY <1>1, <2>2, <3>1
      <4> QED
        BY <1>3, <3>1, <4>1
    <3> QED
      BY <2>2, <3>1, ContinuesOne
  <2> HIDE DEF T
  <2>3. (m + 1 \in 0 .. 9 /\ \A x : Going(x, c) /\ x.err = "more" /\ Rank(x.state) < m + 1 =>
                                     Continues(x, c, d, hdr)) => m + 1 \in T
    BY DEF T
  <2> QED
    BY <2>1, <2>2, <2>3
<1>4. 0 .. 9 \subseteq T
  <2> HIDE DEF T
  <2>1. 9 \in Nat
    OBVIOUS
  <2> QED
    BY <1>2, <1>3, <2>1, UpTo
<1>5. 9 \in T
  <2>1. 9 \in 0 .. 9
    OBVIOUS
  <2> HIDE DEF T
  <2> QED
    BY <1>4, <2>1
<1>6. Rank(acc.state) < 9
  BY <1>1
<1> QED
  BY <1>5, <1>6

(* Over the second part alone the same run is `k' bytes behind.            *)
Ahead(x, k) == [state |-> x.state, n |-> k + x.n, err |-> x.err]

LEMMA AheadStep ==
  ASSUME NEW c \in Seq(Byte), NEW d \in Seq(Byte), NEW hdr, SizeFits(hdr),
         NEW x, Going(x, d)
  PROVE  /\ TakeStep(c \o d, hdr)[Ahead(x, Len(c))] = Ahead(TakeStep(d, hdr)[x], Len(c))
         /\ Going(TakeStep(d, hdr)[x], d)
<1> DEFINE b == c \o d
           k == Len(c)
           far == Ahead(x, k)
<1>1. /\ x \in Taken /\ x.n \in Nat /\ x.n <= Len(d) /\ CounterFits(x.state)
      /\ Len(d) \in Nat /\ k \in Nat
  BY LenProperties DEF Going, Taken
<1>2. /\ Len(b) = k + Len(d)
      /\ SubSeq(b, (k + x.n) + 1, Len(b)) = SubSeq(d, x.n + 1, Len(d))
  BY <1>1, RestOfCut
<1>3. far \in Taken /\ far.state = x.state /\ far.n = k + x.n /\ far.err = x.err
  BY <1>1 DEF Ahead, Taken
<1>4. Going(TakeStep(d, hdr)[x], d)
  BY OneRound
<1> HIDE DEF b, far, k
<1>5. CASE x.err # "more"
  <2>1. TakeStep(b, hdr)[far] = far /\ TakeStep(d, hdr)[x] = x
    BY <1>1, <1>3, <1>5, StepIdle
  <2> QED
    BY <1>4, <2>1 DEF b, far, k
<1>6. CASE x.err = "more"
  <2> DEFINE rest == SubSeq(d, x.n + 1, Len(d))
             r == TarNext(x.state, rest, hdr)
  <2>1. TakeStep(d, hdr)[x] = TakenAfter(x.n, d, r)
    BY <1>1, <1>6, StepIs
  <2>2. TakeStep(b, hdr)[far] = TakenAfter(k + x.n, b, r)
    <3>1. r = TarNext(far.state, SubSeq(b, far.n + 1, Len(b)), hdr)
      BY <1>2, <1>3
    <3> HIDE DEF r
    <3> QED
      BY <1>3, <1>6, <3>1, StepIs
  <2>3. r.n \in Nat
    <3>1. rest \in Seq(Byte) /\ x.state \in StateType /\ hdr \in Header
      BY <1>1, RestOf DEF CounterFits, GoodState, SizeFits
    <3>2. r.n \in 0 .. Len(rest)
      BY <3>1, TarNextType
    <3> QED
      BY <3>2
  <2> HIDE DEF r
  <2>4. (k + x.n) + r.n = k + (x.n + r.n) /\ (k + (x.n + r.n) < Len(b) <=> x.n + r.n < Len(d))
    <3> DEFINE p == x.n
               q == r.n
               lb == Len(b)
               ld == Len(d)
    <3>1. k \in Nat /\ p \in Nat /\ q \in Nat /\ ld \in Nat /\ lb = k + ld
      BY <1>1, <1>2, <2>3
    <3> HIDE DEF p, q, lb, ld
    <3>2. (k + p) + q = k + (p + q) /\ (k + (p + q) < lb <=> p + q < ld)
      BY <3>1
    <3> QED
      BY <3>2 DEF p, q, lb, ld
  <2>5. TakenAfter(k + x.n, b, r) = Ahead(TakenAfter(x.n, d, r), k)
    BY <2>4 DEF TakenAfter, Ahead
  <2> QED
    BY <1>4, <2>1, <2>2, <2>5 DEF b, far, k
<1> QED
  BY <1>5, <1>6

LEMMA AheadRounds ==
  ASSUME NEW c \in Seq(Byte), NEW d \in Seq(Byte), NEW hdr, SizeFits(hdr),
         NEW x, Going(x, d)
  PROVE  Rounds(Ahead(x, Len(c)), c \o d, hdr) = Ahead(Rounds(x, d, hdr), Len(c))
<1> DEFINE far == TakeStep(c \o d, hdr)
           step == TakeStep(d, hdr)
           H(y) == Ahead(y, Len(c))
           G(y) == Going(y, d)
<1>1. ASSUME NEW y, G(y) PROVE far[H(y)] = H(step[y]) /\ G(step[y])
  BY <1>1, AheadStep
<1>2. G(x) /\ H(x) = Ahead(x, Len(c))
  OBVIOUS
<1>3. /\ Rounds(Ahead(x, Len(c)), c \o d, hdr)
           = far[far[far[far[far[far[far[far[H(x)]]]]]]]]
      /\ Ahead(Rounds(x, d, hdr), Len(c))
           = H(step[step[step[step[step[step[step[step[x]]]]]]]])
  BY DEF Rounds
<1> HIDE DEF far, step, H, G
<1>4. ASSUME NEW y, G(y)
      PROVE  far[far[far[far[H(y)]]]] = H(step[step[step[step[y]]]]) /\ G(step[step[step[step[y]]]])
  BY <1>1, <1>4
<1>5. far[far[far[far[far[far[far[far[H(x)]]]]]]]]
           = H(step[step[step[step[step[step[step[step[x]]]]]]]])
  BY <1>2, <1>4
<1> QED
  BY <1>3, <1>5

(* take_until over a buffer that is cut in two: the second part is looked  *)
(* at only when the first was taken whole, and from the state it left.     *)
THEOREM TakeUntilCut ==
  ASSUME NEW s, CounterFits(s), NEW c \in Seq(Byte), NEW d \in Seq(Byte), Len(d) > 0,
         NEW hdr, SizeFits(hdr)
  PROVE  LET part == TakeUntil(s, c, hdr)
             whole == TakeUntil(s, c \o d, hdr)
         IN  IF Unfinished(part)
             THEN /\ part.n = Len(c)
                  /\ Same(whole, Ahead(TakeUntil(part.state, d, hdr), Len(c)))
             ELSE Same(whole, part)
<1> DEFINE part == TakeUntil(s, c, hdr)
           whole == TakeUntil(s, c \o d, hdr)
<1>1. Going(TakeStart(s), c) /\ TakeStart(s).err = "more"
  BY GoingStart DEF TakeStart
<1>2. /\ part = Rounds(TakeStart(s), c, hdr)
      /\ whole = Rounds(TakeStart(s), c \o d, hdr)
  BY TakeIsRounds
<1>3. IF Unfinished(part)
      THEN part.n = Len(c) /\ Same(whole, Rounds(GoOn(part.state, Len(c)), c \o d, hdr))
      ELSE Same(whole, part)
  BY <1>1, <1>2, ContinuesAll DEF Continues
<1>4. CounterFits(part.state)
  BY TakeUntilEnds
<1>5. Rounds(GoOn(part.state, Len(c)), c \o d, hdr)
        = Ahead(TakeUntil(part.state, d, hdr), Len(c))
  <2> DEFINE x == TakeStart(part.state)
  <2> HIDE DEF part
  <2>1. Going(x, d)
    BY <1>4, GoingStart
  <2>2. Len(c) + 0 = Len(c)
    BY LenProperties
  <2>3. Ahead(x, Len(c)) = GoOn(part.state, Len(c))
    BY <2>2 DEF Ahead, GoOn, TakeStart
  <2>4. TakeUntil(part.state, d, hdr) = Rounds(x, d, hdr)
    BY TakeIsRounds
  <2> HIDE DEF x
  <2> QED
    BY <2>1, <2>3, <2>4, AheadRounds
<1> QED
  BY <1>3, <1>5

-----------------------------------------------------------------------------
(* The function that AfterSlices chooses exists, so it is what it says.    *)
Fed == [state : StateType, n : Nat, err : Errors \cup {"more"}, none : BOOLEAN,
        stop : BOOLEAN]

LEMMA AfterSliceType ==
  ASSUME NEW fed \in Fed, NEW b \in Seq(Byte), NEW hdr \in Header
  PROVE  AfterSlice(fed, b, hdr) \in Fed
<1>1. CASE b = <<>> \/ fed.stop
  BY <1>1 DEF AfterSlice
<1>2. CASE ~ (b = <<>> \/ fed.stop)
  <2> DEFINE r == TakeUntil(fed.state, b, hdr)
  <2>1. r \in Taken
    <3>1. fed.state \in StateType
      BY DEF Fed
    <3> QED
      BY <3>1, TakeSlicesType DEF TakeSlices
  <2>2. AfterSlice(fed, b, hdr) = Slice(fed, r)
    BY <1>2 DEF AfterSlice
  <2> HIDE DEF r
  <2>3. fed.n + r.n \in Nat
    BY <2>1 DEF Fed, Taken
  <2>4. (r.err # "none" \/ r.state \in Stop) \in BOOLEAN
    OBVIOUS
  <2> QED
    BY <2>1, <2>2, <2>3, <2>4 DEF Slice, Fed, Taken
<1> QED
  BY <1>1, <1>2

LEMMA AfterSlicesIs ==
  ASSUME NEW s \in StateType, NEW slices \in Seq(Seq(Byte)), NEW hdr \in Header
  PROVE  /\ AfterSlices(s, slices, hdr)[0] = BeforeSlices(s)
         /\ \A k \in 1 .. Len(slices) :
              AfterSlices(s, slices, hdr)[k] =
                AfterSlice(AfterSlices(s, slices, hdr)[k - 1], slices[k], hdr)
<1> DEFINE n == Len(slices)
           F == [k \in 1 .. n |-> [x \in Fed |-> AfterSlice(x, slices[k], hdr)]]
           Rhs(g) == [i \in 0 .. n |-> IF i = 0 THEN BeforeSlices(s)
                                       ELSE AfterSlice(g[i - 1], slices[i], hdr)]
           Is(g) == g = Rhs(g)
           C == AfterSlices(s, slices, hdr)
<1>1. n \in Nat /\ BeforeSlices(s) \in Fed
  BY LenProperties DEF BeforeSlices, Fed, Errors
<1>2. IsStep(F, n, Fed)
  <2>1. ASSUME NEW k \in 1 .. n, NEW x \in Fed PROVE AfterSlice(x, slices[k], hdr) \in Fed
    <3>1. slices[k] \in Seq(Byte)
      OBVIOUS
    <3> QED
      BY <3>1, AfterSliceType
  <2> QED
    BY <2>1 DEF IsStep
<1>3. \A k \in 1 .. n : \A x \in Fed : F[k][x] = AfterSlice(x, slices[k], hdr)
  OBVIOUS
<1>4. C = CHOOSE g : Is(g)
  BY DEF AfterSlices
<1> HIDE DEF F, C
<1>5. \E g : Follows(g, n, Fed, BeforeSlices(s), F)
  <2> HIDE DEF n
  <2> QED
    BY <1>1, <1>2, RecursionExists
<1>6. PICK g : Follows(g, n, Fed, BeforeSlices(s), F)
  BY <1>5
<1>7. Is(g)
  <2>1. g = [i \in 0 .. n |-> g[i]]
    BY <1>6 DEF Follows
  <2>2. ASSUME NEW i \in 0 .. n
        PROVE  g[i] = IF i = 0 THEN BeforeSlices(s) ELSE AfterSlice(g[i - 1], slices[i], hdr)
    <3>1. CASE i = 0
      BY <1>6, <3>1 DEF Follows
    <3>2. CASE i # 0
      <4>1. i \in 1 .. n /\ i - 1 \in 0 .. n
        BY <1>1, <3>2
      <4>2. g[i] = F[i][g[i - 1]] /\ g[i - 1] \in Fed
        BY <1>6, <4>1 DEF Follows
      <4> QED
        BY <1>3, <3>2, <4>1, <4>2
    <3> QED
      BY <3>1, <3>2
  <2> HIDE DEF n
  <2>3. \A i \in 0 .. n : Rhs(g)[i] = IF i = 0 THEN BeforeSlices(s)
                                      ELSE AfterSlice(g[i - 1], slices[i], hdr)
    OBVIOUS
  <2>4. Rhs(g) = [i \in 0 .. n |-> Rhs(g)[i]]
    OBVIOUS
  <2> HIDE DEF Rhs
  <2>5. \A i \in 0 .. n : g[i] = Rhs(g)[i]
    BY <2>2, <2>3
  <2> QED
    BY <2>1, <2>4, <2>5
<1>8. C = Rhs(C)
  <2>1. Is(C)
    <3> HIDE DEF Is
    <3> QED
      BY <1>4, <1>7
  <2> QED
    BY <2>1
<1>9. Rhs(C)[0] = BeforeSlices(s)
  BY <1>1
<1>10. \A k \in 1 .. n : Rhs(C)[k] = AfterSlice(C[k - 1], slices[k], hdr)
  BY <1>1
<1> HIDE DEF Rhs
<1>11. C[0] = BeforeSlices(s) /\ \A k \in 1 .. n : C[k] = AfterSlice(C[k - 1], slices[k], hdr)
  BY <1>8, <1>9, <1>10, Zenon
<1> QED
  BY <1>11 DEF C

(* What take_slices has after the slices with the bytes `w'.               *)
FedAs(fed, s, w, hdr) ==
  IF w = <<>> THEN fed = BeforeSlices(s)
  ELSE /\ fed.none = FALSE
       /\ Same(TakeUntil(s, w, hdr), fed)
       /\ fed.stop <=> ~ Unfinished(TakeUntil(s, w, hdr))
       /\ Unfinished(TakeUntil(s, w, hdr)) => fed.n = Len(w)

LEMMA FedAsNext ==
  ASSUME NEW s, CounterFits(s), NEW w \in Seq(Byte), NEW b \in Seq(Byte),
         NEW hdr, SizeFits(hdr), NEW fed, FedAs(fed, s, w, hdr)
  PROVE  FedAs(AfterSlice(fed, b, hdr), s, w \o b, hdr)
<1> DEFINE x == TakeUntil(s, w, hdr)
           z == TakeUntil(s, w \o b, hdr)
           next == AfterSlice(fed, b, hdr)
<1>0. Len(w) \in Nat /\ Len(b) \in Nat /\ s \in StateType
  BY LenProperties DEF CounterFits, GoodState
<1>1. CASE b = <<>>
  <2>1. w \o b = w
    BY <1>1, ConcatEmptySeq
  <2>2. next = fed
    BY <1>1 DEF AfterSlice
  <2> HIDE DEF next
  <2>3. FedAs(next, s, w \o b, hdr)
    BY <2>1, <2>2, Zenon
  <2> QED
    BY <2>3 DEF next
<1>2. CASE b # <<>> /\ w = <<>>
  <2>1. w \o b = b
    BY <1>2, ConcatEmptySeq
  <2>2. fed = BeforeSlices(s)
    BY <1>2 DEF FedAs
  <2> DEFINE r == TakeUntil(s, b, hdr)
  <2>3. next = Slice(fed, r)
    BY <1>2, <2>2 DEF AfterSlice, BeforeSlices
  <2>4. r.n \in Nat /\ r.n <= Len(b)
    BY TakeUntilEnds DEF Taken
  <2>5. Unfinished(r) => r.n = Len(b)
    <3>1. IF Unfinished(TakeUntil(s, b, hdr)) THEN TakeUntil(s, b, hdr).n = Len(b) ELSE TRUE
      <4>1. Len(b) > 0
        BY <1>0, <1>2, EmptySeq
      <4> QED
        BY <4>1, TakeUntilCut
    <3> QED
      BY <3>1
  <2> HIDE DEF r, next
  <2>6. fed.n + r.n = r.n
    BY <2>2, <2>4 DEF BeforeSlices
  <2>7. /\ next.state = r.state /\ next.n = r.n /\ next.err = r.err
        /\ next.none = FALSE /\ (next.stop <=> ~ Unfinished(r))
    BY <2>3, <2>6 DEF Slice, Unfinished
  <2>8. Same(r, next)
    BY <2>7 DEF Same
  <2>9. Unfinished(r) => next.n = Len(b)
    BY <2>5, <2>7
  <2>10. FedAs(next, s, b, hdr) <=>
           /\ next.none = FALSE /\ Same(r, next)
           /\ next.stop <=> ~ Unfinished(r)
           /\ Unfinished(r) => next.n = Len(b)
    BY <1>2, Zenon DEF FedAs, r
  <2>11. FedAs(next, s, b, hdr)
    BY <2>7, <2>8, <2>9, <2>10, Zenon
  <2> QED
    BY <2>1, <2>11 DEF next
<1>3. CASE b # <<>> /\ w # <<>>
  <2>1. Len(b) > 0
    BY <1>0, <1>3, EmptySeq
  <2>2. IF Unfinished(x)
        THEN x.n = Len(w) /\ Same(z, Ahead(TakeUntil(x.state, b, hdr), Len(w)))
        ELSE Same(z, x)
    BY <2>1, TakeUntilCut
  <2>3. w \o b # <<>> /\ w \o b \in Seq(Byte) /\ Len(w \o b) = Len(w) + Len(b)
    <3>1. Len(w \o b) = Len(w) + Len(b) /\ w \o b \in Seq(Byte)
      BY ConcatProperties
    <3>2. Len(w \o b) # 0
      BY <1>0, <2>1, <3>1
    <3> QED
      BY <3>1, <3>2, EmptySeq
  <2>4. /\ fed.none = FALSE /\ Same(x, fed) /\ (fed.stop <=> ~ Unfinished(x))
        /\ Unfinished(x) => fed.n = Len(w)
    BY <1>3 DEF FedAs
  <2>5. ASSUME NEW y, y.none = FALSE, Same(z, y), y.stop <=> ~ Unfinished(z),
               Unfinished(z) => y.n = Len(w \o b)
        PROVE  FedAs(y, s, w \o b, hdr)
    BY <2>3, <2>5 DEF FedAs
  <2> HIDE DEF z, x
  <2>6. CASE ~ Unfinished(x)
    <3>1. next = fed
      BY <2>4, <2>6 DEF AfterSlice
    <3>2. Same(z, fed) /\ ~ Unfinished(z)
      BY <2>2, <2>4, <2>6 DEF Same, Unfinished
    <3> HIDE DEF next
    <3> QED
      BY <2>4, <2>5, <2>6, <3>1, <3>2 DEF next
  <2>7. CASE Unfinished(x)
    <3> DEFINE r == TakeUntil(x.state, b, hdr)
    <3>1. fed.state = x.state /\ fed.n = Len(w) /\ ~ fed.stop
      BY <2>4, <2>7 DEF Same, Unfinished
    <3>2. next = Slice(fed, r)
      BY <1>3, <3>1 DEF AfterSlice
    <3>3. CounterFits(x.state)
      BY TakeUntilEnds DEF x
    <3>4. Unfinished(r) => r.n = Len(b)
      <4>1. IF Unfinished(TakeUntil(x.state, b, hdr))
            THEN TakeUntil(x.state, b, hdr).n = Len(b) ELSE TRUE
        BY <2>1, <3>3, TakeUntilCut
      <4> QED
        BY <4>1
    <3> HIDE DEF r, next
    <3>5. /\ next.state = r.state /\ next.n = Len(w) + r.n /\ next.err = r.err
          /\ next.none = FALSE /\ (next.stop <=> ~ Unfinished(r))
      BY <3>1, <3>2 DEF Slice, Unfinished
    <3>6. Same(z, Ahead(r, Len(w)))
      BY <2>2, <2>7 DEF r
    <3>7. Same(z, next) /\ (Unfinished(z) <=> Unfinished(r))
      BY <3>5, <3>6 DEF Same, Ahead, Unfinished
    <3>8. Unfinished(z) => next.n = Len(w \o b)
      BY <2>3, <3>4, <3>5, <3>7
    <3>9. FedAs(next, s, w \o b, hdr)
      <4>1. next.none = FALSE /\ (next.stop <=> ~ Unfinished(z))
        BY <3>5, <3>7, Zenon
      <4> QED
        BY <2>5, <3>7, <3>8, <4>1, Zenon
    <3> QED
      BY <3>9 DEF next
  <2> QED
    BY <2>6, <2>7
<1> QED
  BY <1>1, <1>2, <1>3

(* State::take_slices, fed with any number of slices, does what take_until *)
(* does with their bytes in one buffer: where the slices are cut, and how  *)
(* many of them are empty, does not matter (state.rs, take_slices).        *)
THEOREM SlicesAreTakenAsOne ==
  ASSUME NEW s, CounterFits(s), NEW slices \in Seq(Seq(Byte)), NEW hdr, SizeFits(hdr)
  PROVE  Same(TakeSlices(s, Concat(slices), hdr), TakeSlicesInOrder(s, slices, hdr))
<1> DEFINE n == Len(slices)
           fed == AfterSlices(s, slices, hdr)
<1>1. n \in Nat /\ s \in StateType /\ hdr \in Header
  BY LenProperties DEF CounterFits, GoodState, SizeFits
<1>2. PICK g \in [0 .. n -> Seq(Byte)] :
        /\ g[0] = <<>>
        /\ \A k \in 1 .. n : g[k] = g[k - 1] \o slices[k]
        /\ Concat(slices) = g[n]
  BY ConcatSteps
<1>3. fed[0] = BeforeSlices(s)
      /\ \A k \in 1 .. n : fed[k] = AfterSlice(fed[k - 1], slices[k], hdr)
  BY <1>1, AfterSlicesIs
<1> DEFINE T == {m \in 0 .. n : FedAs(fed[m], s, g[m], hdr)}
<1> HIDE DEF fed
<1>4. 0 \in T
  <2>1. 0 \in 0 .. n
    BY <1>1
  <2>2. FedAs(fed[0], s, g[0], hdr)
    BY <1>2, <1>3 DEF FedAs
  <2> QED
    BY <2>1, <2>2
<1>5. ASSUME NEW m \in 0 .. n - 1, m \in T PROVE m + 1 \in T
  <2>1. m + 1 \in 1 .. n /\ m + 1 \in 0 .. n /\ (m + 1) - 1 = m /\ m \in 0 .. n
    BY <1>1
  <2>2. slices[m + 1] \in Seq(Byte) /\ g[m] \in Seq(Byte)
    <3>1. ASSUME NEW k \in 1 .. n PROVE slices[k] \in Seq(Byte)
      OBVIOUS
    <3> HIDE DEF n
    <3> QED
      BY <1>2, <2>1, <3>1
  <2>3. FedAs(fed[m], s, g[m], hdr)
    BY <1>5
  <2>4. FedAs(AfterSlice(fed[m], slices[m + 1], hdr), s, g[m] \o slices[m + 1], hdr)
    BY <2>2, <2>3, FedAsNext
  <2>5. fed[m + 1] = AfterSlice(fed[m], slices[m + 1], hdr)
        /\ g[m + 1] = g[m] \o slices[m + 1]
    BY <1>2, <1>3, <2>1
  <2> QED
    BY <2>1, <2>4, <2>5
<1>6. 0 .. n \subseteq T
  <2> HIDE DEF T, n
  <2> QED
    BY <1>1, <1>4, <1>5, UpTo
<1>7. FedAs(fed[n], s, g[n], hdr)
  <2>1. n \in 0 .. n
    BY <1>1
  <2> QED
    BY <1>6, <2>1
<1>8. TakeSlicesInOrder(s, slices, hdr) = AtLeastOnce(fed[n], s, hdr)
  BY DEF TakeSlicesInOrder, fed
<1>9. CASE g[n] = <<>>
  <2>1. fed[n].none = TRUE
    BY <1>7, <1>9 DEF FedAs, BeforeSlices
  <2>2. TakeSlicesInOrder(s, slices, hdr) = TakeUntil(s, <<>>, hdr)
    BY <1>8, <2>1 DEF AtLeastOnce
  <2> QED
    BY <1>2, <1>9, <2>2 DEF Same, TakeSlices
<1>10. CASE g[n] # <<>>
  <2>1. fed[n].none = FALSE /\ Same(TakeUntil(s, g[n], hdr), fed[n])
    BY <1>7, <1>10 DEF FedAs
  <2>2. TakeSlicesInOrder(s, slices, hdr) = fed[n]
    BY <1>8, <2>1 DEF AtLeastOnce
  <2> QED
    BY <1>2, <2>1, <2>2 DEF TakeSlices
<1> QED
  BY <1>9, <1>10

-----------------------------------------------------------------------------
(* The bytes of an archive that is fed.  An entry k begins after Begin(k)  *)
(* bytes; the end marker is of zeros, but for the last byte of a damaged   *)
(* one.                                                                    *)
Begin(a, k) == Len(Laid(a)[k])

LEMMA ArchiveType ==
  ASSUME NEW a \in Archives
  PROVE  /\ a \in Seq(HeaderType) /\ Len(a) \in Nat
         /\ \A k \in 1 .. Len(a) : /\ a[k] \in HeaderType /\ a[k].size \in Nat
                                   /\ a[k].lead \in 0 .. BlockSize - 1
                                   /\ a[k] # NoHeader /\ a[k].id \in Nat
<1>1. a \in Seq(HeaderType)
  BY ArchivesAssumption
<1>2. ASSUME NEW k \in 1 .. Len(a)
      PROVE  /\ a[k] \in HeaderType /\ a[k].size \in Nat
             /\ a[k].lead \in 0 .. BlockSize - 1
             /\ a[k] # NoHeader /\ a[k].id \in Nat
  <2>1. a[k] \in HeaderType
    BY <1>1
  <2>2. a[k].size # BadSize /\ a[k].lead < BlockSize
    BY ArchivesAssumption
  <2> QED
    BY <2>1, <2>2, BlockSizeAssumption DEF HeaderType, NoHeader
<1> QED
  BY <1>1, <1>2

LEMMA StreamFacts ==
  ASSUME NEW a \in Archives, NEW d \in BOOLEAN
  PROVE  LET b == Streams[a][d]
             n == Len(a)
         IN  /\ b \in Seq(Byte) /\ Len(b) = Begin(a, n) + EofLen
             /\ \A k \in 0 .. n : Begin(a, k) \in Nat
             /\ Begin(a, 0) = 0
             /\ \A k \in 1 .. n : Begin(a, k) = Begin(a, k - 1) + EntryLen(a[k])
             /\ \A k \in 1 .. n : \A i \in 1 .. EntryLen(a[k]) :
                  b[Begin(a, k - 1) + i] = EntryByte(a[k], i)
             /\ \A i \in 1 .. EofLen - 1 : b[Begin(a, n) + i] = ZeroByte
             /\ b[Begin(a, n) + EofLen] = IF d THEN Garbage ELSE ZeroByte
<1> DEFINE n == Len(a)
           e == EntriesBytes(a)
           z == Zeros(EofLen)
           w == ArchiveBytes(a)
           b == Streams[a][d]
<1>1. a \in Seq(HeaderType) /\ n \in Nat
  BY ArchiveType
<1>2. EofLen \in Nat /\ EofLen > 0
  BY BlockSizeAssumption DEF EofLen
<1>3. z \in Seq(Byte) /\ Len(z) = EofLen /\ \A i \in 1 .. EofLen : z[i] = ZeroByte
  BY <1>2 DEF Zeros, ZeroByte, Byte
<1>4. \A k \in 0 .. n : Laid(a)[k] \in Seq(Byte)
  BY <1>1, LaidType
<1>5. e = Laid(a)[n] /\ e \in Seq(Byte) /\ Len(e) = Begin(a, n) /\ Begin(a, n) \in Nat
  <2>1. n \in 0 .. n
    BY <1>1
  <2> QED
    BY <1>4, <2>1, LenProperties DEF EntriesBytes, Begin
<1>6. w = e \o z
  BY DEF ArchiveBytes
<1>7. b = IF d THEN [w EXCEPT ![Len(w)] = Garbage] ELSE w
  BY DEF Streams
<1> HIDE DEF e, z, w, b
<1>8. /\ w \in Seq(Byte) /\ Len(w) = Len(e) + Len(z)
      /\ \A i \in 1 .. Len(e) + Len(z) : w[i] = IF i <= Len(e) THEN e[i] ELSE z[i - Len(e)]
  <2>1. /\ e \o z \in Seq(Byte) /\ Len(e \o z) = Len(e) + Len(z)
        /\ \A i \in 1 .. Len(e) + Len(z) :
             (e \o z)[i] = IF i <= Len(e) THEN e[i] ELSE z[i - Len(e)]
    <3>1. e \in Seq(Byte) /\ z \in Seq(Byte)
      BY <1>3, <1>5
    <3> QED
      BY <3>1, ConcatProperties
  <2> QED
    BY <1>6, <2>1
<1>9. Len(w) = Begin(a, n) + EofLen /\ Len(w) \in 1 .. Len(w) /\ Len(w) \in Nat
  BY <1>2, <1>3, <1>5, <1>8
<1>10. Garbage \in Byte /\ Garbage # ZeroByte
  BY DEF Garbage, Byte, ZeroByte
<1>11. /\ b \in Seq(Byte) /\ Len(b) = Len(w)
       /\ \A i \in 1 .. Len(w) : i # Len(w) => b[i] = w[i]
       /\ b[Len(w)] = IF d THEN Garbage ELSE w[Len(w)]
  <2>1. CASE ~ d
    BY <1>7, <1>8, <1>9, <2>1
  <2>2. CASE d
    <3>1. b = [w EXCEPT ![Len(w)] = Garbage]
      BY <1>7, <2>2
    <3> DEFINE m == Len(w)
    <3>2. w \in [1 .. m -> Byte] /\ m \in Nat /\ m \in 1 .. m
      BY <1>8, <1>9
    <3> HIDE DEF m
    <3>3. b = [w EXCEPT ![m] = Garbage]
      BY <3>1 DEF m
    <3>4. b \in [1 .. m -> Byte]
      BY <1>10, <3>2, <3>3
    <3>5. \A i \in 1 .. m : b[i] = IF i = m THEN Garbage ELSE w[i]
      BY <3>2, <3>3
    <3>6. b \in Seq(Byte) /\ Len(b) = m
      BY <3>2, <3>4
    <3> QED
      BY <2>2, <3>2, <3>5, <3>6 DEF m
  <2> QED
    BY <2>1, <2>2
<1>12. /\ Begin(a, 0) = 0
       /\ \A k \in 0 .. n : Begin(a, k) \in Nat
       /\ \A k \in 1 .. n : Begin(a, k) = Begin(a, k - 1) + EntryLen(a[k])
  BY <1>1, LaidLengths DEF Begin
<1>13. ASSUME NEW k \in 1 .. n, NEW i \in 1 .. EntryLen(a[k])
       PROVE  b[Begin(a, k - 1) + i] = EntryByte(a[k], i)
  <2> DEFINE j == Begin(a, k - 1) + i
  <2>1. j \in 1 .. Len(e) /\ e[j] = EntryByte(a[k], i)
    BY <1>1, EntryAt DEF e, Begin
  <2> HIDE DEF j
  <2>2. j \in 1 .. Len(w) /\ j # Len(w) /\ j \in 1 .. Len(e) + Len(z) /\ j <= Len(e)
    BY <1>2, <1>3, <1>5, <1>8, <2>1
  <2>3. b[j] = e[j]
    BY <1>8, <1>11, <2>2
  <2> QED
    BY <2>1, <2>3 DEF j
<1>14. ASSUME NEW i \in 1 .. EofLen PROVE w[Begin(a, n) + i] = ZeroByte
  <2>1. /\ Begin(a, n) + i \in 1 .. Len(e) + Len(z) /\ ~ (Begin(a, n) + i <= Len(e))
        /\ (Begin(a, n) + i) - Len(e) = i
    BY <1>3, <1>5
  <2>2. w[Begin(a, n) + i] = z[(Begin(a, n) + i) - Len(e)]
    BY <1>8, <2>1
  <2> QED
    BY <1>3, <2>1, <2>2
<1>15. ASSUME NEW i \in 1 .. EofLen - 1 PROVE b[Begin(a, n) + i] = ZeroByte
  <2>1. i \in 1 .. EofLen /\ Begin(a, n) + i \in 1 .. Len(w) /\ Begin(a, n) + i # Len(w)
    BY <1>2, <1>5, <1>9
  <2> QED
    BY <1>11, <1>14, <2>1
<1>16. b[Begin(a, n) + EofLen] = IF d THEN Garbage ELSE ZeroByte
  <2>1. EofLen \in 1 .. EofLen
    BY <1>2
  <2> QED
    BY <1>9, <1>11, <1>14, <2>1
<1>17. b \in Seq(Byte) /\ Len(b) = Begin(a, n) + EofLen
  BY <1>9, <1>11
<1> HIDE DEF n
<1>18. /\ b \in Seq(Byte) /\ Len(b) = Begin(a, n) + EofLen
       /\ \A k \in 0 .. n : Begin(a, k) \in Nat
       /\ Begin(a, 0) = 0
       /\ \A k \in 1 .. n : Begin(a, k) = Begin(a, k - 1) + EntryLen(a[k])
       /\ \A k \in 1 .. n : \A i \in 1 .. EntryLen(a[k]) :
            b[Begin(a, k - 1) + i] = EntryByte(a[k], i)
       /\ \A i \in 1 .. EofLen - 1 : b[Begin(a, n) + i] = ZeroByte
       /\ b[Begin(a, n) + EofLen] = IF d THEN Garbage ELSE ZeroByte
  BY <1>12, <1>13, <1>15, <1>16, <1>17, Zenon
<1> QED
  BY <1>18, Zenon DEF b, n

(* The entries of the first headers alone are laid out as they are in the  *)
(* whole.                                                                  *)
LEMMA LaidFirst ==
  ASSUME NEW a \in Seq(HeaderType), NEW m \in 0 .. Len(a)
  PROVE  EntriesBytes(SubSeq(a, 1, m)) = Laid(a)[m]
<1> DEFINE f == SubSeq(a, 1, m)
           T == {j \in 0 .. m : Laid(f)[j] = Laid(a)[j]}
<1>1. m \in Nat /\ Len(a) \in Nat /\ m <= Len(a)
  BY LenProperties
<1>2. Len(f) = m /\ \A j \in 1 .. m : f[j] = a[j]
  BY <1>1, SubSeqProperties
<1> HIDE DEF f
<1>3. /\ Laid(f)[0] = <<>>
      /\ \A j \in 0 .. m - 1 : Laid(f)[j + 1] = Laid(f)[j] \o EntryBytes(f[j + 1])
  <2>1. Len(f) \in Nat
    BY <1>1, <1>2
  <2> QED
    BY <1>2, <2>1, LaidSteps
<1>4. /\ Laid(a)[0] = <<>>
      /\ \A j \in 0 .. Len(a) - 1 : Laid(a)[j + 1] = Laid(a)[j] \o EntryBytes(a[j + 1])
  BY <1>1, LaidSteps
<1>5. 0 \in T
  BY <1>1, <1>3, <1>4
<1>6. ASSUME NEW j \in 0 .. m - 1, j \in T PROVE j + 1 \in T
  <2>1. j + 1 \in 0 .. m /\ j + 1 \in 1 .. m /\ j \in 0 .. Len(a) - 1
    BY <1>1
  <2>2. Laid(f)[j] = Laid(a)[j] /\ f[j + 1] = a[j + 1]
    BY <1>2, <1>6, <2>1
  <2>3. Laid(f)[j + 1] = Laid(a)[j + 1]
    BY <1>3, <1>4, <2>1, <2>2
  <2> QED
    BY <2>1, <2>3
<1> HIDE DEF T
<1>7. 0 .. m \subseteq T
  BY <1>1, <1>5, <1>6, UpTo
<1>8. m \in T
  BY <1>1, <1>7
<1> QED
  BY <1>2, <1>8 DEF T, f, EntriesBytes

-----------------------------------------------------------------------------
(* Where a State stands in the archive `a', damaged or not, that is fed:   *)
(* after `o' bytes of it, `k' headers having been reported.  The flag of   *)
(* ReceivingHeader is true as long as the block has only zeros; the states *)
(* of the end marker are those of the end, and ReceivedEof only of an      *)
(* intact one.                                                             *)
HeaderAt(a, k) == IF k = 0 THEN NoHeader ELSE a[k]

ZeroFrom(a, d, o, m) == \A i \in 1 .. m : Streams[a][d][o + i] = ZeroByte

Stands(a, d, s, o, k) ==
  /\ CounterFits(s) /\ k \in 0 .. Len(a)
  /\ IF InEntry(s) THEN k > 0 /\ o = Begin(a, k - 1) + ItemOffset(s, a[k])
     ELSE o = Begin(a, k) + ItemOffset(s, NoHeader)
  /\ s.tag = "ReceivingData" => s.rem <= a[k].size
  /\ s.tag = "AligningData"  => s.rem <= Align(a[k].size)
  /\ s.tag = "ReceivingHeader" =>
       (s.empty <=> ZeroFrom(a, d, Begin(a, k), BlockSize - s.rem))
  /\ s.tag \in {"ReceivingEof", "ReceivedEof"} => k = Len(a)
  /\ s.tag = "ReceivedEof" => ~ d

LEMMA StandsExpecting ==
  ASSUME NEW a, NEW d, NEW o, NEW k \in 0 .. Len(a), Begin(a, k) \in Nat
  PROVE  Stands(a, d, ExpectingHeader, o, k) <=> o = Begin(a, k)
<1>1. Begin(a, k) + 0 = Begin(a, k)
  OBVIOUS
<1>2. ItemOffset(ExpectingHeader, NoHeader) = 0 /\ ~ InEntry(ExpectingHeader)
  BY DEF ItemOffset, InEntry, ExpectingHeader, St
<1> QED
  BY <1>1, <1>2, CountersFit DEF Stands, ExpectingHeader, St

LEMMA StandsHeader ==
  ASSUME NEW a, NEW d, NEW o, NEW k \in 0 .. Len(a), NEW rem \in 1 .. BlockSize,
         NEW e \in BOOLEAN
  PROVE  Stands(a, d, ReceivingHeader(rem, e), o, k) <=>
           /\ o = Begin(a, k) + (BlockSize - rem)
           /\ e <=> ZeroFrom(a, d, Begin(a, k), BlockSize - rem)
<1> DEFINE s == ReceivingHeader(rem, e)
<1>1. s.tag = "ReceivingHeader" /\ s.rem = rem /\ s.empty = e
  BY DEF ReceivingHeader, St
<1>2. CounterFits(s)
  BY CountersFit
<1> HIDE DEF s
<1>3. ItemOffset(s, NoHeader) = BlockSize - rem /\ ~ InEntry(s)
  BY <1>1 DEF ItemOffset, InEntry
<1>4. (s.empty <=> ZeroFrom(a, d, Begin(a, k), BlockSize - s.rem))
        <=> (e <=> ZeroFrom(a, d, Begin(a, k), BlockSize - rem))
  BY <1>1
<1> QED
  BY <1>1, <1>2, <1>3, <1>4 DEF Stands, s

LEMMA StandsReceived ==
  ASSUME NEW a, NEW d, NEW o, NEW k \in 0 .. Len(a)
  PROVE  Stands(a, d, ReceivedHeader, o, k) <=> k > 0 /\ o = Begin(a, k - 1) + BlockSize
<1>1. ItemOffset(ReceivedHeader, a[k]) = BlockSize /\ InEntry(ReceivedHeader)
  BY DEF ItemOffset, InEntry, ReceivedHeader, St
<1> QED
  BY <1>1, CountersFit DEF Stands, ReceivedHeader, St

LEMMA StandsData ==
  ASSUME NEW a, NEW d, NEW o, NEW k \in 0 .. Len(a), NEW rem \in Nat, rem < UsizeMod
  PROVE  Stands(a, d, ReceivingData(rem), o, k) <=>
           k > 0 /\ o = Begin(a, k - 1) + (BlockSize + a[k].size - rem) /\ rem <= a[k].size
<1> DEFINE s == ReceivingData(rem)
<1>1. s.tag = "ReceivingData" /\ s.rem = rem
  BY DEF ReceivingData, St
<1>2. CounterFits(s)
  BY CountersFit
<1> HIDE DEF s
<1>3. ItemOffset(s, a[k]) = BlockSize + a[k].size - rem /\ InEntry(s)
  BY <1>1 DEF ItemOffset, InEntry
<1> QED
  BY <1>1, <1>2, <1>3 DEF Stands, s

LEMMA StandsAfterData ==
  ASSUME NEW a, NEW d, NEW o, NEW k \in 0 .. Len(a)
  PROVE  Stands(a, d, ReceivedData, o, k) <=>
           k > 0 /\ o = Begin(a, k - 1) + (BlockSize + a[k].size)
<1>1. ItemOffset(ReceivedData, a[k]) = BlockSize + a[k].size /\ InEntry(ReceivedData)
  BY DEF ItemOffset, InEntry, ReceivedData, St
<1> QED
  BY <1>1, CountersFit DEF Stands, ReceivedData, St

LEMMA StandsAligning ==
  ASSUME NEW a, NEW d, NEW o, NEW k \in 0 .. Len(a), NEW rem \in 0 .. BlockSize - 1
  PROVE  Stands(a, d, AligningData(rem), o, k) <=>
           k > 0 /\ o = Begin(a, k - 1) + (EntryLen(a[k]) - rem) /\ rem <= Align(a[k].size)
<1> DEFINE s == AligningData(rem)
<1>1. s.tag = "AligningData" /\ s.rem = rem
  BY DEF AligningData, St
<1>2. CounterFits(s)
  BY CountersFit
<1> HIDE DEF s
<1>3. ItemOffset(s, a[k]) = EntryLen(a[k]) - rem /\ InEntry(s)
  BY <1>1 DEF ItemOffset, InEntry
<1> QED
  BY <1>1, <1>2, <1>3 DEF Stands, s

LEMMA StandsAligned ==
  ASSUME NEW a, NEW d, NEW o, NEW k \in 0 .. Len(a)
  PROVE  Stands(a, d, AlignedData, o, k) <=> k > 0 /\ o = Begin(a, k - 1) + EntryLen(a[k])
<1>1. ItemOffset(AlignedData, a[k]) = EntryLen(a[k]) /\ InEntry(AlignedData)
  BY DEF ItemOffset, InEntry, AlignedData, St
<1> QED
  BY <1>1, CountersFit DEF Stands, AlignedData, St

LEMMA StandsEnding ==
  ASSUME NEW a, NEW d, NEW o, NEW k \in 0 .. Len(a), NEW rem \in 1 .. BlockSize
  PROVE  Stands(a, d, ReceivingEof(rem), o, k) <=>
           k = Len(a) /\ o = Begin(a, k) + (EofLen - rem)
<1> DEFINE s == ReceivingEof(rem)
<1>1. s.tag = "ReceivingEof" /\ s.rem = rem
  BY DEF ReceivingEof, St
<1>2. CounterFits(s)
  BY CountersFit
<1> HIDE DEF s
<1>3. ItemOffset(s, NoHeader) = EofLen - rem /\ ~ InEntry(s)
  BY <1>1 DEF ItemOffset, InEntry
<1> QED
  BY <1>1, <1>2, <1>3 DEF Stands, s

LEMMA StandsEnd ==
  ASSUME NEW a, NEW d, NEW o, NEW k \in 0 .. Len(a)
  PROVE  Stands(a, d, ReceivedEof, o, k) <=>
           k = Len(a) /\ o = Begin(a, k) + EofLen /\ ~ d
<1>1. ItemOffset(ReceivedEof, NoHeader) = EofLen /\ ~ InEntry(ReceivedEof)
  BY DEF ItemOffset, InEntry, ReceivedEof, St
<1> QED
  BY <1>1, CountersFit DEF Stands, ReceivedEof, St

-----------------------------------------------------------------------------
(* One transition on a part of the archive that follows where the state    *)
(* stands.                                                                 *)
SizesFit == \A a \in Archives : \A i \in 1 .. Len(a) : a[i].size < UsizeMod

PartAt(b, a, d, o) ==
  /\ b \in Seq(Byte) /\ o + Len(b) <= Len(Streams[a][d])
  /\ \A i \in 1 .. Len(b) : b[i] = Streams[a][d][o + i]

Reported(s, k) == IF s = ReceivedHeader THEN k + 1 ELSE k

(* What is known of a transition, or of a run, that began in `s' at `o'.   *)
Tracks(a, d, s, o, k, r) ==
  /\ r.err = "none" => Stands(a, d, r.state, o + r.n, Reported(r.state, k))
  /\ r.err \in {"none", "ExpectingEmptyBlock", "Eof"}
  /\ r.err = "ExpectingEmptyBlock" => d
  /\ r.err = "Eof" => s = ReceivedEof

(* The bytes at the front of a part are zeros if and only if they are in   *)
(* the archive.                                                            *)
LEMMA FrontIsZero ==
  ASSUME NEW a, NEW d, NEW o \in Nat, NEW b, PartAt(b, a, d, o), NEW n \in 0 .. Len(b)
  PROVE  AllZero(Fronted(b, n)) <=> ZeroFrom(a, d, o, n)
<1>1. b \in Seq(Byte) /\ \A i \in 1 .. Len(b) : b[i] = Streams[a][d][o + i]
  BY DEF PartAt
<1>2. Len(SubSeq(b, 1, n)) = n /\ \A i \in 1 .. n : SubSeq(b, 1, n)[i] = b[i]
  BY <1>1, SubSeqProperties
<1>3. \A i \in 1 .. n : i \in 1 .. Len(b)
  BY <1>1, LenProperties
<1> QED
  BY <1>1, <1>2, <1>3 DEF AllZero, Fronted, ZeroFrom

LEMMA ZeroFromMore ==
  ASSUME NEW a, NEW d, NEW o \in Nat, NEW m \in Nat, NEW n \in Nat
  PROVE  ZeroFrom(a, d, o, m + n) <=> ZeroFrom(a, d, o, m) /\ ZeroFrom(a, d, o + m, n)
<1>1. ASSUME ZeroFrom(a, d, o, m + n) PROVE ZeroFrom(a, d, o, m) /\ ZeroFrom(a, d, o + m, n)
  <2>1. ASSUME NEW i \in 1 .. m PROVE Streams[a][d][o + i] = ZeroByte
    <3>1. i \in 1 .. m + n
      OBVIOUS
    <3> QED
      BY <1>1, <3>1 DEF ZeroFrom
  <2>2. ASSUME NEW i \in 1 .. n PROVE Streams[a][d][(o + m) + i] = ZeroByte
    <3>1. m + i \in 1 .. m + n /\ o + (m + i) = (o + m) + i
      OBVIOUS
    <3>2. Streams[a][d][o + (m + i)] = ZeroByte
      BY <1>1, <3>1 DEF ZeroFrom
    <3> QED
      BY <3>1, <3>2
  <2> QED
    BY <2>1, <2>2 DEF ZeroFrom
<1>2. ASSUME ZeroFrom(a, d, o, m), ZeroFrom(a, d, o + m, n) PROVE ZeroFrom(a, d, o, m + n)
  <2>1. ASSUME NEW i \in 1 .. m + n PROVE Streams[a][d][o + i] = ZeroByte
    <3>1. CASE i <= m
      <4>1. i \in 1 .. m
        BY <3>1
      <4> QED
        BY <1>2, <4>1 DEF ZeroFrom
    <3>2. CASE ~ (i <= m)
      <4>1. i - m \in 1 .. n /\ (o + m) + (i - m) = o + i
        BY <3>2
      <4>2. Streams[a][d][(o + m) + (i - m)] = ZeroByte
        BY <1>2, <4>1 DEF ZeroFrom
      <4> QED
        BY <4>1, <4>2
    <3> QED
      BY <3>1, <3>2
  <2> QED
    BY <2>1 DEF ZeroFrom
<1> QED
  BY <1>1, <1>2

(* A block at the beginning of an item is of zeros only in the end marker. *)
LEMMA ZeroBlockIsEnd ==
  ASSUME NEW a \in Archives, NEW d \in BOOLEAN, NEW k \in 0 .. Len(a)
  PROVE  ZeroFrom(a, d, Begin(a, k), BlockSize) <=> k = Len(a)
<1> DEFINE b == Streams[a][d]
           n == Len(a)
<1>1. n \in Nat /\ BlockSize \in Nat \ {0}
  BY ArchiveType, BlockSizeAssumption
<1>2. CASE k = n
  <2>1. \A i \in 1 .. EofLen - 1 : b[Begin(a, n) + i] = ZeroByte
    BY StreamFacts
  <2>2. \A i \in 1 .. BlockSize : i \in 1 .. EofLen - 1
    BY <1>1 DEF EofLen
  <2> QED
    BY <1>2, <2>1, <2>2 DEF ZeroFrom
<1>3. CASE k # n
  <2>1. k + 1 \in 1 .. n /\ (k + 1) - 1 = k
    BY <1>1, <1>3
  <2> DEFINE h == a[k + 1]
  <2>2. h \in HeaderType /\ h.size \in Nat /\ h.lead \in 0 .. BlockSize - 1
    BY <2>1, ArchiveType
  <2>3. EntryLen(h) = BlockSize + h.size + Align(h.size) /\ Align(h.size) \in 0 .. BlockSize - 1
    BY <2>2, EntryLenFacts
  <2>4. \A i \in 1 .. EntryLen(h) : b[Begin(a, k) + i] = EntryByte(h, i)
    <3>1. \A i \in 1 .. EntryLen(a[k + 1]) :
            b[Begin(a, (k + 1) - 1) + i] = EntryByte(a[k + 1], i)
      BY <2>1, StreamFacts
    <3> QED
      BY <2>1, <3>1
  <2> DEFINE j == h.lead + 1
  <2> HIDE DEF h, b
  <2>5. j \in 1 .. BlockSize /\ j \in 1 .. EntryLen(h) /\ j <= BlockSize /\ ~ (j <= h.lead)
    BY <1>1, <2>2, <2>3
  <2>6. EntryByte(h, j) = <<"hdr", h.id, j>>
    BY <2>5 DEF EntryByte, HeaderByte
  <2>7. EntryByte(h, j) # ZeroByte
    BY <2>6 DEF ZeroByte
  <2>8. b[Begin(a, k) + j] # ZeroByte
    BY <2>4, <2>5, <2>7
  <2> QED
    BY <1>3, <2>5, <2>8 DEF ZeroFrom, b
<1> QED
  BY <1>2, <1>3

(* Every transition leaves the state standing where it went.               *)
LEMMA TracksNext ==
  ASSUME SizesFit, NEW a \in Archives, NEW d \in BOOLEAN, NEW s, NEW o \in Nat, NEW k,
         Stands(a, d, s, o, k), NEW b, PartAt(b, a, d, o)
  PROVE  Tracks(a, d, s, o, k, TarNext(s, b, HeaderAt(a, k)))
<1> DEFINE hdr == HeaderAt(a, k)
           r == TarNext(s, b, hdr)
<1>1. /\ k \in 0 .. Len(a) /\ CounterFits(s) /\ GoodState(s) /\ s.rem \in Nat
      /\ s.empty \in BOOLEAN /\ Len(a) \in Nat
  <2>1. CounterFits(s) /\ GoodState(s) /\ k \in 0 .. Len(a)
    BY DEF Stands, CounterFits
  <2> QED
    BY <2>1, Canonical, ArchiveType
<1>2. /\ Len(b) \in Nat /\ BlockSize \in Nat \ {0} /\ UsizeMod \in Nat
  BY LenProperties, BlockSizeAssumption, UsizeAssumption DEF PartAt
<1>3. Begin(a, k) \in Nat /\ (k > 0 => Begin(a, k - 1) \in Nat)
  <2>1. \A j \in 0 .. Len(a) : Begin(a, j) \in Nat
    BY StreamFacts
  <2> QED
    BY <1>1, <2>1
<1>4. k > 0 => /\ hdr = a[k] /\ a[k].size \in Nat /\ a[k].size < UsizeMod
               /\ hdr # NoHeader /\ hdr.size # BadSize
               /\ EntryLen(a[k]) = BlockSize + a[k].size + Align(a[k].size)
               /\ Align(a[k].size) \in 0 .. BlockSize - 1
               /\ Begin(a, k) = Begin(a, k - 1) + EntryLen(a[k])
  <2>1. SUFFICES ASSUME k > 0
                 PROVE  /\ hdr = a[k] /\ a[k].size \in Nat /\ a[k].size < UsizeMod
                        /\ hdr # NoHeader /\ hdr.size # BadSize
                        /\ EntryLen(a[k]) = BlockSize + a[k].size + Align(a[k].size)
                        /\ Align(a[k].size) \in 0 .. BlockSize - 1
                        /\ Begin(a, k) = Begin(a, k - 1) + EntryLen(a[k])
    OBVIOUS
  <2>2. k \in 1 .. Len(a)
    BY <1>1, <2>1
  <2>3. a[k] \in HeaderType /\ a[k].size \in Nat /\ a[k] # NoHeader
    BY <2>2, ArchiveType
  <2>4. a[k].size < UsizeMod
    BY <2>2 DEF SizesFit
  <2>5. hdr = a[k]
    BY <2>1 DEF HeaderAt
  <2>6. /\ EntryLen(a[k]) = BlockSize + a[k].size + Align(a[k].size)
        /\ Align(a[k].size) \in 0 .. BlockSize - 1
    BY <2>3, EntryLenFacts
  <2>7. Begin(a, k) = Begin(a, k - 1) + EntryLen(a[k])
    BY <2>2, StreamFacts
  <2>8. a[k].size # BadSize
    BY <2>3 DEF BadSize
  <2> QED
    BY <2>3, <2>4, <2>5, <2>6, <2>7, <2>8
<1>5. ASSUME NEW t, NEW n, r = Result(t, n), Stands(a, d, t, o + n, k), t # ReceivedHeader
      PROVE  Tracks(a, d, s, o, k, r)
  BY <1>5 DEF Tracks, Result, Reported
<1>6. o + 0 = o
  OBVIOUS
<1> SUFFICES Tracks(a, d, s, o, k, r)
  OBVIOUS
<1> HIDE DEF r, hdr
<1>10. CASE s.tag = "ExpectingHeader"
  <2>1. ASSUME NEW e \in BOOLEAN, e = TRUE, r = Result(ReceivingHeader(BlockSize, e), 0)
        PROVE  Tracks(a, d, s, o, k, r)
    <3> DEFINE t == ReceivingHeader(BlockSize, e)
    <3>1. o = Begin(a, k)
      <4>1. s = ExpectingHeader
        BY <1>1, <1>10, Canonical
      <4> QED
        BY <1>1, <1>3, <4>1, StandsExpecting
    <3>2. ZeroFrom(a, d, Begin(a, k), BlockSize - BlockSize)
      BY <1>2 DEF ZeroFrom
    <3>3. o + 0 = Begin(a, k) + (BlockSize - BlockSize) /\ BlockSize \in 1 .. BlockSize
      BY <1>2, <1>3, <3>1
    <3>4. Stands(a, d, t, o + 0, k)
      BY <1>1, <2>1, <3>2, <3>3, StandsHeader
    <3>5. t # ReceivedHeader
      BY DEF ReceivingHeader, ReceivedHeader, St
    <3> HIDE DEF t
    <3> QED
      BY <1>5, <2>1, <3>4, <3>5 DEF t
  <2>2. r = Result(ReceivingHeader(BlockSize, TRUE), 0)
    BY <1>10 DEF TarNext, r
  <2> QED
    BY <2>1, <2>2, Zenon
<1>11. CASE s.tag = "ReceivingHeader"
  <2> DEFINE n == Advance(b, s.rem)
             z == s.empty /\ AllZero(Fronted(b, n))
             p == BlockSize - s.rem
  <2>1. r = IF n < s.rem THEN Result(ReceivingHeader(s.rem - n, z), n)
            ELSE IF z THEN Result(ReceivingEof(BlockSize), n)
            ELSE Result(ReceivedHeader, n)
    <3>1. r = NextReceivingHeader(s, b)
      BY <1>11 DEF TarNext, r
    <3> QED
      BY <3>1 DEF NextReceivingHeader
  <2>2. n \in 0 .. Len(b) /\ n <= s.rem /\ s.rem \in 1 .. BlockSize /\ p \in Nat
    BY <1>1, <1>2, <1>11 DEF Advance, GoodState
  <2>3. z \in BOOLEAN
    OBVIOUS
  <2>4. o = Begin(a, k) + p /\ (s.empty <=> ZeroFrom(a, d, Begin(a, k), p))
    <3>1. s = ReceivingHeader(s.rem, s.empty)
      BY <1>1, <1>11, Canonical
    <3>2. Stands(a, d, ReceivingHeader(s.rem, s.empty), o, k)
      BY <3>1
    <3> QED
      BY <1>1, <2>2, <3>2, StandsHeader
  <2>5. z <=> ZeroFrom(a, d, Begin(a, k), p + n)
    <3>1. AllZero(Fronted(b, n)) <=> ZeroFrom(a, d, o, n)
      BY <2>2, FrontIsZero
    <3>2. ZeroFrom(a, d, Begin(a, k), p + n) <=>
            (ZeroFrom(a, d, Begin(a, k), p) /\ ZeroFrom(a, d, Begin(a, k) + p, n))
      <4>1. n \in Nat
        BY <1>2, <2>2
      <4> QED
        BY <1>3, <2>2, <4>1, ZeroFromMore
    <3> QED
      BY <2>4, <3>1, <3>2
  <2> HIDE DEF n, z
  <2>6. CASE n < s.rem
    <3> DEFINE rem == s.rem - n
               t == ReceivingHeader(rem, z)
    <3>1. rem \in 1 .. BlockSize /\ p + n = BlockSize - rem
          /\ o + n = Begin(a, k) + (BlockSize - rem)
      <4>1. rem \in 1 .. BlockSize /\ n \in Nat /\ s.rem \in Nat
        BY <1>2, <2>2, <2>6
      <4>2. p + n = BlockSize - rem
        BY <1>2, <4>1
      <4>3. o + n = Begin(a, k) + (BlockSize - rem)
        BY <1>2, <1>3, <2>4, <4>1, SMTT(20)
      <4> QED
        BY <4>1, <4>2, <4>3
    <3>2. z <=> ZeroFrom(a, d, Begin(a, k), BlockSize - rem)
      BY <2>5, <3>1
    <3> HIDE DEF rem
    <3>3. Stands(a, d, t, o + n, k)
      BY <1>1, <2>3, <3>1, <3>2, StandsHeader
    <3>4. t # ReceivedHeader
      BY DEF ReceivingHeader, ReceivedHeader, St
    <3>5. r = Result(t, n)
      BY <2>1, <2>6 DEF rem
    <3> HIDE DEF t
    <3> QED
      BY <1>5, <3>3, <3>4, <3>5
  <2>7. CASE ~ (n < s.rem)
    <3>1. p + n = BlockSize /\ o + n = Begin(a, k) + BlockSize
      BY <1>2, <1>3, <2>2, <2>4, <2>7
    <3>2. z <=> k = Len(a)
      BY <1>1, <2>5, <3>1, ZeroBlockIsEnd
    <3>3. CASE z
      <4>1. r = Result(ReceivingEof(BlockSize), n)
        BY <2>1, <2>7, <3>3
      <4>2. o + n = Begin(a, k) + (EofLen - BlockSize) /\ BlockSize \in 1 .. BlockSize
        BY <1>2, <1>3, <3>1 DEF EofLen
      <4>3. Stands(a, d, ReceivingEof(BlockSize), o + n, k)
        BY <1>1, <3>2, <3>3, <4>2, StandsEnding
      <4>4. ReceivingEof(BlockSize) # ReceivedHeader
        BY DEF ReceivingEof, ReceivedHeader, St
      <4> QED
        BY <1>5, <4>1, <4>3, <4>4
    <3>4. CASE ~ z
      <4>1. r = Result(ReceivedHeader, n)
        BY <2>1, <2>7, <3>4
      <4>2. k + 1 \in 0 .. Len(a) /\ k + 1 > 0 /\ (k + 1) - 1 = k
        BY <1>1, <3>2, <3>4
      <4>3. Stands(a, d, ReceivedHeader, o + n, k + 1)
        BY <3>1, <4>2, StandsReceived
      <4> QED
        BY <4>1, <4>3 DEF Tracks, Result, Reported
    <3> QED
      BY <3>3, <3>4
  <2> QED
    BY <2>6, <2>7
<1>12. CASE s.tag = "ReceivedHeader"
  <2>1. k > 0 /\ o = Begin(a, k - 1) + BlockSize
    <3>1. s = ReceivedHeader
      BY <1>1, <1>12, Canonical
    <3> QED
      BY <1>1, <3>1, StandsReceived
  <2> DEFINE size == a[k].size
             t == ReceivingData(size)
  <2>2. r = Result(t, 0)
    BY <1>4, <1>12, <2>1 DEF TarNext, NextOfEntry, r
  <2>3. size \in Nat /\ size < UsizeMod /\ Begin(a, k - 1) \in Nat
    BY <1>3, <1>4, <2>1
  <2>4. o + 0 = Begin(a, k - 1) + (BlockSize + size - size) /\ size <= size
    <3> HIDE DEF size
    <3> QED
      BY <1>2, <2>1, <2>3
  <2>5. Stands(a, d, t, o + 0, k)
    BY <1>1, <2>1, <2>3, <2>4, StandsData
  <2>6. t # ReceivedHeader
    BY DEF ReceivingData, ReceivedHeader, St
  <2> HIDE DEF t
  <2> QED
    BY <1>5, <2>2, <2>5, <2>6
<1>13. CASE s.tag = "ReceivingData"
  <2> DEFINE n == Advance(b, s.rem)
             size == a[k].size
  <2>1. s.rem < UsizeMod /\ AsUsize(s.rem) = s.rem
    BY <1>1, <1>13 DEF CounterFits, AsUsize
  <2>2. r = IF n < s.rem THEN Result(ReceivingData(s.rem - n), n)
            ELSE Result(ReceivedData, n)
    <3>1. r = NextReceivingData(s, b)
      BY <1>13 DEF TarNext, r
    <3> QED
      BY <2>1, <3>1 DEF NextReceivingData
  <2>3. n \in 0 .. Len(b) /\ n <= s.rem
    BY <1>1, <1>2 DEF Advance
  <2>4. k > 0 /\ o = Begin(a, k - 1) + (BlockSize + size - s.rem) /\ s.rem <= size
    <3>1. s = ReceivingData(s.rem)
      BY <1>1, <1>13, Canonical
    <3>2. Stands(a, d, ReceivingData(s.rem), o, k)
      BY <3>1
    <3> QED
      BY <1>1, <2>1, <3>2, StandsData
  <2>5. size \in Nat /\ Begin(a, k - 1) \in Nat
    BY <1>3, <1>4, <2>4
  <2> HIDE DEF n, size
  <2>6. CASE n < s.rem
    <3> DEFINE rem == s.rem - n
               t == ReceivingData(rem)
    <3>1. rem \in Nat /\ rem < UsizeMod /\ rem <= size
          /\ o + n = Begin(a, k - 1) + (BlockSize + size - rem)
      <4>1. rem \in Nat /\ n \in Nat /\ s.rem \in Nat /\ rem <= s.rem
        BY <1>1, <1>2, <2>3, <2>6
      <4>2. rem < UsizeMod /\ rem <= size
        BY <1>2, <2>1, <2>4, <2>5, <4>1
      <4>3. o + n = Begin(a, k - 1) + (BlockSize + size - rem)
        <5> DEFINE base == Begin(a, k - 1)
                   left == s.rem
        <5>1. base \in Nat /\ left \in Nat /\ o = base + (BlockSize + size - left)
          BY <2>4, <2>5, <4>1
        <5>2. rem = left - n
          OBVIOUS
        <5> HIDE DEF base, left, rem
        <5>3. o + n = base + (BlockSize + size - rem)
          BY <1>2, <2>5, <4>1, <5>1, <5>2
        <5> QED
          BY <5>3 DEF base
      <4> QED
        BY <4>1, <4>2, <4>3
    <3> HIDE DEF rem
    <3>2. Stands(a, d, t, o + n, k)
      BY <1>1, <2>4, <3>1, StandsData DEF size
    <3>3. t # ReceivedHeader
      BY DEF ReceivingData, ReceivedHeader, St
    <3>4. r = Result(t, n)
      BY <2>2, <2>6 DEF rem
    <3> HIDE DEF t
    <3> QED
      BY <1>5, <3>2, <3>3, <3>4
  <2>7. CASE ~ (n < s.rem)
    <3>1. o + n = Begin(a, k - 1) + (BlockSize + size)
      <4> DEFINE base == Begin(a, k - 1)
                 left == s.rem
      <4>1. base \in Nat /\ left \in Nat /\ o = base + (BlockSize + size - left)
            /\ n = left
        BY <1>1, <1>2, <2>3, <2>4, <2>5, <2>7
      <4> HIDE DEF base, left
      <4>2. o + n = base + (BlockSize + size)
        BY <1>2, <2>5, <4>1
      <4> QED
        BY <4>2 DEF base
    <3>2. Stands(a, d, ReceivedData, o + n, k)
      BY <1>1, <2>4, <3>1, StandsAfterData DEF size
    <3>3. ReceivedData # ReceivedHeader
      BY DEF ReceivedData, ReceivedHeader, St
    <3> QED
      BY <1>5, <2>2, <2>7, <3>2, <3>3
  <2> QED
    BY <2>6, <2>7
<1>14. CASE s.tag = "ReceivedData"
  <2> DEFINE size == a[k].size
             t == AligningData(Align(size))
  <2>1. k > 0 /\ o = Begin(a, k - 1) + (BlockSize + size)
    <3>1. s = ReceivedData
      BY <1>1, <1>14, Canonical
    <3> QED
      BY <1>1, <3>1, StandsAfterData
  <2>2. r = Result(t, 0)
    BY <1>4, <1>14, <2>1 DEF TarNext, NextOfEntry, r
  <2>3. /\ size \in Nat /\ Begin(a, k - 1) \in Nat /\ Align(size) \in 0 .. BlockSize - 1
        /\ EntryLen(a[k]) = BlockSize + size + Align(size)
    BY <1>3, <1>4, <2>1
  <2>4. o + 0 = Begin(a, k - 1) + (EntryLen(a[k]) - Align(size)) /\ Align(size) <= Align(size)
    <3> HIDE DEF size
    <3> QED
      BY <1>2, <2>1, <2>3
  <2>5. Stands(a, d, t, o + 0, k)
    BY <1>1, <2>1, <2>3, <2>4, StandsAligning
  <2>6. t # ReceivedHeader
    BY DEF AligningData, ReceivedHeader, St
  <2> HIDE DEF t
  <2> QED
    BY <1>5, <2>2, <2>5, <2>6
<1>15. CASE s.tag = "AligningData"
  <2> DEFINE n == Advance(b, s.rem)
             len == EntryLen(a[k])
             al == Align(a[k].size)
  <2>1. r = IF n < s.rem THEN Result(AligningData(s.rem - n), n)
            ELSE Result(AlignedData, n)
    <3>1. r = NextAligningData(s, b)
      BY <1>15 DEF TarNext, r
    <3> QED
      BY <3>1 DEF NextAligningData
  <2>2. n \in 0 .. Len(b) /\ n <= s.rem /\ s.rem \in 0 .. BlockSize - 1
    BY <1>1, <1>2, <1>15 DEF Advance, GoodState
  <2>3. k > 0 /\ o = Begin(a, k - 1) + (len - s.rem) /\ s.rem <= al
    <3>1. s = AligningData(s.rem)
      BY <1>1, <1>15, Canonical
    <3>2. Stands(a, d, AligningData(s.rem), o, k)
      BY <3>1
    <3> QED
      BY <1>1, <2>2, <3>2, StandsAligning
  <2>4. len \in Nat /\ al \in Nat /\ Begin(a, k - 1) \in Nat
    BY <1>2, <1>3, <1>4, <2>3
  <2> HIDE DEF n, len, al
  <2>5. CASE n < s.rem
    <3> DEFINE rem == s.rem - n
               t == AligningData(rem)
    <3>1. rem \in 0 .. BlockSize - 1 /\ rem <= al
          /\ o + n = Begin(a, k - 1) + (len - rem)
      <4>1. rem \in Nat /\ n \in Nat /\ s.rem \in Nat /\ rem <= s.rem
        BY <1>2, <2>2, <2>5
      <4>2. rem \in 0 .. BlockSize - 1 /\ rem <= al
        BY <1>2, <2>2, <2>3, <2>4, <4>1
      <4>3. o + n = Begin(a, k - 1) + (len - rem)
        BY <2>3, <2>4, <4>1
      <4> QED
        BY <4>2, <4>3
    <3> HIDE DEF rem
    <3>2. Stands(a, d, t, o + n, k)
      BY <1>1, <2>3, <3>1, StandsAligning DEF len, al
    <3>3. t # ReceivedHeader
      BY DEF AligningData, ReceivedHeader, St
    <3>4. r = Result(t, n)
      BY <2>1, <2>5 DEF rem
    <3> HIDE DEF t
    <3> QED
      BY <1>5, <3>2, <3>3, <3>4
  <2>6. CASE ~ (n < s.rem)
    <3>1. o + n = Begin(a, k - 1) + len
      BY <1>1, <1>2, <2>2, <2>3, <2>4, <2>6, SMTT(20)
    <3>2. Stands(a, d, AlignedData, o + n, k)
      BY <1>1, <2>3, <3>1, StandsAligned DEF len
    <3>3. AlignedData # ReceivedHeader
      BY DEF AlignedData, ReceivedHeader, St
    <3> QED
      BY <1>5, <2>1, <2>6, <3>2, <3>3
  <2> QED
    BY <2>5, <2>6
<1>16. CASE s.tag = "AlignedData"
  <2>1. k > 0 /\ o = Begin(a, k - 1) + EntryLen(a[k])
    <3>1. s = AlignedData
      BY <1>1, <1>16, Canonical
    <3> QED
      BY <1>1, <3>1, StandsAligned
  <2>2. r = Result(ExpectingHeader, 0)
    BY <1>16 DEF TarNext, r
  <2>3. o + 0 = Begin(a, k)
    BY <1>4, <1>6, <2>1
  <2>4. Stands(a, d, ExpectingHeader, o + 0, k)
    BY <1>1, <1>3, <2>3, StandsExpecting
  <2>5. ExpectingHeader # ReceivedHeader
    BY DEF ExpectingHeader, ReceivedHeader, St
  <2> QED
    BY <1>5, <2>2, <2>4, <2>5
<1>17. CASE s.tag = "ReceivingEof"
  <2> DEFINE n == Advance(b, s.rem)
             w == Streams[a][d]
  <2>1. r = IF ~ AllZero(Fronted(b, n)) THEN Failure(s, "ExpectingEmptyBlock")
            ELSE IF n < s.rem THEN Result(ReceivingEof(s.rem - n), n)
            ELSE Result(ReceivedEof, n)
    <3>1. r = NextReceivingEof(s, b)
      BY <1>17 DEF TarNext, r
    <3> QED
      BY <3>1 DEF NextReceivingEof
  <2>2. n \in 0 .. Len(b) /\ n <= s.rem /\ s.rem \in 1 .. BlockSize
    BY <1>1, <1>2, <1>17 DEF Advance, GoodState
  <2>3. k = Len(a) /\ o = Begin(a, k) + (EofLen - s.rem)
    <3>1. s = ReceivingEof(s.rem)
      BY <1>1, <1>17, Canonical
    <3>2. Stands(a, d, ReceivingEof(s.rem), o, k)
      BY <3>1
    <3> QED
      BY <1>1, <2>2, <3>2, StandsEnding
  <2>4. AllZero(Fronted(b, n)) <=> ZeroFrom(a, d, o, n)
    BY <2>2, FrontIsZero
  <2>5. EofLen \in Nat /\ EofLen >= 2 * s.rem
    BY <1>2, <2>2 DEF EofLen
  <2>6. /\ \A i \in 1 .. EofLen - 1 : w[Begin(a, k) + i] = ZeroByte
        /\ w[Begin(a, k) + EofLen] = IF d THEN Garbage ELSE ZeroByte
    BY <2>3, StreamFacts
  <2> HIDE DEF n, w
  <2>7. CASE ~ AllZero(Fronted(b, n))
    <3>1. PICK i \in 1 .. n : w[o + i] # ZeroByte
      BY <2>4, <2>7 DEF ZeroFrom, w
    <3> DEFINE j == (EofLen - s.rem) + i
    <3>2. j \in 1 .. EofLen /\ o + i = Begin(a, k) + j
      <4>1. i \in Nat /\ s.rem \in Nat /\ i >= 1 /\ i <= s.rem
        BY <1>2, <2>2
      <4>2. j \in 1 .. EofLen
        BY <2>5, <4>1
      <4>3. o + i = Begin(a, k) + j
        BY <1>3, <2>3, <2>5, <4>1
      <4> QED
        BY <4>2, <4>3
    <3> HIDE DEF j
    <3>3. j \in 1 .. EofLen - 1 \/ j = EofLen
      BY <2>5, <3>2
    <3>4. d
      BY <2>6, <3>1, <3>2, <3>3
    <3>5. r.err = "ExpectingEmptyBlock"
      BY <2>1, <2>7 DEF Failure
    <3> QED
      BY <3>4, <3>5 DEF Tracks
  <2>8. CASE AllZero(Fronted(b, n)) /\ n < s.rem
    <3> DEFINE rem == s.rem - n
               t == ReceivingEof(rem)
    <3>1. rem \in 1 .. BlockSize /\ o + n = Begin(a, k) + (EofLen - rem)
      <4>1. rem \in 1 .. BlockSize /\ n \in Nat /\ s.rem \in Nat
        BY <1>2, <2>2, <2>8
      <4>2. o + n = Begin(a, k) + (EofLen - rem)
        <5> DEFINE base == Begin(a, k)
                   left == s.rem
        <5>1. /\ base \in Nat /\ left \in Nat /\ o = base + (EofLen - left)
              /\ rem = left - n
          BY <1>3, <2>3, <4>1
        <5> HIDE DEF base, left, rem
        <5>2. o + n = base + (EofLen - rem)
          BY <2>5, <4>1, <5>1
        <5> QED
          BY <5>2 DEF base
      <4> QED
        BY <4>1, <4>2
    <3> HIDE DEF rem
    <3>2. Stands(a, d, t, o + n, k)
      BY <1>1, <2>3, <3>1, StandsEnding
    <3>3. t # ReceivedHeader
      BY DEF ReceivingEof, ReceivedHeader, St
    <3>4. r = Result(t, n)
      BY <2>1, <2>8 DEF rem
    <3> HIDE DEF t
    <3> QED
      BY <1>5, <3>2, <3>3, <3>4
  <2>9. CASE AllZero(Fronted(b, n)) /\ ~ (n < s.rem)
    <3>1. n = s.rem
      BY <1>1, <1>2, <2>2, <2>9
    <3> DEFINE end == Begin(a, k) + EofLen
    <3>6. n \in 1 .. n /\ o + n = end
      BY <1>2, <1>3, <2>2, <2>3, <2>5, <3>1
    <3>2. w[Begin(a, k) + EofLen] = ZeroByte
      BY <2>4, <2>9, <3>6 DEF ZeroFrom, w
    <3>3. ~ d
      BY <2>6, <3>2 DEF Garbage, ZeroByte
    <3>4. Stands(a, d, ReceivedEof, o + n, k)
      BY <1>1, <2>3, <3>6, <3>3, StandsEnd
    <3>5. ReceivedEof # ReceivedHeader
      BY DEF ReceivedEof, ReceivedHeader, St
    <3> QED
      BY <1>5, <2>1, <2>9, <3>4, <3>5
  <2> QED
    BY <2>7, <2>8, <2>9
<1>18. CASE s.tag = "ReceivedEof"
  <2>1. r = Failure(s, "Eof")
    BY <1>18 DEF TarNext, r
  <2>2. s = ReceivedEof
    BY <1>1, <1>18, Canonical
  <2> QED
    BY <2>1, <2>2 DEF Tracks, Failure
<1>19. s.tag \in Tags
  BY <1>1 DEF GoodState, StateType
<1>20. Tracks(a, d, s, o, k, r)
  BY <1>10, <1>11, <1>12, <1>13, <1>14, <1>15, <1>16, <1>17, <1>18, <1>19 DEF Tags
<1> QED
  BY <1>20

-----------------------------------------------------------------------------
(* A run of take_until tracks the archive as its transitions do.           *)
OnTrack(a, d, b, o, k, acc) ==
  /\ Going(acc, b)
  /\ acc.err = "more" => /\ Stands(a, d, acc.state, o + acc.n, k)
                         /\ acc.state = ReceivedEof => acc.n = 0
  /\ acc.err = "none" => Stands(a, d, acc.state, o + acc.n, Reported(acc.state, k))
  /\ acc.err \in {"more", "none", "ExpectingEmptyBlock", "Eof"}
  /\ acc.err = "ExpectingEmptyBlock" => d
  /\ acc.err = "Eof" => Stands(a, d, ReceivedEof, o, k)

LEMMA HeadersFit ==
  ASSUME SizesFit, NEW a \in Archives, NEW k \in 0 .. Len(a)
  PROVE  SizeFits(HeaderAt(a, k))
<1>1. CASE k = 0
  BY <1>1, UsizeAssumption, BlockSizeAssumption DEF HeaderAt, SizeFits, Header, NoHeader
<1>2. CASE k # 0
  <2>1. k \in 1 .. Len(a)
    BY <1>2, ArchiveType
  <2>2. a[k] \in HeaderType /\ a[k].size < UsizeMod
    BY <2>1, ArchiveType DEF SizesFit
  <2> QED
    BY <1>2, <2>2 DEF HeaderAt, SizeFits, Header
<1> QED
  BY <1>1, <1>2

LEMMA OnTrackNext ==
  ASSUME SizesFit, NEW a \in Archives, NEW d \in BOOLEAN, NEW o \in Nat,
         NEW k \in 0 .. Len(a), NEW b, PartAt(b, a, d, o),
         NEW acc, OnTrack(a, d, b, o, k, acc)
  PROVE  OnTrack(a, d, b, o, k, TakeStep(b, HeaderAt(a, k))[acc])
<1> DEFINE hdr  == HeaderAt(a, k)
           next == TakeStep(b, hdr)[acc]
           rest == SubSeq(b, acc.n + 1, Len(b))
           r    == TarNext(acc.state, rest, hdr)
<1>1. /\ Going(acc, b) /\ acc \in Taken /\ acc.n \in Nat /\ acc.n <= Len(b)
      /\ b \in Seq(Byte) /\ Len(b) \in Nat /\ SizeFits(hdr)
  BY HeadersFit, LenProperties DEF OnTrack, Going, Taken, PartAt
<1>2. CASE acc.err # "more"
  <2>1. next = acc
    BY <1>1, <1>2, StepIdle
  <2> QED
    BY <2>1
<1>3. CASE acc.err = "more"
  <2>1. /\ Going(next, b)
        /\ next.err = "more" => next.state \notin Stop
    BY <1>1, <1>3, OneRound
  <2>2. next = TakenAfter(acc.n, b, r)
    BY <1>1, <1>3, StepIs
  <2> DEFINE at == o + acc.n
  <2>3. PartAt(rest, a, d, at)
    <3>1. /\ rest \in Seq(Byte) /\ Len(rest) = Len(b) - acc.n
          /\ \A i \in 1 .. Len(b) - acc.n : rest[i] = b[acc.n + i]
      BY <1>1, RestOf
    <3>2. o + Len(b) <= Len(Streams[a][d]) /\ Len(Streams[a][d]) \in Nat
          /\ \A i \in 1 .. Len(b) : b[i] = Streams[a][d][o + i]
      BY StreamFacts, LenProperties DEF PartAt
    <3> DEFINE w == Streams[a][d]
    <3> HIDE DEF rest, w
    <3>3. at + Len(rest) <= Len(w)
      BY <1>1, <3>1, <3>2 DEF w
    <3>4. ASSUME NEW i \in 1 .. Len(rest) PROVE rest[i] = w[at + i]
      <4>1. acc.n + i \in 1 .. Len(b) /\ o + (acc.n + i) = at + i
            /\ i \in 1 .. Len(b) - acc.n
        BY <1>1, <3>1
      <4>2. b[acc.n + i] = w[o + (acc.n + i)]
        BY <3>2, <4>1 DEF w
      <4> QED
        BY <3>1, <4>1, <4>2
    <3> QED
      BY <3>1, <3>3, <3>4 DEF PartAt, w
  <2>4. Stands(a, d, acc.state, at, k) /\ at \in Nat
        /\ (acc.state = ReceivedEof => acc.n = 0)
    BY <1>1, <1>3 DEF OnTrack
  <2> HIDE DEF at, rest
  <2>5. Tracks(a, d, acc.state, at, k, r)
    BY <2>3, <2>4, TracksNext
  <2>6. r.n \in Nat
    <3>1. acc.state \in StateType /\ hdr \in Header
      BY <1>1 DEF Taken, SizeFits
    <3>2. rest \in Seq(Byte)
      BY <2>3 DEF PartAt
    <3>3. r.n \in 0 .. Len(rest)
      BY <3>1, <3>2, TarNextType
    <3> QED
      BY <3>2, <3>3, LenProperties
  <2> HIDE DEF r, next, hdr
  <2>7. at + r.n = o + (acc.n + r.n)
    BY <1>1, <2>6 DEF at
  <2>8. /\ next.state = r.state /\ next.n = acc.n + r.n
        /\ next.err = r.err \/ (next.err = "more" /\ r.err = "none")
    BY <2>2 DEF TakenAfter
  <2>9. r.err # "more"
    BY <2>5 DEF Tracks
  <2>10. CASE next.err = "more"
    <3>1. r.err = "none"
      BY <2>8, <2>9, <2>10
    <3>2. next.state # ReceivedHeader /\ next.state # ReceivedEof
      BY <2>1, <2>10 DEF Stop
    <3>3. Stands(a, d, next.state, o + next.n, k)
      BY <2>5, <2>7, <2>8, <3>1, <3>2 DEF Tracks, Reported
    <3> QED
      BY <2>1, <2>10, <3>2, <3>3 DEF OnTrack, next, hdr
  <2>11. CASE next.err # "more"
    <3>1. next.err = r.err
      BY <2>8, <2>11
    <3>2. next.err = "none" => Stands(a, d, next.state, o + next.n, Reported(next.state, k))
      BY <2>5, <2>7, <2>8, <3>1 DEF Tracks
    <3>3. next.err \in {"none", "ExpectingEmptyBlock", "Eof"}
          /\ (next.err = "ExpectingEmptyBlock" => d)
      BY <2>5, <3>1 DEF Tracks
    <3>4. next.err = "Eof" => Stands(a, d, ReceivedEof, o, k)
      <4>1. SUFFICES ASSUME next.err = "Eof" PROVE Stands(a, d, ReceivedEof, o, k)
        OBVIOUS
      <4>2. acc.state = ReceivedEof
        BY <2>5, <3>1, <4>1 DEF Tracks
      <4>3. at = o
        BY <2>4, <4>2 DEF at
      <4> QED
        BY <2>4, <4>2, <4>3
    <3> QED
      BY <2>1, <2>11, <3>2, <3>3, <3>4 DEF OnTrack, next, hdr
  <2> QED
    BY <2>10, <2>11
<1> QED
  BY <1>2, <1>3

LEMMA OnTrackRounds ==
  ASSUME SizesFit, NEW a \in Archives, NEW d \in BOOLEAN, NEW o \in Nat,
         NEW k \in 0 .. Len(a), NEW b, PartAt(b, a, d, o),
         NEW acc, OnTrack(a, d, b, o, k, acc)
  PROVE  OnTrack(a, d, b, o, k, Rounds(acc, b, HeaderAt(a, k)))
<1> DEFINE step == TakeStep(b, HeaderAt(a, k))
           Fine(x) == OnTrack(a, d, b, o, k, x)
<1>1. ASSUME NEW x, Fine(x) PROVE Fine(step[x])
  BY <1>1, OnTrackNext
<1>2. Rounds(acc, b, HeaderAt(a, k)) =
        step[step[step[step[step[step[step[step[acc]]]]]]]]
  BY DEF Rounds
<1>3. Fine(acc)
  OBVIOUS
<1> HIDE DEF step, Fine
<1>4. \A x : Fine(x) => Fine(step[x])
  BY <1>1
<1>5. Fine(step[step[step[step[acc]]]])
  BY <1>3, <1>4
<1>6. Fine(step[step[step[step[step[step[step[step[acc]]]]]]]])
  BY <1>4, <1>5
<1> QED
  BY <1>2, <1>6 DEF Fine

LEMMA TakeUntilTracks ==
  ASSUME SizesFit, NEW a \in Archives, NEW d \in BOOLEAN, NEW s, NEW o \in Nat, NEW k,
         Stands(a, d, s, o, k), NEW b, PartAt(b, a, d, o)
  PROVE  LET r == TakeUntil(s, b, HeaderAt(a, k))
         IN  OnTrack(a, d, b, o, k, r) /\ r.err # "more"
<1>1. k \in 0 .. Len(a) /\ CounterFits(s) /\ b \in Seq(Byte)
  BY DEF Stands, PartAt
<1>2. OnTrack(a, d, b, o, k, TakeStart(s))
  <2>1. Going(TakeStart(s), b)
    BY <1>1, GoingStart
  <2>2. TakeStart(s).err = "more" /\ TakeStart(s).state = s /\ TakeStart(s).n = 0 /\ o + 0 = o
    BY DEF TakeStart
  <2> QED
    BY <2>1, <2>2 DEF OnTrack
<1>3. OnTrack(a, d, b, o, k, TakeUntil(s, b, HeaderAt(a, k)))
  BY <1>1, <1>2, OnTrackRounds, TakeIsRounds
<1>4. TakeUntil(s, b, HeaderAt(a, k)).err # "more"
  BY <1>1, HeadersFit, TakeUntilEnds
<1> QED
  BY <1>3, <1>4

-----------------------------------------------------------------------------
(* The chunks, whole and cut in slices.                                    *)
LEMMA ConcatThree ==
  ASSUME NEW S, NEW c1 \in Seq(S), NEW c2 \in Seq(S), NEW c3 \in Seq(S)
  PROVE  <<c1, c2, c3>> \in Seq(Seq(S)) /\ (c1 \o c2) \o c3 = Concat(<<c1, c2, c3>>)
<1> DEFINE slices == <<c1, c2, c3>>
<1>1. /\ slices \in Seq(Seq(S)) /\ Len(slices) = 3
      /\ slices[1] = c1 /\ slices[2] = c2 /\ slices[3] = c3
  OBVIOUS
<1> HIDE DEF slices
<1>2. PICK g \in [0 .. Len(slices) -> Seq(S)] :
        /\ g[0] = <<>>
        /\ \A k \in 1 .. Len(slices) : g[k] = g[k - 1] \o slices[k]
        /\ Concat(slices) = g[Len(slices)]
  BY <1>1, ConcatSteps
<1>3. g[1] = g[0] \o slices[1]
  <2>1. g[1] = g[1 - 1] \o slices[1] /\ 1 - 1 = 0
    BY <1>1, <1>2
  <2> QED
    BY <2>1
<1>4. g[2] = g[1] \o slices[2]
  <2>1. g[2] = g[2 - 1] \o slices[2] /\ 2 - 1 = 1
    BY <1>1, <1>2
  <2> QED
    BY <2>1
<1>5. g[3] = g[2] \o slices[3]
  <2>1. g[3] = g[3 - 1] \o slices[3] /\ 3 - 1 = 2
    BY <1>1, <1>2
  <2> QED
    BY <2>1
<1>6. <<>> \o c1 = c1
  BY ConcatEmptySeq
<1>7. Concat(slices) = (c1 \o c2) \o c3
  BY <1>1, <1>2, <1>3, <1>4, <1>5, <1>6, Zenon
<1> QED
  BY <1>1, <1>7 DEF slices

LEMMA JoinCuts ==
  ASSUME NEW S, NEW b \in Seq(S), NEW i \in 0 .. Len(b), NEW j \in i .. Len(b)
  PROVE  SubSeq(b, 1, i) \o SubSeq(b, i + 1, j) = SubSeq(b, 1, j)
<1> DEFINE x == SubSeq(b, 1, i)
           y == SubSeq(b, i + 1, j)
           z == SubSeq(b, 1, j)
<1>1. Len(b) \in Nat /\ i \in Nat /\ j \in Nat /\ i <= j /\ j <= Len(b)
  BY LenProperties
<1>2. x \in Seq(S) /\ Len(x) = i /\ \A m \in 1 .. i : x[m] = b[m]
  BY <1>1, SubSeqProperties
<1>3. z \in Seq(S) /\ Len(z) = j /\ \A m \in 1 .. j : z[m] = b[m]
  BY <1>1, SubSeqProperties
<1>4. y \in Seq(S) /\ Len(y) = j - i /\ \A m \in 1 .. j - i : y[m] = b[i + m]
  <2>1. /\ y \in Seq(S)
        /\ Len(y) = IF i + 1 <= j THEN j - (i + 1) + 1 ELSE 0
        /\ \A m \in 1 .. j - (i + 1) + 1 : y[m] = b[(i + 1) + m - 1]
    BY <1>1, SubSeqProperties
  <2>2. \A m \in Int : (i + 1) + m - 1 = i + m
    BY <1>1
  <2>3. j - (i + 1) + 1 = j - i /\ (~ (i + 1 <= j) => j - i = 0)
    BY <1>1
  <2> QED
    BY <2>1, <2>2, <2>3
<1> HIDE DEF x, y, z
<1>5. /\ x \o y \in Seq(S) /\ Len(x \o y) = Len(x) + Len(y)
      /\ \A m \in 1 .. Len(x) + Len(y) :
           (x \o y)[m] = IF m <= Len(x) THEN x[m] ELSE y[m - Len(x)]
  BY <1>2, <1>4, ConcatProperties
<1>6. Len(x \o y) = Len(z) /\ Len(x) + Len(y) = j
  BY <1>1, <1>2, <1>3, <1>4, <1>5
<1>7. ASSUME NEW m \in 1 .. Len(z) PROVE (x \o y)[m] = z[m]
  <2>1. CASE m <= i
    <3>1. m \in 1 .. i /\ m \in 1 .. j
      BY <1>1, <1>3, <2>1
    <3>2. x[m] = b[m] /\ z[m] = b[m]
      BY <1>2, <1>3, <3>1
    <3>3. (x \o y)[m] = x[m]
      BY <1>2, <1>5, <1>6, <2>1, <3>1
    <3> QED
      BY <3>2, <3>3
  <2>2. CASE ~ (m <= i)
    <3>1. m - i \in 1 .. j - i /\ i + (m - i) = m /\ m \in 1 .. j
      BY <1>1, <1>3, <1>7, <2>2
    <3>2. y[m - i] = b[m] /\ z[m] = b[m]
      BY <1>3, <1>4, <3>1
    <3>3. (x \o y)[m] = y[m - i]
      BY <1>2, <1>5, <1>6, <2>2, <3>1
    <3> QED
      BY <3>2, <3>3
  <2> QED
    BY <2>1, <2>2
<1>8. x \o y = z
  BY <1>3, <1>5, <1>6, <1>7, SeqEqual
<1> QED
  BY <1>8 DEF x, y, z

(* Feed gives the chunk as one slice, so take_until runs once on it.       *)
LEMMA FedInOneSlice ==
  ASSUME NEW s, CounterFits(s), NEW b \in Seq(Byte), NEW hdr, SizeFits(hdr)
  PROVE  Same(TakeUntil(s, b, hdr), TakeSlicesInOrder(s, <<b>>, hdr))
<1>1. <<b>> \in Seq(Seq(Byte)) /\ Concat(<<b>>) = b
  BY ConcatOne
<1> DEFINE slices == <<b>>
<1> HIDE DEF slices
<1>2. Same(TakeSlices(s, Concat(slices), hdr), TakeSlicesInOrder(s, slices, hdr))
  BY <1>1, SlicesAreTakenAsOne DEF slices
<1> QED
  BY <1>1, <1>2 DEF TakeSlices, slices

-----------------------------------------------------------------------------
(* The invariant: the state stands where the bytes consumed and the        *)
(* headers reported say.  It is inductive, for the stream is laid out as   *)
(* the state machine expects it, wherever the chunks end.                  *)
FeedInv ==
  /\ arch \in Archives /\ damaged \in BOOLEAN /\ off \in 0 .. Len(Stream)
  /\ Stands(arch, damaged, state, off, cur)
  /\ err \in {"none", "ExpectingEmptyBlock", "Eof"}
  /\ OnlyDamageIsRefused

LEMMA FeedTypes ==
  ASSUME FeedInv
  PROVE  /\ Stream \in Seq(Byte) /\ Len(Stream) \in Nat /\ off \in Nat
         /\ cur \in 0 .. Len(arch) /\ CounterFits(state)
         /\ CurrentHeader = HeaderAt(arch, cur)
<1>1. Stream \in Seq(Byte)
  BY StreamFacts DEF FeedInv, Stream
<1> QED
  BY <1>1, LenProperties DEF FeedInv, Stands, CurrentHeader, HeaderAt

LEMMA ChunkIsPart ==
  ASSUME FeedInv, NEW k \in Chunks
  PROVE  /\ PartAt(Chunk(k), arch, damaged, off) /\ Chunk(k) \in Seq(Byte)
         /\ Len(Chunk(k)) = k /\ k \in Nat
<1> DEFINE w == Stream
           c == Chunk(k)
<1>1. w \in Seq(Byte) /\ Len(w) \in Nat /\ off \in Nat
  BY FeedTypes
<1>2. k \in Nat /\ off + k <= Len(w)
  BY MaxChunkAssumption DEF Chunks
<1> HIDE DEF w
<1>3. /\ c \in Seq(Byte)
      /\ Len(c) = IF off + 1 <= off + k THEN off + k - (off + 1) + 1 ELSE 0
      /\ \A i \in 1 .. off + k - (off + 1) + 1 : c[i] = w[(off + 1) + i - 1]
  BY <1>1, <1>2, SubSeqProperties DEF Chunk, w
<1>4. Len(c) = k /\ off + k - (off + 1) + 1 = k /\ \A i \in Int : (off + 1) + i - 1 = off + i
  BY <1>1, <1>2, <1>3
<1> HIDE DEF c
<1>5. off + Len(c) <= Len(w) /\ \A i \in 1 .. Len(c) : c[i] = w[off + i]
  BY <1>1, <1>2, <1>3, <1>4
<1>6. w = Streams[arch][damaged]
  BY DEF w, Stream
<1> QED
  BY <1>2, <1>3, <1>4, <1>5, <1>6 DEF PartAt, c

LEMMA FeedInitInv == ASSUME Init PROVE FeedInv
<1>1. arch \in Archives /\ damaged \in BOOLEAN
  BY DEF Init
<1>2. Begin(arch, 0) = 0 /\ Len(arch) \in Nat /\ Len(Stream) \in Nat
  BY <1>1, StreamFacts, ArchiveType, LenProperties DEF Stream
<1>3. Stands(arch, damaged, ExpectingHeader, 0, 0)
  BY <1>2, StandsExpecting
<1> QED
  BY <1>1, <1>2, <1>3 DEF Init, FeedInv, OnlyDamageIsRefused

LEMMA FeedStepInv == ASSUME SizesFit, FeedInv, [Next]_vars PROVE FeedInv'
<1>1. CASE UNCHANGED vars
  BY <1>1 DEF vars, FeedInv, Stream, OnlyDamageIsRefused
<1>2. ASSUME NEW k \in Chunks, Feed(k) PROVE FeedInv'
  <2> DEFINE b == Chunk(k)
             r == TakeSlicesInOrder(state, <<b>>, CurrentHeader)
             w == TakeUntil(state, b, HeaderAt(arch, cur))
  <2>1. /\ arch \in Archives /\ damaged \in BOOLEAN
        /\ Stands(arch, damaged, state, off, cur)
    BY DEF FeedInv
  <2>2. /\ off \in Nat /\ cur \in 0 .. Len(arch) /\ CounterFits(state)
        /\ CurrentHeader = HeaderAt(arch, cur) /\ Len(Stream) \in Nat
    BY FeedTypes
  <2>3. /\ PartAt(b, arch, damaged, off) /\ b \in Seq(Byte)
        /\ Len(b) = k /\ k \in Nat /\ off + k <= Len(Stream)
    BY ChunkIsPart DEF Chunks
  <2>4. err = "none" /\ Take(r) /\ arch' = arch /\ damaged' = damaged
    BY <1>2 DEF Feed
  <2>5. Same(w, r)
    <3>1. SizeFits(HeaderAt(arch, cur))
      BY <2>1, <2>2, HeadersFit
    <3>2. Same(w, TakeSlicesInOrder(state, <<b>>, HeaderAt(arch, cur)))
      <4> HIDE DEF b
      <4> QED
        BY <2>2, <2>3, <3>1, FedInOneSlice
    <3> QED
      BY <2>2, <3>2
  <2>6. OnTrack(arch, damaged, b, off, cur, w) /\ w.err # "more"
    <3> HIDE DEF b
    <3> QED
      BY <2>1, <2>2, <2>3, TakeUntilTracks
  <2>7. w.n \in Nat /\ w.n <= Len(b)
    BY <2>6 DEF OnTrack, Going, Taken
  <2> HIDE DEF b, r, w
  <2>8. Stream' = Stream
    BY <2>4 DEF Stream
  <2>9. CASE r.err = "none"
    <3>1. w.err = "none" /\ w.state = r.state /\ w.n = r.n
      BY <2>5, <2>9 DEF Same
    <3>2. /\ state' = r.state /\ off' = off + r.n /\ err' = "none"
          /\ cur' = Reported(r.state, cur)
      BY <2>4, <2>9 DEF Take, Reported
    <3>3. Stands(arch, damaged, state', off', cur')
      BY <2>6, <3>1, <3>2 DEF OnTrack
    <3>4. off' \in 0 .. Len(Stream)
      BY <2>2, <2>3, <2>7, <3>1, <3>2
    <3> QED
      BY <2>1, <2>4, <2>8, <3>2, <3>3, <3>4 DEF FeedInv, OnlyDamageIsRefused
  <2>10. CASE r.err # "none"
    <3>1. w.err = r.err /\ r.err \in {"ExpectingEmptyBlock", "Eof"}
      BY <2>5, <2>6, <2>10 DEF Same, OnTrack
    <3>2. state' = state /\ off' = off /\ cur' = cur /\ err' = r.err
      BY <2>4, <2>10 DEF Take
    <3>3. err' = "ExpectingEmptyBlock" => damaged
      BY <2>6, <3>1, <3>2 DEF OnTrack
    <3>4. err' = "Eof" => ~ damaged /\ off = Len(Stream)
      <4>1. SUFFICES ASSUME err' = "Eof" PROVE ~ damaged /\ off = Len(Stream)
        OBVIOUS
      <4>2. Stands(arch, damaged, ReceivedEof, off, cur)
        BY <2>6, <3>1, <3>2, <4>1 DEF OnTrack
      <4>3. cur = Len(arch) /\ off = Begin(arch, cur) + EofLen /\ ~ damaged
        BY <2>2, <4>2, StandsEnd
      <4>4. Len(Stream) = Begin(arch, Len(arch)) + EofLen
        BY <2>1, StreamFacts DEF Stream
      <4> QED
        BY <4>3, <4>4
    <3>5. OnlyDamageIsRefused'
      BY <2>4, <2>8, <3>2, <3>3, <3>4 DEF OnlyDamageIsRefused
    <3>6. off' \in 0 .. Len(Stream)
      BY <3>2 DEF FeedInv
    <3> QED
      BY <2>1, <2>4, <2>8, <3>1, <3>2, <3>5, <3>6 DEF FeedInv
  <2> QED
    BY <2>9, <2>10
<1> QED
  BY <1>1, <1>2 DEF Next

(* The invariant holds of every archive whose entries' sizes a usize       *)
(* holds.                                                                  *)
THEOREM FeedInvariantHolds ==
  ASSUME SizesFit
  PROVE  Spec => []FeedInv
<1>1. Init => FeedInv
  BY FeedInitInv
<1>2. FeedInv /\ [Next]_vars => FeedInv'
  BY FeedStepInv
<1> QED
  BY <1>1, <1>2, PTL DEF Spec

(* Every State that take_slices returns is one the machine takes, no       *)
(* header is reported past the last and no byte consumed past the end.     *)
THEOREM FeedTypeCorrect ==
  ASSUME SizesFit
  PROVE  Spec => []TypeOK
<1>1. FeedInv => TypeOK
  <2> SUFFICES ASSUME FeedInv PROVE TypeOK
    OBVIOUS
  <2>1. cur \in 0 .. Len(arch) /\ CounterFits(state)
    BY FeedTypes
  <2> QED
    BY <2>1 DEF FeedInv, TypeOK, CounterFits, GoodState
<1> QED
  BY <1>1, FeedInvariantHolds, PTL

(* Wherever the chunks end, the state stands at the offset consumed and no *)
(* header is stepped over (next, take_until).                              *)
THEOREM StateIsExact ==
  ASSUME SizesFit
  PROVE  Spec => []StateTracksOffset
<1>1. FeedInv => StateTracksOffset
  <2> SUFFICES ASSUME FeedInv PROVE StateTracksOffset
    OBVIOUS
  <2>1. /\ arch \in Archives /\ Stands(arch, damaged, state, off, cur)
        /\ CurrentHeader = HeaderAt(arch, cur) /\ cur \in 0 .. Len(arch)
    BY FeedTypes DEF FeedInv
  <2>2. arch \in Seq(HeaderType) /\ Len(arch) \in Nat
    BY <2>1, ArchiveType
  <2>3. CASE InEntry(state)
    <3>1. cur > 0 /\ off = Begin(arch, cur - 1) + ItemOffset(state, arch[cur])
      BY <2>1, <2>3 DEF Stands
    <3>2. CurrentHeader = arch[cur] /\ cur - 1 \in 0 .. Len(arch)
      BY <2>1, <2>2, <3>1 DEF HeaderAt
    <3>3. Len(EntriesBytes(SubSeq(arch, 1, cur - 1))) = Begin(arch, cur - 1)
      BY <2>2, <3>2, LaidFirst DEF Begin
    <3> QED
      BY <2>3, <3>1, <3>2, <3>3 DEF StateTracksOffset
  <2>4. CASE ~ InEntry(state)
    <3>1. off = Begin(arch, cur) + ItemOffset(state, NoHeader)
      BY <2>1, <2>4 DEF Stands
    <3>2. ItemOffset(state, CurrentHeader) = ItemOffset(state, NoHeader)
      <4>1. state.tag \in {"ExpectingHeader", "ReceivingHeader", "ReceivingEof", "ReceivedEof"}
        BY <2>1, <2>4 DEF Stands, CounterFits, GoodState, StateType, Tags, InEntry
      <4> QED
        BY <4>1 DEF ItemOffset
    <3>3. Len(EntriesBytes(SubSeq(arch, 1, cur))) = Begin(arch, cur)
      BY <2>1, <2>2, LaidFirst DEF Begin
    <3> QED
      BY <2>4, <3>1, <3>2, <3>3 DEF StateTracksOffset
  <2> QED
    BY <2>3, <2>4
<1> QED
  BY <1>1, FeedInvariantHolds, PTL

(* A damaged end marker is the only thing refused, and Eof is reported at  *)
(* the end of an intact archive only.                                      *)
THEOREM RefusalsAreRight ==
  ASSUME SizesFit
  PROVE  Spec => []OnlyDamageIsRefused
<1>1. FeedInv => OnlyDamageIsRefused
  BY DEF FeedInv
<1> QED
  BY <1>1, FeedInvariantHolds, PTL

(* The loop of take_until ends on every chunk of every archive.            *)
THEOREM TakeUntilGoesForward ==
  ASSUME SizesFit
  PROVE  Spec => []ForwardProgress
<1>1. FeedInv => ForwardProgress
  <2> SUFFICES ASSUME FeedInv, NEW k \in Chunks
               PROVE  TakeUntil(state, Chunk(k), CurrentHeader).err # "more"
    BY DEF ForwardProgress
  <2>1. arch \in Archives /\ CurrentHeader = HeaderAt(arch, cur)
        /\ cur \in 0 .. Len(arch) /\ CounterFits(state)
    BY FeedTypes DEF FeedInv
  <2>2. Chunk(k) \in Seq(Byte)
    BY ChunkIsPart
  <2>3. SizeFits(CurrentHeader)
    BY <2>1, HeadersFit
  <2> QED
    BY <2>1, <2>2, <2>3, TakeUntilEnds
<1> QED
  BY <1>1, FeedInvariantHolds, PTL

(* The slices a chunk is cut into, three of them, empty or not, do not     *)
(* matter to take_slices; SlicesAreTakenAsOne has it for any number.       *)
THEOREM CutsDoNotMatter ==
  ASSUME SizesFit
  PROVE  Spec => []SlicesDoNotMatter
<1>1. FeedInv => SlicesDoNotMatter
  <2> SUFFICES ASSUME FeedInv, NEW k \in Chunks, NEW i \in 0 .. k, NEW j \in i .. k
               PROVE  Same(TakeSlices(state, Chunk(k), CurrentHeader),
                           TakeSlicesInOrder(state,
                             << Cut(k, 1, i), Cut(k, i + 1, j), Cut(k, j + 1, k) >>,
                             CurrentHeader))
    BY DEF SlicesDoNotMatter
  <2> DEFINE b == Chunk(k)
             x == SubSeq(b, 1, i)
             y == SubSeq(b, i + 1, j)
             z == SubSeq(b, j + 1, k)
             slices == <<x, y, z>>
  <2>1. arch \in Archives /\ CurrentHeader = HeaderAt(arch, cur)
        /\ cur \in 0 .. Len(arch) /\ CounterFits(state)
    BY FeedTypes DEF FeedInv
  <2>2. b \in Seq(Byte) /\ Len(b) = k /\ k \in Nat
    BY ChunkIsPart
  <2>3. SizeFits(CurrentHeader)
    BY <2>1, HeadersFit
  <2>4. slices = << Cut(k, 1, i), Cut(k, i + 1, j), Cut(k, j + 1, k) >>
    BY DEF Cut
  <2> HIDE DEF b
  <2>5. x \in Seq(Byte) /\ y \in Seq(Byte) /\ z \in Seq(Byte)
    BY <2>2, SubSeqProperties
  <2>6. slices \in Seq(Seq(Byte)) /\ (x \o y) \o z = Concat(slices)
    <3>1. \A p, q, r \in Seq(Byte) :
            <<p, q, r>> \in Seq(Seq(Byte)) /\ (p \o q) \o r = Concat(<<p, q, r>>)
      BY ConcatThree, Zenon
    <3> HIDE DEF x, y, z
    <3>2. <<x, y, z>> \in Seq(Seq(Byte)) /\ (x \o y) \o z = Concat(<<x, y, z>>)
      BY <2>5, <3>1, Zenon
    <3> QED
      BY <3>2, Zenon
  <2>7. x \o y = SubSeq(b, 1, j)
    BY <2>2, JoinCuts
  <2>8. SubSeq(b, 1, j) \o z = SubSeq(b, 1, k)
    <3>1. j \in 0 .. Len(b) /\ k \in j .. Len(b)
      BY <2>2
    <3> QED
      BY <2>2, <3>1, JoinCuts
  <2>9. SubSeq(b, 1, k) = b
    BY <2>2, SubSeqFull
  <2>10. Concat(slices) = b
    BY <2>6, <2>7, <2>8, <2>9
  <2> HIDE DEF slices
  <2>11. Same(TakeSlices(state, Concat(slices), CurrentHeader),
              TakeSlicesInOrder(state, slices, CurrentHeader))
    BY <2>1, <2>3, <2>6, SlicesAreTakenAsOne
  <2> QED
    BY <2>4, <2>10, <2>11 DEF b
<1> QED
  BY <1>1, FeedInvariantHolds, PTL

-----------------------------------------------------------------------------
(* Splits are exact at every byte of every array of slices, and at every   *)
(* byte of every Prefix.                                                   *)
LEMMA SplitsAtAnyByte ==
  ASSUME NEW slices \in Array, NEW m \in 0 .. Len(Concat(slices)),
         NEW s, s = SplitArray(slices, m)
  PROVE  /\ SplitsAt(slices, m, s)
         /\ s.prefix.slices \in Array /\ s.prefix.remainder \in Seq(Byte)
         /\ Len(Concat(PrefixBuffers(s.prefix))) = m
<1> DEFINE c == Concat(slices)
<1>1. c \in Seq(Byte) /\ Len(c) \in Nat
  BY OwnPieces, LenProperties
<1>2. m \in Nat /\ m \in 0 .. Len(c) /\ Advance(c, m) = m
  BY <1>1 DEF Advance
<1>3. SubSeq(c, 1, m) = Part(c, 0, m) /\ From(c, m) = Part(c, m, Len(c)) /\ Len(Part(c, 0, m)) = m
  BY <1>1, <1>2, PrefixOf
<1>4. /\ Covers(PrefixBuffers(s.prefix), c, 0, m)
      /\ Covers(SuffixBuffers(s.suffix), c, m, Len(c))
      /\ s.prefix.remainder \in Seq(Byte)
      /\ \E i \in 0 .. Len(slices) : Covers(s.prefix.slices, c, 0, Ends(slices)[i])
  BY <1>2, SplitArrayIs
<1>5. /\ Covers(TakeBytesLen(slices, m), c, 0, m)
      /\ Covers(SkipBytesLen(slices, m), c, m, Len(c))
  BY <1>2, TakesPrefix, SkipsPrefix
<1> HIDE DEF c
<1>6. s.prefix.slices \in Array
  BY <1>4 DEF Covers
<1>7. /\ Concat(PrefixBuffers(s.prefix)) = Part(c, 0, m)
      /\ Concat(SuffixBuffers(s.suffix)) = Part(c, m, Len(c))
      /\ Concat(TakeBytesLen(slices, m)) = Part(c, 0, m)
      /\ Concat(SkipBytesLen(slices, m)) = Part(c, m, Len(c))
  BY <1>1, <1>4, <1>5, CoversIs
<1> QED
  BY <1>3, <1>4, <1>6, <1>7 DEF SplitsAt, c

LEMMA SplitsAgainAtAnyByte ==
  ASSUME NEW p, p.slices \in Array, p.remainder \in Seq(Byte),
         NEW n \in 0 .. Len(Concat(PrefixBuffers(p)))
  PROVE  SplitsAgainAt(p, n, SplitPrefix(p, n))
<1> DEFINE c == Concat(PrefixBuffers(p))
           t == TotalLen(p.slices)
           s == SplitPrefix(p, n)
<1>1. PrefixBuffers(p) \in Array
  BY AppendProperties DEF Array, PrefixBuffers
<1>2. c \in Seq(Byte) /\ Len(c) \in Nat
  BY <1>1, OwnPieces, LenProperties
<1>3. n \in Nat /\ n \in 0 .. Len(c) /\ Advance(c, n) = n
  BY <1>2 DEF Advance
<1>4. /\ Covers(PrefixBuffers(s.prefix), c, 0, n)
      /\ t \in 0 .. Len(c) /\ Covers(p.slices, c, 0, t)
      /\ Covers(SuffixBuffers(s.suffix), c, n, IF n < t THEN t ELSE Len(c))
  BY <1>3, SplitPrefixIs
<1> HIDE DEF c, t, s
<1>5. SubSeq(c, 1, n) = Part(c, 0, n) /\ From(c, n) = Part(c, n, Len(c))
  BY <1>2, <1>3, PrefixOf
<1>6. Concat(PrefixBuffers(s.prefix)) = SubSeq(c, 1, n)
  BY <1>2, <1>4, <1>5, CoversIs
<1>7. CASE n < t
  <2>1. Concat(SuffixBuffers(s.suffix)) = Part(c, n, t)
    <3>1. Covers(SuffixBuffers(s.suffix), c, n, t)
      BY <1>4, <1>7
    <3> QED
      BY <1>2, <3>1, CoversIs
  <2>2. Concat(p.slices) = Part(c, 0, t)
    BY <1>2, <1>4, CoversIs
  <2>3. /\ 0 \in 0 .. Len(c) /\ t \in 0 .. Len(c) /\ n \in 0 .. t - 0 /\ t \in n .. t - 0
        /\ t - 0 = t /\ 0 + n = n /\ 0 + t = t
    BY <1>2, <1>3, <1>4, <1>7
  <2>4. Part(c, 0, t) \in Seq(Byte) /\ Len(Part(c, 0, t)) = t
    <3>1. Part(c, 0, t) \in Seq(Byte) /\ Len(Part(c, 0, t)) = t - 0
      BY <1>2, <2>3, PartFacts
    <3> QED
      BY <2>3, <3>1
  <2>5. Part(Part(c, 0, t), n, t) = Part(c, 0 + n, 0 + t)
    BY <1>2, <2>3, PartOfPart
  <2>6. From(Part(c, 0, t), n) = Part(c, n, t)
    <3>1. From(Part(c, 0, t), n) = Part(Part(c, 0, t), n, t)
      BY <2>4 DEF From, Part
    <3> QED
      BY <2>3, <2>5, <3>1
  <2> QED
    BY <1>6, <1>7, <2>1, <2>2, <2>6 DEF SplitsAgainAt, c, t, s
<1>8. CASE ~ (n < t)
  <2>1. Concat(SuffixBuffers(s.suffix)) = Part(c, n, Len(c))
    <3>1. Covers(SuffixBuffers(s.suffix), c, n, Len(c))
      BY <1>4, <1>8
    <3> QED
      BY <1>2, <3>1, CoversIs
  <2> QED
    BY <1>5, <1>6, <1>8, <2>1 DEF SplitsAgainAt, c, t, s
<1> QED
  BY <1>7, <1>8

(* Every split of a chunk in slices is exact, on every archive; the sizes  *)
(* of the entries do not matter.                                           *)
THEOREM SplitsAreExact == Spec => []SplitIsExact
<1> DEFINE Fixed == arch \in Archives /\ damaged \in BOOLEAN
<1>1. Init => Fixed
  BY DEF Init
<1>2. Fixed /\ [Next]_vars => Fixed'
  BY DEF vars, Next, Feed
<1>3. Fixed => SplitIsExact
  <2> SUFFICES ASSUME Fixed, off = 0, NEW k \in Chunks, NEW i \in 0 .. k, NEW j \in i .. k,
                      NEW m \in 0 .. k
               PROVE  LET slices == << Cut(k, 1, i), Cut(k, i + 1, j), Cut(k, j + 1, k) >>
                          s == SplitArray(slices, m)
                      IN  /\ SplitsAt(slices, m, s)
                          /\ \A n \in 0 .. m :
                               SplitsAgainAt(s.prefix, n, SplitPrefix(s.prefix, n))
    BY DEF SplitIsExact
  <2> DEFINE w == Stream
             b == Chunk(k)
             x == SubSeq(b, 1, i)
             y == SubSeq(b, i + 1, j)
             z == SubSeq(b, j + 1, k)
             slices == <<x, y, z>>
             s == SplitArray(slices, m)
  <2>1. w \in Seq(Byte) /\ Len(w) \in Nat
    BY StreamFacts, LenProperties DEF Stream
  <2>2. k \in 0 .. Len(w) /\ k \in Nat
    BY <2>1, MaxChunkAssumption DEF Chunks
  <2>3. b \in Seq(Byte) /\ Len(b) = k
    <3>1. b = SubSeq(w, 1, k)
      <4>1. 0 + 1 = 1 /\ 0 + k = k
        BY <2>2
      <4> QED
        BY <4>1 DEF Chunk
    <3> HIDE DEF w, b
    <3> QED
      BY <2>1, <2>2, <3>1, PrefixOf
  <2>4. slices = << Cut(k, 1, i), Cut(k, i + 1, j), Cut(k, j + 1, k) >>
    BY DEF Cut
  <2> HIDE DEF w, b
  <2>5. x \in Seq(Byte) /\ y \in Seq(Byte) /\ z \in Seq(Byte)
    BY <2>2, <2>3, SubSeqProperties
  <2>6. slices \in Array /\ Len(Concat(slices)) = k
    <3>1. \A p, q, r \in Seq(Byte) :
            <<p, q, r>> \in Seq(Seq(Byte)) /\ (p \o q) \o r = Concat(<<p, q, r>>)
      BY ConcatThree, Zenon
    <3>2. x \o y = SubSeq(b, 1, j)
      BY <2>3, JoinCuts
    <3>3. SubSeq(b, 1, j) \o z = SubSeq(b, 1, k)
      <4>1. j \in 0 .. Len(b) /\ k \in j .. Len(b)
        BY <2>2, <2>3
      <4> QED
        BY <2>3, <4>1, JoinCuts
    <3>4. SubSeq(b, 1, k) = b
      BY <2>3, SubSeqFull
    <3> HIDE DEF x, y, z
    <3>5. <<x, y, z>> \in Seq(Seq(Byte)) /\ (x \o y) \o z = Concat(<<x, y, z>>)
      BY <2>5, <3>1, Zenon
    <3> QED
      BY <2>3, <3>2, <3>3, <3>4, <3>5 DEF Array
  <2> HIDE DEF slices, s
  <2>7. /\ SplitsAt(slices, m, s) /\ s.prefix.slices \in Array
        /\ s.prefix.remainder \in Seq(Byte) /\ Len(Concat(PrefixBuffers(s.prefix))) = m
    BY <2>6, SplitsAtAnyByte DEF s
  <2>8. \A n \in 0 .. m : SplitsAgainAt(s.prefix, n, SplitPrefix(s.prefix, n))
    BY <2>7, SplitsAgainAtAnyByte
  <2> QED
    BY <2>4, <2>7, <2>8 DEF s
<1> QED
  BY <1>1, <1>2, <1>3, PTL DEF Spec
=============================================================================
