------------------------- MODULE ArchiveFormatProofs ------------------------
(***************************************************************************)
(* Lemmas about the operators that the modules of both halves share: what  *)
(* TakeSlices does from each state (TarState), and where the entries of an *)
(* archive lie, which follow one another without gap or overlap            *)
(* (ArchiveFormat).  The layout is a recursive function; what holds for    *)
(* each of its values is proved by looking at the least number for which   *)
(* it does not.                                                            *)
(***************************************************************************)
EXTENDS ArchiveFormat, SequenceTheorems, WellFoundedInduction, TLAPS

(* Every set of natural numbers that is not empty has a least one.         *)
LEMMA LeastNumber ==
  ASSUME NEW T, T \subseteq Nat, T # {}
  PROVE  \E x \in T : \A y \in T : x <= y
<1> DEFINE R == OpToRel(<, Nat)
<1>1. IsWellFoundedOn(R, Nat)
  BY NatLessThanWellFounded, Zenon
<1>2. \A x, y \in Nat : x < y => <<x, y>> \in R
  BY DEF OpToRel
<1> HIDE DEF R
<1>3. PICK x \in T : \A y \in T : ~ (<<y, x>> \in R)
  BY <1>1, WFMin, Zenon
<1>4. ASSUME NEW y \in T PROVE x <= y
  <2>1. x \in Nat /\ y \in Nat
    OBVIOUS
  <2>2. ~ (y < x)
    BY <1>2, <1>3, <2>1, Zenon
  <2> QED
    BY <2>1, <2>2
<1> QED
  BY <1>3, <1>4

(* So a set that has 0 and with a number below n the next has all up to n. *)
LEMMA UpTo ==
  ASSUME NEW n \in Nat, NEW T, 0 \in T,
         \A m \in 0 .. n - 1 : m \in T => m + 1 \in T
  PROVE  0 .. n \subseteq T
<1> DEFINE U == {m \in 0 .. n : m \notin T}
<1> SUFFICES ASSUME U # {} PROVE FALSE
  OBVIOUS
<1>1. U \subseteq Nat
  OBVIOUS
<1> HIDE DEF U
<1>2. PICK x \in U : \A y \in U : x <= y
  BY <1>1, LeastNumber
<1>3. x \in 0 .. n /\ x \notin T /\ x # 0
  BY <1>2 DEF U
<1>4. x - 1 \in 0 .. n - 1 /\ x - 1 \in 0 .. n /\ ~ (x <= x - 1) /\ (x - 1) + 1 = x
  BY <1>3
<1>5. x - 1 \in T
  BY <1>2, <1>4 DEF U
<1> QED
  BY <1>3, <1>4, <1>5

(* A function is defined by its first value and by how each follows from   *)
(* the one before.                                                         *)
IsStep(F, n, S) == F \in [1 .. n -> [S -> S]]

Follows(g, n, S, x0, F) ==
  /\ g \in [0 .. n -> S] /\ g[0] = x0
  /\ \A k \in 1 .. n : g[k] = F[k][g[k - 1]]

LEMMA RecursionExists ==
  ASSUME NEW n \in Nat, NEW S, NEW x0 \in S, NEW F, IsStep(F, n, S)
  PROVE  \E g : Follows(g, n, S, x0, F)
<1> DEFINE Good(g, m) == Follows(g, m, S, x0, F)
           T == {m \in 0 .. n : \E g : Good(g, m)}
<1> USE DEF Follows, IsStep
<1>1. 0 \in T
  <2> DEFINE g == [k \in 0 .. 0 |-> x0]
  <2>1. Good(g, 0)
    OBVIOUS
  <2>2. 0 \in 0 .. n
    OBVIOUS
  <2> HIDE DEF g, Good
  <2> QED
    BY <2>1, <2>2
<1>2. ASSUME NEW m \in 0 .. n - 1, m \in T PROVE m + 1 \in T
  <2>1. PICK g : Good(g, m)
    BY <1>2
  <2> DEFINE f == [k \in 0 .. m + 1 |-> IF k = m + 1 THEN F[m + 1][g[m]] ELSE g[k]]
  <2>2. m + 1 \in 1 .. n /\ m \in 0 .. m /\ m + 1 \in 0 .. n
    OBVIOUS
  <2>3. F[m + 1][g[m]] \in S
    BY <2>1, <2>2
  <2>4. \A k \in 0 .. m : f[k] = g[k]
    OBVIOUS
  <2>5. f[m + 1] = F[m + 1][g[m]]
    OBVIOUS
  <2>6. f \in [0 .. m + 1 -> S]
    <3>1. \A k \in 0 .. m + 1 : k # m + 1 => k \in 0 .. m
      OBVIOUS
    <3> QED
      BY <2>1, <2>3, <3>1
  <2> HIDE DEF f
  <2>7. ASSUME NEW k \in 1 .. m + 1 PROVE f[k] = F[k][f[k - 1]]
    <3>1. k - 1 \in 0 .. m /\ k - 1 # m + 1
      OBVIOUS
    <3>2. f[k - 1] = g[k - 1]
      BY <2>4, <3>1
    <3>3. CASE k = m + 1
      <4>1. k - 1 = m
        BY <3>3
      <4> QED
        BY <2>5, <3>2, <3>3, <4>1
    <3>4. CASE k # m + 1
      <4>1. k \in 1 .. m /\ k \in 0 .. m
        BY <3>4
      <4> QED
        BY <2>1, <2>4, <3>2, <4>1
    <3> QED
      BY <3>3, <3>4
  <2>8. f[0] = x0
    BY <2>1, <2>4
  <2>9. Good(f, m + 1)
    BY <2>6, <2>7, <2>8
  <2> HIDE DEF Good
  <2> QED
    BY <2>2, <2>9
<1>3. 0 .. n \subseteq T
  <2> HIDE DEF T
  <2> QED
    BY <1>1, <1>2, UpTo
<1>4. n \in 0 .. n
  OBVIOUS
<1>5. PICK g : Good(g, n)
  <2> HIDE DEF Good
  <2> QED
    BY <1>3, <1>4
<1> QED
  BY <1>5

LOCAL INSTANCE SequencesExt

(* The concatenation of sequences, one at a time: FlattenSeq is a recursive*)
(* function of their number, and there is one that satisfies it.           *)
LEMMA FlattenSteps ==
  ASSUME NEW S, NEW slices \in Seq(Seq(S))
  PROVE  \E g \in [0 .. Len(slices) -> Seq(S)] :
           /\ g[0] = <<>>
           /\ \A k \in 1 .. Len(slices) : g[k] = g[k - 1] \o slices[k]
           /\ FlattenSeq(slices) = g[Len(slices)]
<1> DEFINE n == Len(slices)
           F == [k \in 1 .. n |-> [x \in Seq(S) |-> x \o slices[k]]]
<1>1. n \in Nat /\ <<>> \in Seq(S)
  BY LenProperties, EmptySeq
<1>2. F \in [1 .. n -> [Seq(S) -> Seq(S)]]
  <2>1. ASSUME NEW k \in 1 .. n, NEW x \in Seq(S) PROVE x \o slices[k] \in Seq(S)
    <3>1. slices[k] \in Seq(S)
      OBVIOUS
    <3> QED
      BY <3>1, ConcatProperties
  <2> QED
    BY <2>1
<1>3. ASSUME NEW k \in 1 .. n, NEW x \in Seq(S) PROVE F[k][x] = x \o slices[k]
  OBVIOUS
<1> HIDE DEF F
<1>4. PICK g \in [0 .. n -> Seq(S)] : g[0] = <<>> /\ \A k \in 1 .. n : g[k] = F[k][g[k - 1]]
  <2> DEFINE R == Seq(S)
  <2>1. <<>> \in R /\ IsStep(F, n, R)
    BY <1>1, <1>2 DEF IsStep
  <2> HIDE DEF n, R
  <2>2. \E g : Follows(g, n, R, <<>>, F)
    BY <1>1, <2>1, RecursionExists
  <2> QED
    BY <2>2 DEF R, Follows
<1>5. ASSUME NEW k \in 1 .. n PROVE g[k] = g[k - 1] \o slices[k]
  <2>1. k - 1 \in 0 .. n
    OBVIOUS
  <2> QED
    BY <1>3, <1>4, <2>1
<1>6. CASE n = 0
  <2>1. FlattenSeq(slices) = slices
    BY <1>6 DEF FlattenSeq
  <2>2. slices = <<>>
    BY <1>6, EmptySeq
  <2> QED
    BY <1>4, <1>5, <1>6, <2>1, <2>2
<1>7. CASE n # 0
  <2> DEFINE Is(h) == h = [i \in 1 .. n |-> IF i = 1 THEN slices[i] ELSE h[i - 1] \o slices[i]]
             C == CHOOSE h : Is(h)
             h == [i \in 1 .. n |-> g[i]]
             T == {m \in 0 .. n : m = 0 \/ C[m] = g[m]}
  <2>1. FlattenSeq(slices) = C[n]
    BY <1>7 DEF FlattenSeq
  <2>2. \A i \in 1 .. n : g[i] = IF i = 1 THEN slices[i] ELSE h[i - 1] \o slices[i]
    <3>1. ASSUME NEW i \in 1 .. n PROVE g[i] = IF i = 1 THEN slices[i] ELSE h[i - 1] \o slices[i]
      <4>1. CASE i = 1
        <5>1. slices[i] \in Seq(S) /\ i - 1 = 0
          BY <4>1
        <5>2. g[i] = <<>> \o slices[i]
          BY <1>4, <1>5, <5>1
        <5>3. <<>> \o slices[i] = slices[i]
          BY <5>1, ConcatEmptySeq
        <5> QED
          BY <4>1, <5>2, <5>3
      <4>2. CASE i # 1
        <5>1. i - 1 \in 1 .. n
          BY <4>2
        <5>2. h[i - 1] = g[i - 1]
          BY <5>1
        <5> HIDE DEF h
        <5> QED
          BY <1>5, <4>2, <5>2
      <4> QED
        BY <4>1, <4>2
    <3> QED
      BY <3>1
  <2>3. Is(h)
    <3> DEFINE e == [i \in 1 .. n |-> IF i = 1 THEN slices[i] ELSE h[i - 1] \o slices[i]]
    <3>1. h = [i \in 1 .. n |-> h[i]] /\ e = [i \in 1 .. n |-> e[i]]
      OBVIOUS
    <3>2. \A i \in 1 .. n : h[i] = g[i]
      OBVIOUS
    <3>3. \A i \in 1 .. n : e[i] = IF i = 1 THEN slices[i] ELSE h[i - 1] \o slices[i]
      OBVIOUS
    <3>4. h = e
      <4>1. ASSUME NEW i \in 1 .. n PROVE h[i] = e[i]
        <5> HIDE DEF h, e
        <5> QED
          BY <2>2, <3>2, <3>3
      <4> HIDE DEF h, e
      <4> QED
        BY <3>1, <4>1
    <3> QED
      BY <3>4
  <2>4. Is(C)
    <3> HIDE DEF Is, h
    <3> QED
      BY <2>3
  <2>5. ASSUME NEW i \in 1 .. n
        PROVE  C[i] = IF i = 1 THEN slices[i] ELSE C[i - 1] \o slices[i]
    <3> DEFINE e == [j \in 1 .. n |-> IF j = 1 THEN slices[j] ELSE C[j - 1] \o slices[j]]
    <3>1. C = e
      BY <2>4
    <3>2. e[i] = IF i = 1 THEN slices[i] ELSE C[i - 1] \o slices[i]
      OBVIOUS
    <3> HIDE DEF e, C
    <3> QED
      BY <3>1, <3>2
  <2> HIDE DEF C, h, Is
  <2>6. 0 \in T
    BY <1>1
  <2>7. ASSUME NEW m \in 0 .. n - 1, m \in T PROVE m + 1 \in T
    <3>1. m + 1 \in 1 .. n /\ m + 1 \in 0 .. n /\ (m + 1) - 1 = m /\ (m + 1 = 1 <=> m = 0)
      BY <1>1
    <3>2. C[m + 1] = g[m + 1]
      <4>1. C[m + 1] = IF m = 0 THEN slices[m + 1] ELSE C[m] \o slices[m + 1]
        BY <2>5, <3>1
      <4>2. g[m + 1] = IF m = 0 THEN slices[m + 1] ELSE h[m] \o slices[m + 1]
        BY <2>2, <3>1
      <4>3. m # 0 => h[m] = g[m]
        BY DEF h
      <4>4. m # 0 => C[m] = g[m]
        BY <2>7
      <4> QED
        BY <4>1, <4>2, <4>3, <4>4
    <3> QED
      BY <3>1, <3>2
  <2>8. 0 .. n \subseteq T
    <3> HIDE DEF T, n
    <3> QED
      BY <1>1, <2>6, <2>7, UpTo
  <2>9. n \in 0 .. n
    BY <1>1
  <2>10. C[n] = g[n]
    BY <1>7, <2>8, <2>9
  <2> HIDE DEF n
  <2> QED
    BY <1>4, <1>5, <2>1, <2>10 DEF n
<1> QED
  BY <1>6, <1>7

-----------------------------------------------------------------------------
(* What TakeSlices does from each state, for every buffer it is handed.    *)
Header == HeaderType \cup {NoHeader}

(* The remainder of a division, which the provers know nothing of.         *)
LEMMA ModFact == ASSUME NEW x \in Nat, NEW m \in Nat \ {0}
                 PROVE  x % m \in 0 .. m - 1 /\ x % m <= x
  BY SMT

LEMMA AlignRange == ASSUME NEW n \in Nat PROVE Align(n) \in 0 .. BlockSize - 1
  BY ModFact, BlockSizeAssumption DEF Align

LEMMA AsUsizeRange == ASSUME NEW n \in Nat PROVE AsUsize(n) \in 0 .. n
  BY ModFact, BlockSizeAssumption, UsizeAssumption DEF AsUsize

(* `next' takes a state to a state and consumes a part of the buffer.      *)
LEMMA TarNextType ==
  ASSUME NEW s \in StateType, NEW b \in Seq(Byte), NEW hdr \in Header
  PROVE  TarNext(s, b, hdr) \in [state : StateType, n : 0 .. Len(b), err : Errors]
<1> DEFINE r == TarNext(s, b, hdr)
<1> USE BlockSizeAssumption DEF Result, Failure, Errors, Advance
<1>1. CASE s.tag = "ExpectingHeader"
  BY <1>1 DEF TarNext, StateType, Tags, St, ReceivingHeader
<1>2. CASE s.tag = "ReceivingHeader"
  BY <1>2 DEF TarNext, StateType, Tags, St, ReceivingHeader, ReceivedHeader,
     ReceivingEof, NextReceivingHeader
<1>3. CASE s.tag = "ReceivedHeader"
  BY <1>3 DEF TarNext, StateType, Tags, St, ReceivingData, NextOfEntry,
     Header, HeaderType
<1>4. CASE s.tag = "ReceivingData"
  BY <1>4, AsUsizeRange DEF TarNext, StateType, Tags, St, ReceivingData,
     ReceivedData, NextReceivingData
<1>5. CASE s.tag = "ReceivedData"
  BY <1>5, AlignRange DEF TarNext, StateType, Tags, St, AligningData, NextOfEntry,
     Header, HeaderType
<1>6. CASE s.tag = "AligningData"
  BY <1>6 DEF TarNext, StateType, Tags, St, AligningData, AlignedData,
     NextAligningData
<1>7. CASE s.tag = "AlignedData"
  BY <1>7 DEF TarNext, StateType, Tags, St, ExpectingHeader
<1>8. CASE s.tag = "ReceivingEof"
  BY <1>8 DEF TarNext, StateType, Tags, St, ReceivingEof, ReceivedEof,
     NextReceivingEof
<1>9. CASE s.tag = "ReceivedEof"
  BY <1>9 DEF TarNext, StateType, Tags, St
<1> QED
  BY <1>1, <1>2, <1>3, <1>4, <1>5, <1>6, <1>7, <1>8, <1>9 DEF StateType, Tags

-----------------------------------------------------------------------------
(* The first round of take_until, and rounds that come after the last one. *)
LEMMA FirstStep ==
  ASSUME NEW s \in StateType, NEW b \in Seq(Byte), NEW hdr \in Header,
         NEW r, TarNext(s, b, hdr) = r, r.n \in Nat
  PROVE  TakeStep(b, hdr)[TakeStart(s)]
           = [state |-> r.state, n |-> r.n,
              err |-> IF r.err = "none" /\ r.state \notin Stop /\ r.n < Len(b)
                      THEN "more" ELSE r.err]
<1> DEFINE acc == TakeStart(s)
<1>1. acc \in Taken /\ acc.state = s /\ acc.n = 0 /\ acc.err = "more"
  BY DEF Taken, TakeStart
<1>2. SubSeq(b, acc.n + 1, Len(b)) = b
  <2>1. SubSeq(b, 1, Len(b)) = b
    BY SubSeqFull
  <2> QED
    BY <1>1, <2>1
<1> HIDE DEF acc
<1>3. TarNext(acc.state, SubSeq(b, acc.n + 1, Len(b)), hdr) = r
  BY <1>1, <1>2
<1>4. acc.n + r.n = r.n
  BY <1>1
<1> QED
  BY <1>1, <1>3, <1>4 DEF TakeStep, TakenAfter, acc

LEMMA StepIdle ==
  ASSUME NEW acc \in Taken, acc.err # "more", NEW b, NEW hdr
  PROVE  TakeStep(b, hdr)[acc] = acc
  BY DEF TakeStep, TakenAfter

LEMMA StepType ==
  ASSUME NEW acc \in Taken, NEW b \in Seq(Byte), NEW hdr \in Header,
         acc.n <= Len(b)
  PROVE  /\ TakeStep(b, hdr)[acc] \in Taken
         /\ TakeStep(b, hdr)[acc].n <= Len(b)
<1> DEFINE rest == SubSeq(b, acc.n + 1, Len(b))
           r    == TarNext(acc.state, rest, hdr)
<1>1. rest \in Seq(Byte) /\ Len(rest) = Len(b) - acc.n
  BY SubSeqProperties DEF Taken
<1>2. r \in [state : StateType, n : 0 .. Len(rest), err : Errors]
  BY <1>1, TarNextType DEF Taken
<1>3. TakeStep(b, hdr)[acc] =
        IF acc.err # "more" THEN acc
        ELSE [state |-> r.state, n |-> acc.n + r.n,
              err |-> IF /\ r.err = "none" /\ r.state \notin Stop
                         /\ acc.n + r.n < Len(b)
                      THEN "more" ELSE r.err]
  BY DEF TakeStep, TakenAfter
<1>4. acc.n + r.n \in Nat /\ acc.n + r.n <= Len(b)
  BY <1>1, <1>2 DEF Taken
<1> HIDE DEF r, rest
<1> QED
  BY <1>2, <1>3, <1>4 DEF Taken

THEOREM TakeSlicesType ==
  ASSUME NEW s \in StateType, NEW b \in Seq(Byte), NEW hdr \in Header
  PROVE  /\ TakeSlices(s, b, hdr) \in Taken
         /\ TakeSlices(s, b, hdr).n <= Len(b)
<1> DEFINE step == TakeStep(b, hdr)
           Good(acc) == acc \in Taken /\ acc.n <= Len(b)
<1>1. Good(TakeStart(s))
  BY DEF TakeStart, Taken
<1>2. ASSUME NEW acc, Good(acc) PROVE Good(step[acc])
  BY <1>2, StepType
<1>3. TakeSlices(s, b, hdr) =
        step[step[step[step[step[step[step[step[TakeStart(s)]]]]]]]]
  BY DEF TakeSlices, TakeUntil
<1> HIDE DEF step, Good
<1>4. Good(step[step[step[step[TakeStart(s)]]]])
  BY <1>1, <1>2
<1>5. Good(step[step[step[step[step[step[step[step[TakeStart(s)]]]]]]]])
  BY <1>4, <1>2
<1> QED
  BY <1>3, <1>5 DEF Good

(* take_until ends after one transition that takes the whole buffer, or    *)
(* after a marker and such a transition.                                   *)
LEMMA TakeOne ==
  ASSUME NEW s \in StateType, NEW b \in Seq(Byte), NEW hdr \in Header,
         NEW s1 \in StateType, TarNext(s, b, hdr) = Result(s1, Len(b))
  PROVE  TakeSlices(s, b, hdr) = Result(s1, Len(b))
<1> DEFINE step == TakeStep(b, hdr)
           last == Result(s1, Len(b))
<1>1. Len(b) \in Nat
  BY LenProperties
<1>2. step[TakeStart(s)] = last
  BY <1>1, FirstStep DEF TakeStart, Result
<1>3. last \in Taken /\ last.err # "more"
  BY <1>1 DEF Taken, Errors, Result
<1>4. step[last] = last
  BY <1>3, StepIdle
<1> QED
  BY <1>2, <1>4 DEF TakeSlices, TakeUntil

LEMMA TakeTwo ==
  ASSUME NEW s \in StateType, NEW b \in Seq(Byte), NEW hdr \in Header,
         NEW s1 \in StateType, s1 \notin Stop, Len(b) > 0,
         NEW s2 \in StateType,
         TarNext(s, b, hdr) = Result(s1, 0),
         TarNext(s1, b, hdr) = Result(s2, Len(b))
  PROVE  TakeSlices(s, b, hdr) = Result(s2, Len(b))
<1> DEFINE step == TakeStep(b, hdr)
           last == Result(s2, Len(b))
<1>1. Len(b) \in Nat
  BY LenProperties
<1>2. step[TakeStart(s)] = TakeStart(s1)
  BY <1>1, FirstStep DEF TakeStart, Result
<1>3. step[TakeStart(s1)] = last
  BY <1>1, FirstStep DEF TakeStart, Result
<1>4. last \in Taken /\ last.err # "more"
  BY <1>1 DEF Taken, Errors, Result
<1>5. step[last] = last
  BY <1>4, StepIdle
<1> QED
  BY <1>2, <1>3, <1>5 DEF TakeSlices, TakeUntil

-----------------------------------------------------------------------------
(* Where each of the states the writer writes in goes.                     *)
AfterHeaderBytes(rem, empty) ==
  IF rem > 0 THEN ReceivingHeader(rem, empty)
  ELSE IF empty THEN ReceivingEof(BlockSize) ELSE ReceivedHeader

LEMMA NextHeaderBytes ==
  ASSUME NEW rem \in Nat, NEW e \in BOOLEAN, NEW b \in Seq(Byte),
         NEW hdr, Len(b) <= rem, NEW z \in BOOLEAN, z <=> (e /\ AllZero(b))
  PROVE  TarNext(ReceivingHeader(rem, e), b, hdr) =
           Result(AfterHeaderBytes(rem - Len(b), z), Len(b))
<1> DEFINE s == ReceivingHeader(rem, e)
<1>1. TarNext(s, b, hdr) = NextReceivingHeader(s, b)
  BY DEF TarNext, ReceivingHeader, St
<1>2. Len(b) \in Nat /\ Fronted(b, Len(b)) = b
  BY SubSeqFull, LenProperties DEF Fronted
<1>3. s.rem = rem /\ s.empty = e /\ Advance(b, rem) = Len(b)
  BY <1>2 DEF ReceivingHeader, St, Advance
<1>4. (e /\ AllZero(b)) = z
  OBVIOUS
<1> HIDE DEF s
<1>5. NextReceivingHeader(s, b) =
        IF Len(b) < rem
        THEN Result(ReceivingHeader(rem - Len(b), z), Len(b))
        ELSE IF z THEN Result(ReceivingEof(BlockSize), Len(b))
        ELSE Result(ReceivedHeader, Len(b))
  BY <1>2, <1>3, <1>4 DEF NextReceivingHeader
<1> QED
  BY <1>1, <1>2, <1>5 DEF AfterHeaderBytes, s

LEMMA AfterHeaderBytesType ==
  ASSUME NEW rem \in Nat, NEW z \in BOOLEAN
  PROVE  AfterHeaderBytes(rem, z) \in StateType
  BY BlockSizeAssumption DEF AfterHeaderBytes, ReceivingHeader, ReceivingEof,
     ReceivedHeader, St, StateType, Tags

LEMMA TakeHeaderBytes ==
  ASSUME NEW rem \in Nat, NEW e \in BOOLEAN, NEW b \in Seq(Byte),
         NEW hdr \in Header, Len(b) <= rem,
         NEW z \in BOOLEAN, z <=> (e /\ AllZero(b))
  PROVE  TakeSlices(ReceivingHeader(rem, e), b, hdr) =
           Result(AfterHeaderBytes(rem - Len(b), z), Len(b))
<1>1. Len(b) \in Nat /\ rem - Len(b) \in Nat
  BY LenProperties
<1>2. AfterHeaderBytes(rem - Len(b), z) \in StateType
  BY <1>1, AfterHeaderBytesType
<1>3. ReceivingHeader(rem, e) \in StateType
  BY DEF ReceivingHeader, St, StateType, Tags
<1> QED
  BY <1>2, <1>3, NextHeaderBytes, TakeOne

(* The first bytes of a header, or of the end marker.                      *)
LEMMA TakeFirstBytes ==
  ASSUME NEW b \in Seq(Byte), NEW hdr \in Header, Len(b) <= BlockSize,
         NEW z \in BOOLEAN, z <=> AllZero(b)
  PROVE  TakeSlices(ExpectingHeader, b, hdr) =
           Result(AfterHeaderBytes(BlockSize - Len(b), z), Len(b))
<1> DEFINE s1 == ReceivingHeader(BlockSize, TRUE)
           s2 == AfterHeaderBytes(BlockSize - Len(b), z)
<1>1. Len(b) \in Nat /\ BlockSize \in Nat /\ BlockSize > 0
  BY LenProperties, BlockSizeAssumption
<1>2. TarNext(ExpectingHeader, b, hdr) = Result(s1, 0)
  BY DEF TarNext, ExpectingHeader, St
<1>3. ExpectingHeader \in StateType /\ s1 \in StateType /\ s1 \notin Stop
  BY <1>1 DEF ExpectingHeader, ReceivingHeader, ReceivedHeader, ReceivedEof,
     Stop, St, StateType, Tags
<1>4. BlockSize - Len(b) \in Nat
  BY <1>1
<1>5. s2 \in StateType
  BY <1>4, AfterHeaderBytesType
<1>6. TarNext(s1, b, hdr) = Result(s2, Len(b))
  BY <1>1, NextHeaderBytes
<1>7. CASE Len(b) = 0
  <2>1. TakeSlices(ExpectingHeader, b, hdr) = Result(s1, 0)
    BY <1>2, <1>3, <1>7, TakeOne
  <2>2. z = TRUE
    BY <1>7 DEF AllZero
  <2>3. s1 = s2
    BY <1>1, <1>7, <2>2 DEF AfterHeaderBytes
  <2> QED
    BY <1>7, <2>1, <2>3
<1>8. CASE Len(b) > 0
  <2> HIDE DEF s1, s2
  <2>1. TakeSlices(ExpectingHeader, b, hdr) = Result(s2, Len(b))
    BY <1>2, <1>3, <1>5, <1>6, <1>8, TakeTwo
  <2> QED
    BY <2>1 DEF s2
<1> QED
  BY <1>1, <1>7, <1>8

LEMMA TakeData ==
  ASSUME NEW rem \in Nat, NEW b \in Seq(Byte), NEW hdr \in Header,
         Len(b) <= AsUsize(rem)
  PROVE  TakeSlices(ReceivingData(rem), b, hdr) =
           Result(IF Len(b) < rem THEN ReceivingData(rem - Len(b)) ELSE ReceivedData,
                  Len(b))
<1> DEFINE s  == ReceivingData(rem)
           s1 == IF Len(b) < rem THEN ReceivingData(rem - Len(b)) ELSE ReceivedData
<1>1. Len(b) \in Nat /\ AsUsize(rem) \in 0 .. rem
  BY LenProperties, AsUsizeRange
<1>2. TarNext(s, b, hdr) = NextReceivingData(s, b)
  BY DEF TarNext, ReceivingData, St
<1>3. s.rem = rem /\ Advance(b, AsUsize(rem)) = Len(b)
  BY <1>1 DEF ReceivingData, St, Advance
<1>4. s \in StateType /\ s1 \in StateType
  BY <1>1 DEF ReceivingData, ReceivedData, St, StateType, Tags
<1> HIDE DEF s
<1>5. NextReceivingData(s, b) = Result(s1, Len(b))
  BY <1>3 DEF NextReceivingData
<1> QED
  BY <1>2, <1>4, <1>5, TakeOne DEF s

LEMMA TakeAlign ==
  ASSUME NEW rem \in Nat, NEW b \in Seq(Byte), NEW hdr \in Header, Len(b) <= rem
  PROVE  TakeSlices(AligningData(rem), b, hdr) =
           Result(IF Len(b) < rem THEN AligningData(rem - Len(b)) ELSE AlignedData,
                  Len(b))
<1> DEFINE s  == AligningData(rem)
           s1 == IF Len(b) < rem THEN AligningData(rem - Len(b)) ELSE AlignedData
<1>1. Len(b) \in Nat
  BY LenProperties
<1>2. TarNext(s, b, hdr) = NextAligningData(s, b)
  BY DEF TarNext, AligningData, St
<1>3. s.rem = rem /\ Advance(b, rem) = Len(b)
  BY <1>1 DEF AligningData, St, Advance
<1>4. s \in StateType /\ s1 \in StateType
  BY <1>1 DEF AligningData, AlignedData, St, StateType, Tags
<1> HIDE DEF s
<1>5. NextAligningData(s, b) = Result(s1, Len(b))
  BY <1>3 DEF NextAligningData
<1> QED
  BY <1>2, <1>4, <1>5, TakeOne DEF s

LEMMA TakeEof ==
  ASSUME NEW rem \in Nat, NEW b \in Seq(Byte), NEW hdr \in Header,
         Len(b) <= rem, AllZero(b)
  PROVE  TakeSlices(ReceivingEof(rem), b, hdr) =
           Result(IF Len(b) < rem THEN ReceivingEof(rem - Len(b)) ELSE ReceivedEof,
                  Len(b))
<1> DEFINE s  == ReceivingEof(rem)
           s1 == IF Len(b) < rem THEN ReceivingEof(rem - Len(b)) ELSE ReceivedEof
<1>1. Len(b) \in Nat /\ Fronted(b, Len(b)) = b
  BY SubSeqFull, LenProperties DEF Fronted
<1>2. TarNext(s, b, hdr) = NextReceivingEof(s, b)
  BY DEF TarNext, ReceivingEof, St
<1>3. s.rem = rem /\ Advance(b, rem) = Len(b)
  BY <1>1 DEF ReceivingEof, St, Advance
<1>4. s \in StateType /\ s1 \in StateType
  BY <1>1 DEF ReceivingEof, ReceivedEof, St, StateType, Tags
<1> HIDE DEF s
<1>5. NextReceivingEof(s, b) = Result(s1, Len(b))
  BY <1>1, <1>3 DEF NextReceivingEof
<1> QED
  BY <1>2, <1>4, <1>5, TakeOne DEF s

-----------------------------------------------------------------------------
(* The bytes that State lets the writer write, and what they lead to.      *)
Fits(s, b) ==
  /\ s.tag = "ExpectingHeader" => Len(b) <= BlockSize
  /\ s.tag \in {"ReceivingHeader", "AligningData"} => Len(b) <= s.rem
  /\ s.tag = "ReceivingData" => Len(b) <= AsUsize(s.rem)
  /\ s.tag = "ReceivingEof" => Len(b) <= s.rem /\ AllZero(b)
  /\ s.tag \in {"ExpectingHeader", "ReceivingHeader", "ReceivingData",
                "AligningData", "ReceivingEof"}

LEMMA Canonical ==
  ASSUME NEW s, GoodState(s)
  PROVE  /\ s.rem \in Nat /\ s.empty \in BOOLEAN
         /\ s.tag = "ExpectingHeader" => s = ExpectingHeader
         /\ s.tag = "ReceivingHeader" => s = ReceivingHeader(s.rem, s.empty)
         /\ s.tag = "ReceivedHeader"  => s = ReceivedHeader
         /\ s.tag = "ReceivingData"   => s = ReceivingData(s.rem)
         /\ s.tag = "ReceivedData"    => s = ReceivedData
         /\ s.tag = "AligningData"    => s = AligningData(s.rem)
         /\ s.tag = "AlignedData"     => s = AlignedData
         /\ s.tag = "ReceivingEof"    => s = ReceivingEof(s.rem)
         /\ s.tag = "ReceivedEof"     => s = ReceivedEof
<1>1. s = [tag |-> s.tag, rem |-> s.rem, empty |-> s.empty]
       /\ s.rem \in Nat /\ s.empty \in BOOLEAN
  BY DEF GoodState, StateType
<1>2. s.tag # "ReceivingHeader" => s.empty = FALSE
  BY <1>1 DEF GoodState
<1> QED
  BY <1>1, <1>2 DEF GoodState, ExpectingHeader, ReceivingHeader, ReceivedHeader,
     ReceivingData, ReceivedData, AligningData, AlignedData, ReceivingEof,
     ReceivedEof, St

LEMMA GoodStates ==
  /\ GoodState(ExpectingHeader) /\ GoodState(ReceivedHeader)
  /\ GoodState(ReceivedData) /\ GoodState(AlignedData) /\ GoodState(ReceivedEof)
  /\ \A rem \in 1 .. BlockSize, e \in BOOLEAN : GoodState(ReceivingHeader(rem, e))
  /\ \A rem \in Nat : GoodState(ReceivingData(rem))
  /\ \A rem \in 0 .. BlockSize - 1 : GoodState(AligningData(rem))
  /\ \A rem \in 1 .. BlockSize : GoodState(ReceivingEof(rem))
  BY BlockSizeAssumption DEF GoodState, StateType, Tags, ExpectingHeader,
     ReceivingHeader, ReceivedHeader, ReceivingData, ReceivedData, AligningData,
     AlignedData, ReceivingEof, ReceivedEof, St

(* Every such buffer is taken whole, and the state stays a good one.       *)
THEOREM TakeFits ==
  ASSUME NEW s, GoodState(s), NEW b \in Seq(Byte), Fits(s, b), NEW hdr \in Header
  PROVE  LET r == TakeSlices(s, b, hdr)
         IN  r.err = "none" /\ r.n = Len(b) /\ GoodState(r.state)
<1> DEFINE r == TakeSlices(s, b, hdr)
<1> SUFFICES r.err = "none" /\ r.n = Len(b) /\ GoodState(r.state)
  OBVIOUS
<1>1. Len(b) \in Nat /\ BlockSize \in Nat \ {0} /\ s.rem \in Nat
  BY LenProperties, BlockSizeAssumption, Canonical
<1>2. ASSUME NEW s1, r = Result(s1, Len(b)), GoodState(s1)
      PROVE  r.err = "none" /\ r.n = Len(b) /\ GoodState(r.state)
  BY <1>2 DEF Result
<1>3. ASSUME NEW rem \in 0 .. BlockSize, NEW z \in BOOLEAN
      PROVE  GoodState(AfterHeaderBytes(rem, z))
  BY <1>1, GoodStates DEF AfterHeaderBytes
<1> HIDE DEF r
<1>4. CASE s.tag = "ExpectingHeader"
  <2>1. PICK z \in BOOLEAN : z <=> AllZero(b)
    OBVIOUS
  <2>2. r = Result(AfterHeaderBytes(BlockSize - Len(b), z), Len(b))
    BY <1>4, <2>1, Canonical, TakeFirstBytes DEF Fits, r
  <2>3. BlockSize - Len(b) \in 0 .. BlockSize
    BY <1>1, <1>4 DEF Fits
  <2> QED
    BY <1>2, <1>3, <2>2, <2>3
<1>5. CASE s.tag = "ReceivingHeader"
  <2>1. PICK z \in BOOLEAN : z <=> (s.empty /\ AllZero(b))
    OBVIOUS
  <2>2. r = Result(AfterHeaderBytes(s.rem - Len(b), z), Len(b))
    BY <1>5, <2>1, Canonical, TakeHeaderBytes DEF Fits, r
  <2>3. s.rem - Len(b) \in 0 .. BlockSize
    BY <1>1, <1>5 DEF Fits, GoodState
  <2> QED
    BY <1>2, <1>3, <2>2, <2>3
<1>6. CASE s.tag = "ReceivingData"
  <2>1. s = ReceivingData(s.rem) /\ Len(b) <= AsUsize(s.rem)
    BY <1>6, Canonical DEF Fits
  <2>2. r = Result(IF Len(b) < s.rem THEN ReceivingData(s.rem - Len(b))
                   ELSE ReceivedData, Len(b))
    BY <1>1, <2>1, TakeData DEF r
  <2> QED
    BY <1>1, <1>2, <2>2, GoodStates
<1>7. CASE s.tag = "AligningData"
  <2>1. s = AligningData(s.rem) /\ Len(b) <= s.rem /\ s.rem < BlockSize
    BY <1>7, Canonical DEF Fits, GoodState
  <2>2. r = Result(IF Len(b) < s.rem THEN AligningData(s.rem - Len(b))
                   ELSE AlignedData, Len(b))
    BY <1>1, <2>1, TakeAlign DEF r
  <2> QED
    BY <1>1, <1>2, <2>1, <2>2, GoodStates
<1>8. CASE s.tag = "ReceivingEof"
  <2>1. s = ReceivingEof(s.rem) /\ Len(b) <= s.rem /\ AllZero(b)
          /\ s.rem \in 1 .. BlockSize
    BY <1>8, Canonical DEF Fits, GoodState
  <2>2. r = Result(IF Len(b) < s.rem THEN ReceivingEof(s.rem - Len(b))
                   ELSE ReceivedEof, Len(b))
    BY <1>1, <2>1, TakeEof DEF r
  <2> QED
    BY <1>1, <1>2, <2>1, <2>2, GoodStates
<1> QED
  BY <1>4, <1>5, <1>6, <1>7, <1>8 DEF Fits, r

-----------------------------------------------------------------------------
(* take_until ends.  A transition that does not exhaust the buffer goes    *)
(* down a rank, and the lowest rank is a stop state, so no more rounds     *)
(* than the eight of TakeUntil are ever needed.  The counter of            *)
(* ReceivingData has to fit a usize for that.                              *)
Rank(s) ==
  CASE s.tag = "ReceivedHeader"  -> 8
    [] s.tag = "ReceivingData"   -> 7
    [] s.tag = "ReceivedData"    -> 6
    [] s.tag = "AligningData"    -> 5
    [] s.tag = "AlignedData"     -> 4
    [] s.tag = "ExpectingHeader" -> 3
    [] s.tag = "ReceivingHeader" -> 2
    [] s.tag = "ReceivingEof"    -> 1
    [] s.tag = "ReceivedEof"     -> 0

CounterFits(s) == GoodState(s) /\ (s.tag = "ReceivingData" => s.rem < UsizeMod)

SizeFits(hdr) == hdr \in Header /\ hdr.size < UsizeMod

LEMMA RankIs ==
  ASSUME NEW s
  PROVE  /\ s.tag = "ReceivedHeader"  => Rank(s) = 8
         /\ s.tag = "ReceivingData"   => Rank(s) = 7
         /\ s.tag = "ReceivedData"    => Rank(s) = 6
         /\ s.tag = "AligningData"    => Rank(s) = 5
         /\ s.tag = "AlignedData"     => Rank(s) = 4
         /\ s.tag = "ExpectingHeader" => Rank(s) = 3
         /\ s.tag = "ReceivingHeader" => Rank(s) = 2
         /\ s.tag = "ReceivingEof"    => Rank(s) = 1
         /\ s.tag = "ReceivedEof"     => Rank(s) = 0
  BY DEF Rank

LEMMA RankRange ==
  ASSUME NEW s \in StateType
  PROVE  /\ Rank(s) \in 0 .. 8
         /\ Rank(s) = 0 => s.tag = "ReceivedEof"
<1>1. s.tag \in Tags
  BY DEF StateType
<1> QED
  BY <1>1, RankIs DEF Tags

LEMMA RanksOf ==
  /\ Rank(ReceivedHeader) = 8 /\ Rank(ReceivedData) = 6 /\ Rank(AlignedData) = 4
  /\ Rank(ExpectingHeader) = 3 /\ Rank(ReceivedEof) = 0
  /\ \A n : /\ Rank(ReceivingData(n)) = 7 /\ Rank(AligningData(n)) = 5
            /\ Rank(ReceivingEof(n)) = 1
  /\ \A n, e : Rank(ReceivingHeader(n, e)) = 2
  BY DEF Rank, ReceivedHeader, ReceivedData, AlignedData, ExpectingHeader, ReceivedEof,
     ReceivingData, AligningData, ReceivingEof, ReceivingHeader, St

LEMMA CountersFit ==
  /\ CounterFits(ExpectingHeader) /\ CounterFits(ReceivedHeader)
  /\ CounterFits(ReceivedData) /\ CounterFits(AlignedData) /\ CounterFits(ReceivedEof)
  /\ \A rem \in 1 .. BlockSize, e \in BOOLEAN : CounterFits(ReceivingHeader(rem, e))
  /\ \A rem \in Nat : rem < UsizeMod => CounterFits(ReceivingData(rem))
  /\ \A rem \in 0 .. BlockSize - 1 : CounterFits(AligningData(rem))
  /\ \A rem \in 1 .. BlockSize : CounterFits(ReceivingEof(rem))
  BY GoodStates DEF CounterFits, ExpectingHeader,
     ReceivingHeader, ReceivedHeader, ReceivingData, ReceivedData, AligningData,
     AlignedData, ReceivingEof, ReceivedEof, St

LEMMA TarNextDescends ==
  ASSUME NEW s, CounterFits(s), NEW b \in Seq(Byte), NEW hdr, SizeFits(hdr)
  PROVE  LET r == TarNext(s, b, hdr)
         IN  /\ r.n \in 0 .. Len(b) /\ CounterFits(r.state)
             /\ r.err = "none" /\ r.state \notin Stop =>
                    r.n = Len(b) \/ Rank(r.state) < Rank(s)
<1> DEFINE r == TarNext(s, b, hdr)
           Down == /\ r.n \in 0 .. Len(b) /\ CounterFits(r.state)
                   /\ r.err = "none" /\ r.state \notin Stop =>
                          r.n = Len(b) \/ Rank(r.state) < Rank(s)
<1> SUFFICES Down
  OBVIOUS
<1>1. Len(b) \in Nat /\ BlockSize \in Nat \ {0} /\ GoodState(s) /\ s.rem \in Nat
      /\ s.empty \in BOOLEAN
  BY LenProperties, BlockSizeAssumption, Canonical DEF CounterFits
<1>2. ASSUME NEW s1, NEW n \in 0 .. Len(b), r = Result(s1, n), CounterFits(s1),
             s1 \notin Stop => n = Len(b) \/ Rank(s1) < Rank(s)
      PROVE  Down
  BY <1>2 DEF Result
<1>3. ASSUME NEW e, r = Failure(s, e), e # "none"
      PROVE  Down
  BY <1>1, <1>3 DEF Failure
<1> HIDE DEF Down, r
<1>4. CASE s.tag = "ExpectingHeader"
  <2>1. ASSUME NEW z \in BOOLEAN, r = Result(ReceivingHeader(BlockSize, z), 0)
        PROVE  Down
    <3>1. Rank(ReceivingHeader(BlockSize, z)) = 2 /\ Rank(s) = 3
      BY <1>4, RanksOf, RankIs
    <3>2. BlockSize \in 1 .. BlockSize /\ 0 \in 0 .. Len(b)
      BY <1>1
    <3>3. CounterFits(ReceivingHeader(BlockSize, z))
      BY <3>2, CountersFit
    <3> QED
      BY <1>2, <2>1, <3>1, <3>2, <3>3
  <2>2. r = Result(ReceivingHeader(BlockSize, TRUE), 0)
    BY <1>4 DEF TarNext, r
  <2> QED
    BY <2>1, <2>2, Zenon
<1>5. CASE s.tag = "ReceivingHeader"
  <2> DEFINE n == Advance(b, s.rem)
             z == s.empty /\ AllZero(Fronted(b, n))
  <2>1. r = IF n < s.rem THEN Result(ReceivingHeader(s.rem - n, z), n)
            ELSE IF z THEN Result(ReceivingEof(BlockSize), n)
            ELSE Result(ReceivedHeader, n)
    <3>1. r = NextReceivingHeader(s, b)
      BY <1>5 DEF TarNext, r
    <3> QED
      BY <3>1 DEF NextReceivingHeader
  <2>2. n \in 0 .. Len(b) /\ (n < s.rem => n = Len(b) /\ s.rem - n \in 1 .. BlockSize)
        /\ BlockSize \in 1 .. BlockSize
    BY <1>1, <1>5 DEF Advance, GoodState
  <2>3. z \in BOOLEAN
    OBVIOUS
  <2>4. Rank(ReceivingEof(BlockSize)) = 1 /\ Rank(s) = 2
    BY <1>5, RanksOf, RankIs
  <2> HIDE DEF n, z
  <2>5. CASE n < s.rem
    <3>1. CounterFits(ReceivingHeader(s.rem - n, z))
      BY <2>2, <2>3, <2>5, CountersFit
    <3> QED
      BY <1>2, <2>1, <2>2, <2>5, <3>1
  <2>6. CASE ~ (n < s.rem) /\ z
    <3>1. CounterFits(ReceivingEof(BlockSize))
      BY <2>2, CountersFit
    <3> QED
      BY <1>2, <2>1, <2>2, <2>4, <2>6, <3>1
  <2>7. CASE ~ (n < s.rem) /\ ~ z
    <3>1. r = Result(ReceivedHeader, n)
      BY <2>1, <2>7
    <3>2. ReceivedHeader \in Stop
      BY DEF Stop
    <3> QED
      BY <1>2, <2>2, <3>1, <3>2, CountersFit
  <2> QED
    BY <2>5, <2>6, <2>7
<1>6. CASE s.tag = "ReceivedHeader"
  <2>1. CASE hdr = NoHeader \/ hdr.size = BadSize
    BY <1>3, <1>6, <2>1 DEF TarNext, NextOfEntry, r
  <2>2. CASE ~ (hdr = NoHeader \/ hdr.size = BadSize)
    <3>1. r = Result(ReceivingData(hdr.size), 0)
      BY <1>6, <2>2 DEF TarNext, NextOfEntry, r
    <3>2. hdr.size \in Nat /\ hdr.size < UsizeMod /\ 0 \in 0 .. Len(b)
      BY <1>1, <2>2 DEF SizeFits, Header, HeaderType
    <3>3. Rank(ReceivingData(hdr.size)) = 7 /\ Rank(s) = 8
      BY <1>6, RanksOf, RankIs
    <3>4. CounterFits(ReceivingData(hdr.size))
      BY <3>2, CountersFit
    <3> QED
      BY <1>2, <3>1, <3>2, <3>3, <3>4
  <2> QED
    BY <2>1, <2>2
<1>7. CASE s.tag = "ReceivingData"
  <2> DEFINE n == Advance(b, s.rem)
  <2>1. s.rem < UsizeMod /\ AsUsize(s.rem) = s.rem
    BY <1>7 DEF CounterFits, AsUsize
  <2>2. r = NextReceivingData(s, b)
    BY <1>7 DEF TarNext, r
  <2>3. r = IF n < s.rem THEN Result(ReceivingData(s.rem - n), n)
            ELSE Result(ReceivedData, n)
    BY <2>1, <2>2 DEF NextReceivingData
  <2>4. n \in 0 .. Len(b) /\ n <= s.rem /\ (n < s.rem => n = Len(b))
    BY <1>1 DEF Advance
  <2>5. Rank(ReceivedData) = 6 /\ Rank(s) = 7
    BY <1>7, RanksOf, RankIs
  <2> HIDE DEF n
  <2>6. CASE n < s.rem
    <3>1. s.rem - n \in Nat /\ s.rem - n < UsizeMod
      BY <1>1, <2>1, <2>4, UsizeAssumption
    <3>2. CounterFits(ReceivingData(s.rem - n))
      BY <3>1, CountersFit
    <3> QED
      BY <1>2, <2>3, <2>4, <2>6, <3>2
  <2>7. CASE ~ (n < s.rem)
    BY <1>2, <2>3, <2>4, <2>5, <2>7, CountersFit
  <2> QED
    BY <2>6, <2>7
<1>8. CASE s.tag = "ReceivedData"
  <2>1. CASE hdr = NoHeader \/ hdr.size = BadSize
    BY <1>3, <1>8, <2>1 DEF TarNext, NextOfEntry, r
  <2>2. CASE ~ (hdr = NoHeader \/ hdr.size = BadSize)
    <3>1. r = Result(AligningData(Align(hdr.size)), 0)
      BY <1>8, <2>2 DEF TarNext, NextOfEntry, r
    <3>2. hdr.size \in Nat /\ 0 \in 0 .. Len(b)
      BY <1>1, <2>2 DEF SizeFits, Header, HeaderType
    <3>3. Rank(AligningData(Align(hdr.size))) = 5 /\ Rank(s) = 6
      BY <1>8, RanksOf, RankIs
    <3>4. CounterFits(AligningData(Align(hdr.size)))
      BY <3>2, AlignRange, CountersFit
    <3> QED
      BY <1>2, <3>1, <3>2, <3>3, <3>4
  <2> QED
    BY <2>1, <2>2
<1>9. CASE s.tag = "AligningData"
  <2> DEFINE n == Advance(b, s.rem)
  <2>1. r = NextAligningData(s, b)
    BY <1>9 DEF TarNext, r
  <2>2. r = IF n < s.rem THEN Result(AligningData(s.rem - n), n)
            ELSE Result(AlignedData, n)
    BY <2>1 DEF NextAligningData
  <2>3. n \in 0 .. Len(b) /\ n <= s.rem /\ (n < s.rem => n = Len(b))
        /\ s.rem \in 0 .. BlockSize - 1
    BY <1>1, <1>9 DEF Advance, GoodState
  <2>4. Rank(AlignedData) = 4 /\ Rank(s) = 5
    BY <1>9, RanksOf, RankIs
  <2> HIDE DEF n
  <2>5. CASE n < s.rem
    <3>1. s.rem - n \in 0 .. BlockSize - 1
      BY <1>1, <2>3, <2>5
    <3>2. CounterFits(AligningData(s.rem - n))
      BY <3>1, CountersFit
    <3> QED
      BY <1>2, <2>2, <2>3, <2>5, <3>2
  <2>6. CASE ~ (n < s.rem)
    BY <1>2, <2>2, <2>3, <2>4, <2>6, CountersFit
  <2> QED
    BY <2>5, <2>6
<1>10. CASE s.tag = "AlignedData"
  <2>1. r = Result(ExpectingHeader, 0)
    BY <1>10 DEF TarNext, r
  <2>2. Rank(ExpectingHeader) = 3 /\ Rank(s) = 4 /\ 0 \in 0 .. Len(b)
    BY <1>1, <1>10, RanksOf, RankIs
  <2> QED
    BY <1>2, <2>1, <2>2, CountersFit
<1>11. CASE s.tag = "ReceivingEof"
  <2> DEFINE n == Advance(b, s.rem)
  <2>1. r = NextReceivingEof(s, b)
    BY <1>11 DEF TarNext, r
  <2>2. r = IF ~ AllZero(Fronted(b, n)) THEN Failure(s, "ExpectingEmptyBlock")
            ELSE IF n < s.rem THEN Result(ReceivingEof(s.rem - n), n)
            ELSE Result(ReceivedEof, n)
    BY <2>1 DEF NextReceivingEof
  <2>3. n \in 0 .. Len(b) /\ n <= s.rem /\ (n < s.rem => n = Len(b))
        /\ s.rem \in 1 .. BlockSize
    BY <1>1, <1>11 DEF Advance, GoodState
  <2>4. ReceivedEof \in Stop
    BY DEF Stop
  <2> HIDE DEF n
  <2>5. CASE ~ AllZero(Fronted(b, n))
    BY <1>3, <2>2, <2>5
  <2>6. CASE AllZero(Fronted(b, n)) /\ n < s.rem
    <3>1. s.rem - n \in 1 .. BlockSize
      BY <1>1, <2>3, <2>6
    <3>2. CounterFits(ReceivingEof(s.rem - n))
      BY <3>1, CountersFit
    <3> QED
      BY <1>2, <2>2, <2>3, <2>6, <3>2
  <2>7. CASE AllZero(Fronted(b, n)) /\ ~ (n < s.rem)
    BY <1>2, <2>2, <2>3, <2>4, <2>7, CountersFit
  <2> QED
    BY <2>5, <2>6, <2>7
<1>12. CASE s.tag = "ReceivedEof"
  BY <1>3, <1>12 DEF TarNext, r
<1>13. s.tag \in Tags
  BY <1>1 DEF GoodState, StateType
<1> QED
  BY <1>4, <1>5, <1>6, <1>7, <1>8, <1>9, <1>10, <1>11, <1>12, <1>13 DEF Tags

-----------------------------------------------------------------------------
(* The rounds of take_until.  Rounds(acc) is eight of them from `acc'.     *)
Rounds(acc, b, hdr) ==
  LET step == TakeStep(b, hdr)
  IN  step[step[step[step[step[step[step[step[acc]]]]]]]]

Going(acc, b) == acc \in Taken /\ acc.n <= Len(b) /\ CounterFits(acc.state)

(* At most `m' rounds are left.                                            *)
RoundsLeft(acc, m) == acc.err = "more" => Rank(acc.state) <= m

(* What one round does to a run that goes on.                              *)
LEMMA StepIs ==
  ASSUME NEW acc, acc \in Taken, acc.err = "more", NEW b, NEW hdr,
         NEW r, r = TarNext(acc.state, SubSeq(b, acc.n + 1, Len(b)), hdr)
  PROVE  TakeStep(b, hdr)[acc] = TakenAfter(acc.n, b, r)
  BY DEF TakeStep

LEMMA RestOf ==
  ASSUME NEW b \in Seq(Byte), NEW n \in Nat, n <= Len(b)
  PROVE  /\ SubSeq(b, n + 1, Len(b)) \in Seq(Byte)
         /\ Len(SubSeq(b, n + 1, Len(b))) = Len(b) - n
         /\ \A i \in 1 .. Len(b) - n : SubSeq(b, n + 1, Len(b))[i] = b[n + i]
<1>1. Len(b) \in Nat
  OBVIOUS
<1>2. /\ SubSeq(b, n + 1, Len(b)) \in Seq(Byte)
      /\ Len(SubSeq(b, n + 1, Len(b))) = IF n + 1 <= Len(b) THEN Len(b) - (n + 1) + 1 ELSE 0
      /\ \A i \in 1 .. Len(b) - (n + 1) + 1 : SubSeq(b, n + 1, Len(b))[i] = b[(n + 1) + i - 1]
  BY <1>1, SubSeqProperties
<1>3. \A i \in Int : (n + 1) + i - 1 = n + i
  OBVIOUS
<1> QED
  BY <1>1, <1>2, <1>3

LEMMA OneRound ==
  ASSUME NEW b \in Seq(Byte), NEW hdr, SizeFits(hdr), NEW acc, Going(acc, b)
  PROVE  LET next == TakeStep(b, hdr)[acc]
         IN  /\ Going(next, b)
             /\ \A m \in Nat : RoundsLeft(acc, m) => RoundsLeft(next, m - 1)
             /\ acc.err = "more" /\ next.err = "more" => next.state \notin Stop
<1> DEFINE next == TakeStep(b, hdr)[acc]
           rest == SubSeq(b, acc.n + 1, Len(b))
           r    == TarNext(acc.state, rest, hdr)
<1>1. CASE acc.err # "more"
  <2>1. next = acc
    BY <1>1, StepIdle DEF Going
  <2> QED
    BY <1>1, <2>1 DEF RoundsLeft
<1>2. CASE acc.err = "more"
  <2>1. acc.n \in Nat /\ acc.n <= Len(b) /\ Len(b) \in Nat /\ acc \in Taken
        /\ CounterFits(acc.state)
    BY DEF Going, Taken
  <2>2. rest \in Seq(Byte) /\ Len(rest) = Len(b) - acc.n
    BY <2>1, RestOf
  <2> HIDE DEF rest
  <2>3. /\ r.n \in 0 .. Len(rest) /\ CounterFits(r.state)
        /\ r.err = "none" /\ r.state \notin Stop =>
              r.n = Len(rest) \/ Rank(r.state) < Rank(acc.state)
    BY <2>1, <2>2, TarNextDescends
  <2>4. r.err \in Errors
    <3>1. acc.state \in StateType /\ hdr \in Header
      BY <2>1 DEF Taken, SizeFits
    <3> QED
      BY <2>2, <3>1, TarNextType
  <2>5. next = TakenAfter(acc.n, b, r)
    BY <1>2, <2>1, StepIs DEF rest
  <2> HIDE DEF r, next
  <2>6. r.state \in StateType /\ acc.state \in StateType
    BY <2>1, <2>3 DEF CounterFits, GoodState
  <2>7. next = [state |-> r.state, n |-> acc.n + r.n,
                err |-> IF r.err = "none" /\ r.state \notin Stop /\ acc.n + r.n < Len(b)
                        THEN "more" ELSE r.err]
    BY <2>5 DEF TakenAfter
  <2>8. acc.n + r.n \in Nat /\ acc.n + r.n <= Len(b)
        /\ (acc.n + r.n < Len(b) => r.n # Len(rest))
    BY <2>1, <2>2, <2>3
  <2>9. Going(next, b)
    BY <2>3, <2>4, <2>6, <2>7, <2>8 DEF Going, Taken
  <2>10. next.err = "more" =>
           next.state \notin Stop /\ Rank(next.state) < Rank(acc.state)
    <3>1. r.err # "more"
      BY <2>4 DEF Errors
    <3> QED
      BY <2>3, <2>7, <2>8, <3>1
  <2>11. Rank(acc.state) \in Int /\ Rank(next.state) \in Int
    <3>1. Rank(acc.state) \in Int
      BY <2>6, RankRange
    <3>2. Rank(r.state) \in Int
      BY <2>6, RankRange
    <3>3. next.state = r.state
      BY <2>7
    <3> QED
      BY <3>1, <3>2, <3>3
  <2>12. ASSUME NEW m \in Nat, RoundsLeft(acc, m) PROVE RoundsLeft(next, m - 1)
    <3>1. next.err = "more" => Rank(next.state) <= m - 1
      BY <1>2, <2>10, <2>11, <2>12 DEF RoundsLeft
    <3> QED
      BY <3>1 DEF RoundsLeft
  <2> QED
    BY <2>9, <2>10, <2>12 DEF next
<1> QED
  BY <1>1, <1>2

LEMMA NoneLeft ==
  ASSUME NEW b, NEW acc, Going(acc, b), RoundsLeft(acc, 0),
         acc.err = "more" => acc.state \notin Stop
  PROVE  acc.err # "more"
<1> SUFFICES ASSUME acc.err = "more" PROVE FALSE
  OBVIOUS
<1>1. acc.state \in StateType /\ GoodState(acc.state)
  BY DEF Going, CounterFits, GoodState
<1>2. Rank(acc.state) = 0
  BY <1>1, RankRange DEF RoundsLeft
<1>3. acc.state = ReceivedEof
  BY <1>1, <1>2, RankRange, Canonical
<1> QED
  BY <1>3 DEF Stop

(* The eight rounds are enough, and a round more or less changes nothing.  *)
LEMMA RoundsEnd ==
  ASSUME NEW b \in Seq(Byte), NEW hdr, SizeFits(hdr), NEW acc, Going(acc, b)
  PROVE  /\ Rounds(acc, b, hdr).err # "more"
         /\ Going(Rounds(acc, b, hdr), b)
         /\ Rounds(TakeStep(b, hdr)[acc], b, hdr) = Rounds(acc, b, hdr)
<1> DEFINE step == TakeStep(b, hdr)
           a1 == step[acc]   a2 == step[a1]   a3 == step[a2]   a4 == step[a3]
           a5 == step[a4]    a6 == step[a5]   a7 == step[a6]   a8 == step[a7]
           Fine(x, m) == Going(x, b) /\ RoundsLeft(x, m)
                         /\ (x.err = "more" => x.state \notin Stop)
<1>1. RoundsLeft(acc, 8)
  <2>1. Rank(acc.state) \in 0 .. 8
    BY RankRange DEF Going, CounterFits, GoodState
  <2> QED
    BY <2>1 DEF RoundsLeft
<1>2. ASSUME NEW x, Going(x, b), NEW m \in 1 .. 8, RoundsLeft(x, m) PROVE Fine(step[x], m - 1)
  <2>1. Going(step[x], b) /\ RoundsLeft(step[x], m - 1)
    BY <1>2, OneRound
  <2>2. step[x].err = "more" => x.err = "more"
    <3>1. x.err # "more" => step[x] = x
      BY <1>2, StepIdle DEF Going
    <3> QED
      BY <3>1
  <2>3. x.err = "more" /\ step[x].err = "more" => step[x].state \notin Stop
    BY <1>2, OneRound
  <2> QED
    BY <2>1, <2>2, <2>3
<1>3. Rounds(acc, b, hdr) = a8 /\ Rounds(a1, b, hdr) = step[a8]
  BY DEF Rounds
<1> HIDE DEF step
<1>4. Fine(a1, 7)
  BY <1>1, <1>2
<1>5. Fine(a2, 6)
  <2> HIDE DEF a1
  <2> QED
    BY <1>2, <1>4
<1>6. Fine(a3, 5)
  <2> HIDE DEF a2
  <2> QED
    BY <1>2, <1>5
<1>7. Fine(a4, 4)
  <2> HIDE DEF a3
  <2> QED
    BY <1>2, <1>6
<1>8. Fine(a5, 3)
  <2> HIDE DEF a4
  <2> QED
    BY <1>2, <1>7
<1>9. Fine(a6, 2)
  <2> HIDE DEF a5
  <2> QED
    BY <1>2, <1>8
<1>10. Fine(a7, 1)
  <2> HIDE DEF a6
  <2> QED
    BY <1>2, <1>9
<1>11. Fine(a8, 0)
  <2> HIDE DEF a7
  <2> QED
    BY <1>2, <1>10
<1> HIDE DEF a8, a1
<1>12. a8.err # "more" /\ Going(a8, b)
  BY <1>11, NoneLeft
<1>13. step[a8] = a8
  BY <1>12, StepIdle DEF Going, step
<1> QED
  BY <1>3, <1>12, <1>13 DEF a1, step

LEMMA TakeIsRounds ==
  ASSUME NEW s, NEW b, NEW hdr
  PROVE  TakeUntil(s, b, hdr) = Rounds(TakeStart(s), b, hdr)
  BY DEF TakeUntil, Rounds

LEMMA GoingStart ==
  ASSUME NEW s, CounterFits(s), NEW b \in Seq(Byte)
  PROVE  Going(TakeStart(s), b)
  BY DEF Going, TakeStart, Taken, CounterFits, GoodState

(* State::take_until ends on every input, in a state the machine takes.    *)
THEOREM TakeUntilEnds ==
  ASSUME NEW s, CounterFits(s), NEW b \in Seq(Byte), NEW hdr, SizeFits(hdr)
  PROVE  LET r == TakeUntil(s, b, hdr)
         IN  r.err # "more" /\ r \in Taken /\ r.n <= Len(b) /\ CounterFits(r.state)
<1>1. Going(TakeStart(s), b)
  BY GoingStart
<1>2. TakeUntil(s, b, hdr).err # "more" /\ Going(TakeUntil(s, b, hdr), b)
  BY <1>1, RoundsEnd, TakeIsRounds
<1> QED
  BY <1>2 DEF Going

-----------------------------------------------------------------------------
(* The entries.                                                            *)
LEMMA EntryLenFacts ==
  ASSUME NEW h \in HeaderType
  PROVE  /\ EntryLen(h) \in Nat /\ h.size \in Int
         /\ h.size \in Nat => /\ EntryLen(h) = BlockSize + h.size + Align(h.size)
                              /\ Align(h.size) \in 0 .. BlockSize - 1
         /\ BlockSize > 1 => EntryLen(h) >= BlockSize
<1>1. BlockSize \in Nat /\ BlockSize > 0
  BY BlockSizeAssumption
<1>2. CASE h.size = BadSize
  <2>1. (-1) % BlockSize = BlockSize - 1
    BY <1>1, SMT
  <2>2. Align(-1) = IF BlockSize = 1 THEN 0 ELSE 1
    BY <1>1, <2>1 DEF Align
  <2>3. EntryLen(h) = BlockSize + (-1) + Align(-1)
    BY <1>2 DEF EntryLen, BadSize
  <2> QED
    BY <1>1, <1>2, <2>2, <2>3 DEF BadSize
<1>3. CASE h.size \in Nat
  <2>1. h.size % BlockSize \in 0 .. BlockSize - 1
    BY <1>1, <1>3, SMT
  <2>2. Align(h.size) \in 0 .. BlockSize - 1
    BY <1>1, <2>1 DEF Align
  <2>3. EntryLen(h) = BlockSize + h.size + Align(h.size)
    BY DEF EntryLen
  <2> QED
    BY <1>1, <1>3, <2>2, <2>3
<1> QED
  BY <1>2, <1>3 DEF HeaderType

LEMMA EntryBytesType ==
  ASSUME NEW h \in HeaderType
  PROVE  /\ EntryBytes(h) \in Seq(Byte) /\ Len(EntryBytes(h)) = EntryLen(h)
         /\ EntryLen(h) \in Nat
         /\ \A i \in 1 .. EntryLen(h) : EntryBytes(h)[i] = EntryByte(h, i)
<1>1. EntryLen(h) \in Nat /\ BlockSize \in Nat /\ BlockSize > 0 /\ h.size \in Int
      /\ h.id \in Nat /\ h.lead \in Nat
  BY EntryLenFacts, BlockSizeAssumption DEF HeaderType
<1>2. ASSUME NEW i \in 1 .. EntryLen(h) PROVE EntryByte(h, i) \in Byte
  <2>1. HeaderByte(h, i) \in Byte
    BY <1>1 DEF HeaderByte, ZeroByte, Byte
  <2>2. ZeroByte \in Byte
    BY DEF ZeroByte, Byte
  <2>3. ~ (i <= BlockSize) => DataByte(h, i - BlockSize) \in Byte
    BY <1>1 DEF DataByte, Byte
  <2> QED
    BY <2>1, <2>2, <2>3 DEF EntryByte
<1> QED
  BY <1>1, <1>2 DEF EntryBytes

-----------------------------------------------------------------------------
(* The function that Laid chooses exists, so it is what it says.           *)
LEMMA LaidIs ==
  ASSUME NEW hs, Len(hs) \in Nat
  PROVE  Laid(hs) = [k \in 0 .. Len(hs) |->
                       IF k = 0 THEN <<>> ELSE Laid(hs)[k - 1] \o EntryBytes(hs[k])]
<1> DEFINE n == Len(hs)
           Good(g, m) == g = [k \in 0 .. m |->
                                IF k = 0 THEN <<>> ELSE g[k - 1] \o EntryBytes(hs[k])]
           T == {m \in 0 .. n : \E g : Good(g, m)}
<1>1. 0 \in T
  <2> DEFINE g == [k \in 0 .. 0 |-> <<>>]
  <2>1. Good(g, 0)
    OBVIOUS
  <2>2. 0 \in 0 .. n
    OBVIOUS
  <2> HIDE DEF g, Good
  <2> QED
    BY <2>1, <2>2
<1>2. ASSUME NEW m \in 0 .. n - 1, m \in T PROVE m + 1 \in T
  <2>1. PICK g : Good(g, m)
    BY <1>2
  <2> DEFINE f == [k \in 0 .. m + 1 |->
                     IF k = m + 1 THEN g[m] \o EntryBytes(hs[m + 1]) ELSE g[k]]
             e == [k \in 0 .. m + 1 |->
                     IF k = 0 THEN <<>> ELSE f[k - 1] \o EntryBytes(hs[k])]
  <2>2. ASSUME NEW k \in 0 .. m + 1 PROVE f[k] = e[k]
    <3>1. CASE k = m + 1
      <4>1. f[k] = g[m] \o EntryBytes(hs[m + 1])
        BY <3>1
      <4>2. f[m] = g[m]
        OBVIOUS
      <4>3. e[k] = f[m] \o EntryBytes(hs[m + 1])
        <5>1. k # 0 /\ k - 1 = m
          BY <3>1
        <5> HIDE DEF f
        <5> QED
          BY <3>1, <5>1
      <4> QED
        BY <4>1, <4>2, <4>3
    <3>2. CASE k # m + 1
      <4>1. k \in 0 .. m
        BY <3>2
      <4>2. f[k] = g[k]
        BY <3>2
      <4>3. g[k] = IF k = 0 THEN <<>> ELSE g[k - 1] \o EntryBytes(hs[k])
        BY <2>1, <4>1
      <4>4. k # 0 => f[k - 1] = g[k - 1]
        BY <4>1
      <4>5. e[k] = IF k = 0 THEN <<>> ELSE f[k - 1] \o EntryBytes(hs[k])
        OBVIOUS
      <4> HIDE DEF f, e
      <4> QED
        BY <4>2, <4>3, <4>4, <4>5
    <3> QED
      BY <3>1, <3>2
  <2>3. f = e
    <3>1. f = [k \in 0 .. m + 1 |-> f[k]] /\ e = [k \in 0 .. m + 1 |-> e[k]]
      OBVIOUS
    <3> HIDE DEF f, e
    <3> QED
      BY <2>2, <3>1
  <2>4. Good(f, m + 1)
    BY <2>3
  <2>5. m + 1 \in 0 .. n
    OBVIOUS
  <2> HIDE DEF f, Good
  <2> QED
    BY <2>4, <2>5
<1>3. n \in T
  <2>1. 0 .. n \subseteq T
    <3> HIDE DEF T
    <3> QED
      BY <1>1, <1>2, UpTo
  <2>2. n \in 0 .. n
    OBVIOUS
  <2> HIDE DEF T
  <2> QED
    BY <2>1, <2>2
<1>4. PICK g0 : Good(g0, n)
  BY <1>3
<1>5. Laid(hs) = CHOOSE g : Good(g, n)
  BY DEF Laid
<1> HIDE DEF Good
<1>6. Good(Laid(hs), n)
  BY <1>4, <1>5
<1> QED
  BY <1>6 DEF Good

LEMMA LaidSteps ==
  ASSUME NEW hs, Len(hs) \in Nat
  PROVE  /\ Laid(hs)[0] = <<>>
         /\ \A m \in 0 .. Len(hs) - 1 :
              Laid(hs)[m + 1] = Laid(hs)[m] \o EntryBytes(hs[m + 1])
<1> DEFINE rhs == [k \in 0 .. Len(hs) |->
                     IF k = 0 THEN <<>> ELSE Laid(hs)[k - 1] \o EntryBytes(hs[k])]
<1>1. Laid(hs) = rhs
  BY LaidIs, Zenon
<1>2. rhs[0] = <<>>
  OBVIOUS
<1>3. ASSUME NEW m \in 0 .. Len(hs) - 1
      PROVE  rhs[m + 1] = Laid(hs)[m] \o EntryBytes(hs[m + 1])
  <2>1. m + 1 \in 0 .. Len(hs) /\ m + 1 # 0 /\ (m + 1) - 1 = m
    OBVIOUS
  <2> QED
    BY <2>1
<1> HIDE DEF rhs
<1> QED
  BY <1>1, <1>2, <1>3, Zenon

(* What is laid out is a sequence of bytes.                                *)
LEMMA LaidType ==
  ASSUME NEW hs \in Seq(HeaderType)
  PROVE  \A k \in 0 .. Len(hs) : Laid(hs)[k] \in Seq(Byte)
<1> DEFINE n == Len(hs)
           T == {k \in 0 .. n : Laid(hs)[k] \in Seq(Byte)}
<1>0. n \in Nat
  OBVIOUS
<1>1. /\ Laid(hs)[0] = <<>>
      /\ \A m \in 0 .. n - 1 : Laid(hs)[m + 1] = Laid(hs)[m] \o EntryBytes(hs[m + 1])
  BY <1>0, LaidSteps
<1>2. 0 \in T
  <2>1. <<>> \in Seq(Byte) /\ 0 \in 0 .. n
    BY <1>0
  <2>2. Laid(hs)[0] \in Seq(Byte)
    BY <1>1, <2>1, Zenon
  <2> QED
    BY <2>1, <2>2
<1>3. ASSUME NEW m \in 0 .. n - 1, m \in T PROVE m + 1 \in T
  <2>1. m + 1 \in 0 .. n /\ m + 1 \in 1 .. n
    BY <1>0
  <2>2. EntryBytes(hs[m + 1]) \in Seq(Byte)
    <3>1. hs[m + 1] \in HeaderType
      BY <2>1
    <3> QED
      BY <3>1, EntryBytesType
  <2>3. Laid(hs)[m] \in Seq(Byte)
    BY <1>3
  <2>4. Laid(hs)[m] \o EntryBytes(hs[m + 1]) \in Seq(Byte)
    BY <2>2, <2>3, ConcatProperties
  <2> QED
    BY <1>1, <2>1, <2>4
<1> HIDE DEF T
<1>4. 0 .. n \subseteq T
  BY <1>0, <1>2, <1>3, UpTo
<1> QED
  BY <1>4 DEF T

(* An entry begins where the one before it ends.                           *)
LEMMA LaidLengths ==
  ASSUME NEW hs \in Seq(HeaderType)
  PROVE  /\ Len(Laid(hs)[0]) = 0
         /\ \A k \in 0 .. Len(hs) : Len(Laid(hs)[k]) \in Nat
         /\ \A k \in 1 .. Len(hs) :
              /\ Len(Laid(hs)[k]) = Len(Laid(hs)[k - 1]) + EntryLen(hs[k])
              /\ \A i \in 1 .. Len(Laid(hs)[k - 1]) :
                   Laid(hs)[k][i] = Laid(hs)[k - 1][i]
              /\ \A i \in 1 .. EntryLen(hs[k]) :
                   Laid(hs)[k][Len(Laid(hs)[k - 1]) + i] = EntryByte(hs[k], i)
<1>0. Len(hs) \in Nat
  OBVIOUS
<1>1. Len(Laid(hs)[0]) = 0
  <2>1. Laid(hs)[0] = <<>>
    BY <1>0, LaidSteps, Zenon
  <2> QED
    BY <2>1
<1>2. \A k \in 0 .. Len(hs) : Laid(hs)[k] \in Seq(Byte) /\ Len(Laid(hs)[k]) \in Nat
  BY LaidType, LenProperties
<1>3. ASSUME NEW k \in 1 .. Len(hs)
      PROVE  /\ Len(Laid(hs)[k]) = Len(Laid(hs)[k - 1]) + EntryLen(hs[k])
             /\ \A i \in 1 .. Len(Laid(hs)[k - 1]) :
                  Laid(hs)[k][i] = Laid(hs)[k - 1][i]
             /\ \A i \in 1 .. EntryLen(hs[k]) :
                  Laid(hs)[k][Len(Laid(hs)[k - 1]) + i] = EntryByte(hs[k], i)
  <2> DEFINE a == Laid(hs)[k - 1]
             b == EntryBytes(hs[k])
             c == Laid(hs)[k]
  <2>1. k - 1 \in 0 .. Len(hs) - 1 /\ k - 1 \in 0 .. Len(hs) /\ (k - 1) + 1 = k
    BY <1>0
  <2>2. c = a \o b
    BY <1>0, <2>1, LaidSteps
  <2>3. hs[k] \in HeaderType
    OBVIOUS
  <2>4. a \in Seq(Byte) /\ Len(a) \in Nat
    BY <1>2, <2>1
  <2>5. b \in Seq(Byte) /\ Len(b) = EntryLen(hs[k]) /\ EntryLen(hs[k]) \in Nat
        /\ \A i \in 1 .. EntryLen(hs[k]) : b[i] = EntryByte(hs[k], i)
    BY <2>3, EntryBytesType
  <2> HIDE DEF a, b, c
  <2>6. /\ Len(c) = Len(a) + Len(b)
        /\ \A i \in 1 .. Len(a) + Len(b) : c[i] = IF i <= Len(a) THEN a[i] ELSE b[i - Len(a)]
    BY <2>2, <2>4, <2>5, ConcatProperties
  <2>7. \A i \in 1 .. Len(a) : c[i] = a[i]
    BY <2>4, <2>5, <2>6
  <2>8. ASSUME NEW i \in 1 .. EntryLen(hs[k]) PROVE c[Len(a) + i] = EntryByte(hs[k], i)
    <3>1. /\ Len(a) + i \in 1 .. Len(a) + Len(b) /\ ~ (Len(a) + i <= Len(a))
          /\ (Len(a) + i) - Len(a) = i
      BY <2>4, <2>5
    <3>2. c[Len(a) + i] = b[(Len(a) + i) - Len(a)]
      BY <2>6, <3>1
    <3> QED
      BY <2>5, <3>1, <3>2
  <2> QED
    BY <2>5, <2>6, <2>7, <2>8 DEF a, b, c
<1> QED
  BY <1>1, <1>2, <1>3

(* More entries leave the bytes of the first ones where they are.          *)
LEMMA LaidKeeps ==
  ASSUME NEW hs \in Seq(HeaderType), NEW k \in 0 .. Len(hs), NEW m \in k .. Len(hs)
  PROVE  /\ Len(Laid(hs)[k]) <= Len(Laid(hs)[m])
         /\ \A i \in 1 .. Len(Laid(hs)[k]) : Laid(hs)[m][i] = Laid(hs)[k][i]
<1> DEFINE L(j) == Len(Laid(hs)[j])
           n == Len(hs) - k
           T == {d \in 0 .. n : /\ L(k) <= L(k + d)
                                /\ \A i \in 1 .. L(k) : Laid(hs)[k + d][i] = Laid(hs)[k][i]}
<1>1. n \in Nat /\ k \in Nat /\ Len(hs) \in Nat
  OBVIOUS
<1>2. \A j \in 0 .. Len(hs) : L(j) \in Nat
  BY LaidLengths
<1>3. 0 \in T
  <2>1. k + 0 = k
    OBVIOUS
  <2>2. L(k) <= L(k)
    BY <1>2
  <2> HIDE DEF L
  <2> QED
    BY <1>1, <2>1, <2>2
<1>4. ASSUME NEW d \in 0 .. n - 1, d \in T PROVE d + 1 \in T
  <2>1. /\ k + (d + 1) \in 1 .. Len(hs) /\ (k + (d + 1)) - 1 = k + d
        /\ k + d \in 0 .. Len(hs) /\ d + 1 \in 0 .. n
    BY <1>1
  <2> DEFINE j == k + (d + 1)
  <2>2. /\ L(j) = L(k + d) + EntryLen(hs[j])
        /\ \A i \in 1 .. L(k + d) : Laid(hs)[j][i] = Laid(hs)[k + d][i]
    BY <2>1, LaidLengths
  <2>3. EntryLen(hs[j]) \in Nat
    <3>1. hs[j] \in HeaderType
      BY <2>1
    <3> QED
      BY <3>1, EntryBytesType
  <2>4. L(k) \in Nat /\ L(k + d) \in Nat /\ L(j) \in Nat
    BY <1>2, <2>1
  <2>5. /\ L(k) <= L(k + d)
        /\ \A i \in 1 .. L(k) : Laid(hs)[k + d][i] = Laid(hs)[k][i]
    BY <1>4
  <2> HIDE DEF L
  <2>6. L(k) <= L(j)
    <3> HIDE DEF j
    <3> QED
      BY <2>2, <2>3, <2>4, <2>5
  <2>7. ASSUME NEW i \in 1 .. L(k) PROVE Laid(hs)[j][i] = Laid(hs)[k][i]
    <3>1. i \in 1 .. L(k + d)
      BY <2>4, <2>5
    <3> QED
      BY <2>2, <2>5, <3>1
  <2> QED
    BY <2>1, <2>6, <2>7
<1> HIDE DEF T, L
<1>5. 0 .. n \subseteq T
  <2> HIDE DEF n
  <2> QED
    BY <1>1, <1>3, <1>4, UpTo
<1>6. m - k \in 0 .. n /\ k + (m - k) = m
  BY <1>1
<1>7. m - k \in T
  BY <1>5, <1>6
<1> QED
  BY <1>6, <1>7 DEF T, L

(* Where a byte of an entry is in the whole.                               *)
LEMMA EntryAt ==
  ASSUME NEW hs \in Seq(HeaderType), NEW k \in 1 .. Len(hs),
         NEW i \in 1 .. EntryLen(hs[k])
  PROVE  /\ Len(Laid(hs)[k - 1]) + i \in 1 .. Len(EntriesBytes(hs))
         /\ EntriesBytes(hs)[Len(Laid(hs)[k - 1]) + i] = EntryByte(hs[k], i)
<1> DEFINE p == Len(Laid(hs)[k - 1])
           n == Len(hs)
<1>1. k - 1 \in 0 .. n /\ k \in 0 .. n /\ n \in k .. n
  OBVIOUS
<1>2. hs[k] \in HeaderType
  OBVIOUS
<1>3. EntryLen(hs[k]) \in Nat
  BY <1>2, EntryBytesType
<1>4. p \in Nat /\ Len(Laid(hs)[k]) \in Nat /\ Len(Laid(hs)[n]) \in Nat
  BY <1>1, LaidLengths
<1>5. /\ Len(Laid(hs)[k]) = p + EntryLen(hs[k])
      /\ Laid(hs)[k][p + i] = EntryByte(hs[k], i)
  BY LaidLengths
<1>6. /\ Len(Laid(hs)[k]) <= Len(Laid(hs)[n])
      /\ \A j \in 1 .. Len(Laid(hs)[k]) : Laid(hs)[n][j] = Laid(hs)[k][j]
  BY <1>1, LaidKeeps
<1> HIDE DEF p
<1>7. p + i \in 1 .. Len(Laid(hs)[k])
  BY <1>3, <1>4, <1>5
<1>8. p + i \in 1 .. Len(Laid(hs)[n])
  BY <1>4, <1>6, <1>7
<1> QED
  BY <1>5, <1>6, <1>7, <1>8 DEF p, EntriesBytes
=============================================================================
