---------------------------- MODULE SlicesProofs ----------------------------
(***************************************************************************)
(* Lemmas about arrays of slices and the buffer (src/shared/slices.rs,     *)
(* src/shared/buffer.rs), for arrays of any number of slices.              *)
(*                                                                         *)
(* An array is described by the pieces it cuts a sequence of bytes into:   *)
(* its slice k has the bytes from e[k - 1] to e[k] of them, so it has those*)
(* from e[0] to its last end in all (ConcatPieces).  The slices of an      *)
(* array are the pieces of their own bytes, cut where they end (OwnPieces);*)
(* what a split or an iterator yields are other pieces of the same bytes.  *)
(***************************************************************************)
EXTENDS Slices, Buf, ArchiveFormatProofs

(* The bytes of `c' from place i to place j.                               *)
Part(c, i, j) == SubSeq(c, i + 1, j)

LEMMA PartFacts ==
  ASSUME NEW c \in Seq(Byte), NEW i \in 0 .. Len(c), NEW j \in i .. Len(c)
  PROVE  /\ Part(c, i, j) \in Seq(Byte) /\ Len(Part(c, i, j)) = j - i
         /\ \A x \in 1 .. j - i : Part(c, i, j)[x] = c[i + x]
<1>1. Len(c) \in Nat /\ \A x \in i + 1 .. j : c[x] \in Byte
  BY LenProperties
<1>2. i + 1 \in Int /\ j \in Int
  BY <1>1
<1>3. /\ SubSeq(c, i + 1, j) \in Seq(Byte)
      /\ Len(SubSeq(c, i + 1, j)) = IF i + 1 <= j THEN j - (i + 1) + 1 ELSE 0
      /\ \A x \in 1 .. j - (i + 1) + 1 : SubSeq(c, i + 1, j)[x] = c[(i + 1) + x - 1]
  BY <1>1, <1>2, SubSeqProperties
<1>4. \A x \in 1 .. j - i : (i + 1) + x - 1 = i + x
  BY <1>1
<1>5. j - (i + 1) + 1 = j - i /\ (i + 1 <= j \/ j - i = 0)
  BY <1>1
<1> QED
  BY <1>3, <1>4, <1>5 DEF Part

LEMMA PartEmpty ==
  ASSUME NEW c, NEW i \in Nat
  PROVE  Part(c, i, i) = <<>>
  BY SubSeqEmpty DEF Part

LEMMA PartWhole ==
  ASSUME NEW c \in Seq(Byte)
  PROVE  Part(c, 0, Len(c)) = c
  BY SubSeqFull DEF Part

LEMMA PartOfPart ==
  ASSUME NEW c \in Seq(Byte), NEW i \in 0 .. Len(c), NEW j \in i .. Len(c),
         NEW x \in 0 .. j - i, NEW y \in x .. j - i
  PROVE  Part(Part(c, i, j), x, y) = Part(c, i + x, i + y)
<1> DEFINE p == Part(c, i, j)
           q == Part(p, x, y)
           r == Part(c, i + x, i + y)
<1>0. Len(c) \in Nat
  BY LenProperties
<1>1. p \in Seq(Byte) /\ Len(p) = j - i /\ \A k \in 1 .. j - i : p[k] = c[i + k]
  BY PartFacts
<1>2. i + x \in 0 .. Len(c) /\ i + y \in i + x .. Len(c) /\ (i + y) - (i + x) = y - x
      /\ x \in 0 .. j - i /\ y \in x .. j - i
  BY <1>0
<1> HIDE DEF p
<1>3. q \in Seq(Byte) /\ Len(q) = y - x /\ \A k \in 1 .. y - x : q[k] = p[x + k]
  <2>1. x \in 0 .. Len(p) /\ y \in x .. Len(p)
    BY <1>1
  <2> QED
    BY <1>1, <2>1, PartFacts
<1>4. r \in Seq(Byte) /\ Len(r) = y - x /\ \A k \in 1 .. y - x : r[k] = c[(i + x) + k]
  <2>1. r \in Seq(Byte) /\ Len(r) = (i + y) - (i + x)
        /\ \A k \in 1 .. (i + y) - (i + x) : r[k] = c[(i + x) + k]
    BY <1>2, PartFacts
  <2> QED
    BY <1>2, <2>1
<1>5. ASSUME NEW k \in 1 .. y - x PROVE q[k] = r[k]
  <2>1. x + k \in 1 .. j - i /\ i + (x + k) = (i + x) + k
    BY <1>0
  <2> HIDE DEF q, r
  <2> QED
    BY <1>1, <1>3, <1>4, <2>1
<1> HIDE DEF q, r
<1>6. q = r
  BY <1>3, <1>4, <1>5, SeqEqual
<1> QED
  BY <1>6 DEF p, q, r

LEMMA PartsJoin ==
  ASSUME NEW c \in Seq(Byte), NEW i \in 0 .. Len(c), NEW j \in i .. Len(c),
         NEW k \in j .. Len(c)
  PROVE  Part(c, i, j) \o Part(c, j, k) = Part(c, i, k)
<1>1. i + 1 \in 1 .. Len(c) + 1 /\ j \in (i + 1) - 1 .. Len(c) /\ Len(c) \in Nat
  BY LenProperties
<1> QED
  BY <1>1, ConcatAdjacentSubSeq DEF Part

LEMMA PartsOfJoin ==
  ASSUME NEW w \in Seq(Byte), NEW b \in Seq(Byte)
  PROVE  /\ w \o b \in Seq(Byte) /\ Len(w \o b) = Len(w) + Len(b)
         /\ \A i \in 0 .. Len(w) : \A j \in i .. Len(w) : Part(w \o b, i, j) = Part(w, i, j)
         /\ Part(w \o b, Len(w), Len(w \o b)) = b
<1> DEFINE v == w \o b
<1>1. Len(w) \in Nat /\ Len(b) \in Nat
  BY LenProperties
<1>2. /\ v \in Seq(Byte) /\ Len(v) = Len(w) + Len(b)
      /\ \A i \in 1 .. Len(w) + Len(b) : v[i] = IF i <= Len(w) THEN w[i] ELSE b[i - Len(w)]
  BY ConcatProperties
<1> HIDE DEF v
<1>3. ASSUME NEW i \in 0 .. Len(w), NEW j \in i .. Len(w)
      PROVE  Part(v, i, j) = Part(w, i, j)
  <2>1. i \in 0 .. Len(v) /\ j \in i .. Len(v)
    BY <1>1, <1>2
  <2>2. /\ Part(v, i, j) \in Seq(Byte) /\ Len(Part(v, i, j)) = j - i
        /\ \A x \in 1 .. j - i : Part(v, i, j)[x] = v[i + x]
    BY <1>2, <2>1, PartFacts
  <2>3. /\ Part(w, i, j) \in Seq(Byte) /\ Len(Part(w, i, j)) = j - i
        /\ \A x \in 1 .. j - i : Part(w, i, j)[x] = w[i + x]
    BY PartFacts
  <2>4. ASSUME NEW x \in 1 .. j - i PROVE v[i + x] = w[i + x]
    BY <1>1, <1>2
  <2> QED
    BY <2>2, <2>3, <2>4, SeqEqual
<1>4. Part(v, Len(w), Len(v)) = b
  <2> DEFINE p == Part(v, Len(w), Len(v))
  <2>1. Len(w) \in 0 .. Len(v) /\ Len(v) \in Len(w) .. Len(v) /\ Len(v) - Len(w) = Len(b)
    BY <1>1, <1>2
  <2>2. /\ p \in Seq(Byte) /\ Len(p) = Len(v) - Len(w)
        /\ \A x \in 1 .. Len(v) - Len(w) : p[x] = v[Len(w) + x]
    BY <1>2, <2>1, PartFacts
  <2> HIDE DEF p
  <2>3. ASSUME NEW x \in 1 .. Len(p) PROVE p[x] = b[x]
    <3>1. Len(w) + x \in 1 .. Len(w) + Len(b) /\ ~ (Len(w) + x <= Len(w))
          /\ (Len(w) + x) - Len(w) = x /\ x \in 1 .. Len(v) - Len(w)
      BY <1>1, <2>1, <2>2
    <3> QED
      BY <1>2, <2>2, <3>1
  <2>4. p = b
    BY <2>1, <2>2, <2>3, SeqEqual
  <2> QED
    BY <2>4 DEF p
<1> QED
  BY <1>2, <1>3, <1>4 DEF v

-----------------------------------------------------------------------------
(* Where slices end.                                                       *)
Array == Seq(Seq(Byte))

LEMMA SliceType ==
  ASSUME NEW bufs \in Array
  PROVE  /\ Len(bufs) \in Nat
         /\ \A k \in 1 .. Len(bufs) : bufs[k] \in Seq(Byte) /\ Len(bufs[k]) \in Nat
<1>1. ASSUME NEW k \in 1 .. Len(bufs) PROVE bufs[k] \in Seq(Byte)
  BY ElementOfSeq DEF Array
<1>2. Len(bufs) \in Nat
  BY LenProperties DEF Array
<1> QED
  BY <1>1, <1>2, LenProperties

LEMMA EndsAre ==
  ASSUME NEW bufs \in Array
  PROVE  /\ Ends(bufs) \in [0 .. Len(bufs) -> Nat]
         /\ Ends(bufs)[0] = 0
         /\ \A k \in 1 .. Len(bufs) : Ends(bufs)[k] = Ends(bufs)[k - 1] + Len(bufs[k])
<1> DEFINE n == Len(bufs)
           F == [k \in 1 .. n |-> [x \in Nat |-> x + Len(bufs[k])]]
           Rhs(g) == [i \in 0 .. n |-> IF i = 0 THEN 0 ELSE g[i - 1] + Len(bufs[i])]
           Is(g) == g = Rhs(g)
           C == Ends(bufs)
<1>1. n \in Nat /\ \A k \in 1 .. n : Len(bufs[k]) \in Nat
  BY SliceType
<1>2. IsStep(F, n, Nat)
  BY <1>1 DEF IsStep
<1>3. \A k \in 1 .. n : \A x \in Nat : F[k][x] = x + Len(bufs[k])
  OBVIOUS
<1>4. C = CHOOSE g : Is(g)
  BY DEF Ends
<1> HIDE DEF F, C
<1>5. PICK g : Follows(g, n, Nat, 0, F)
  <2> HIDE DEF n
  <2> QED
    BY <1>1, <1>2, RecursionExists
<1>6. Is(g)
  <2>1. g = [i \in 0 .. n |-> g[i]]
    BY <1>5 DEF Follows
  <2>2. ASSUME NEW i \in 0 .. n
        PROVE  g[i] = IF i = 0 THEN 0 ELSE g[i - 1] + Len(bufs[i])
    <3>1. CASE i = 0
      BY <1>5, <3>1 DEF Follows
    <3>2. CASE i # 0
      <4>1. i \in 1 .. n /\ i - 1 \in 0 .. n
        BY <1>1, <3>2
      <4>2. g[i] = F[i][g[i - 1]] /\ g[i - 1] \in Nat
        BY <1>5, <4>1 DEF Follows
      <4> QED
        BY <1>3, <3>2, <4>1, <4>2
    <3> QED
      BY <3>1, <3>2
  <2> HIDE DEF n
  <2>3. \A i \in 0 .. n : Rhs(g)[i] = IF i = 0 THEN 0 ELSE g[i - 1] + Len(bufs[i])
    OBVIOUS
  <2>4. Rhs(g) = [i \in 0 .. n |-> Rhs(g)[i]]
    OBVIOUS
  <2> HIDE DEF Rhs
  <2>5. \A i \in 0 .. n : g[i] = Rhs(g)[i]
    BY <2>2, <2>3
  <2> QED
    BY <2>1, <2>4, <2>5
<1>7. C = Rhs(C)
  <2>1. Is(C)
    <3> HIDE DEF Is
    <3> QED
      BY <1>4, <1>6
  <2> QED
    BY <2>1
<1>8. C = [i \in 0 .. n |-> C[i]]
  BY <1>7
<1>9. C[0] = 0 /\ \A k \in 1 .. n : C[k] = C[k - 1] + Len(bufs[k])
  <2>1. Rhs(C)[0] = 0
    BY <1>1
  <2>2. \A k \in 1 .. n : Rhs(C)[k] = C[k - 1] + Len(bufs[k])
    BY <1>1
  <2> HIDE DEF Rhs
  <2> QED
    BY <1>7, <2>1, <2>2, Zenon
<1> DEFINE T == {m \in 0 .. n : C[m] \in Nat}
<1> HIDE DEF n
<1>10. 0 \in T
  BY <1>1, <1>9
<1>11. ASSUME NEW m \in 0 .. n - 1, m \in T PROVE m + 1 \in T
  <2>1. m + 1 \in 1 .. n /\ m + 1 \in 0 .. n /\ (m + 1) - 1 = m
    BY <1>1
  <2>2. C[m + 1] = C[m] + Len(bufs[m + 1])
    BY <1>9, <2>1
  <2> QED
    BY <1>1, <1>11, <2>1, <2>2
<1>12. 0 .. n \subseteq T
  <2> HIDE DEF T
  <2> QED
    BY <1>1, <1>10, <1>11, UpTo
<1>13. C \in [0 .. n -> Nat]
  BY <1>8, <1>12
<1> QED
  BY <1>9, <1>13 DEF C, n

(* The concatenation of slices, one slice at a time.                       *)
LEMMA ConcatSteps ==
  ASSUME NEW S, NEW slices \in Seq(Seq(S))
  PROVE  \E g \in [0 .. Len(slices) -> Seq(S)] :
           /\ g[0] = <<>>
           /\ \A k \in 1 .. Len(slices) : g[k] = g[k - 1] \o slices[k]
           /\ Concat(slices) = g[Len(slices)]
  BY FlattenSteps, Zenon DEF Concat

(* One slice is what it has.                                               *)
LEMMA ConcatOne ==
  ASSUME NEW S, NEW b \in Seq(S)
  PROVE  <<b>> \in Seq(Seq(S)) /\ Concat(<<b>>) = b
<1> DEFINE slices == <<b>>
<1>1. slices \in Seq(Seq(S)) /\ Len(slices) = 1 /\ slices[1] = b
  OBVIOUS
<1> HIDE DEF slices
<1>2. PICK g \in [0 .. Len(slices) -> Seq(S)] :
        /\ g[0] = <<>>
        /\ \A k \in 1 .. Len(slices) : g[k] = g[k - 1] \o slices[k]
        /\ Concat(slices) = g[Len(slices)]
  BY <1>1, ConcatSteps
<1>3. g[1] = g[1 - 1] \o slices[1] /\ 1 - 1 = 0
  BY <1>1, <1>2
<1>4. Concat(slices) = <<>> \o b
  BY <1>1, <1>2, <1>3
<1>5. <<>> \o b = b
  BY ConcatEmptySeq
<1> QED
  BY <1>1, <1>4, <1>5 DEF slices

(* `bufs' are pieces of `c', one behind the other; piece k ends at e[k].   *)
Pieces(bufs, c, e) ==
  /\ e[0] \in 0 .. Len(c)
  /\ \A k \in 1 .. Len(bufs) :
       /\ e[k - 1] \in 0 .. Len(c) /\ e[k] \in e[k - 1] .. Len(c)
       /\ bufs[k] = Part(c, e[k - 1], e[k])

(* Pieces that follow one another are a piece.                             *)
LEMMA ConcatPieces ==
  ASSUME NEW bufs \in Array, NEW c \in Seq(Byte), NEW e, Pieces(bufs, c, e)
  PROVE  /\ Concat(bufs) = Part(c, e[0], e[Len(bufs)])
         /\ e[Len(bufs)] \in e[0] .. Len(c)
<1> DEFINE n == Len(bufs)
<1>1. n \in Nat /\ Len(c) \in Nat
  BY SliceType, LenProperties
<1>2. PICK g \in [0 .. n -> Seq(Byte)] :
        /\ g[0] = <<>>
        /\ \A k \in 1 .. n : g[k] = g[k - 1] \o bufs[k]
        /\ Concat(bufs) = g[n]
  BY ConcatSteps DEF Array
<1> DEFINE T == {m \in 0 .. n : e[m] \in e[0] .. Len(c) /\ g[m] = Part(c, e[0], e[m])}
<1>3. 0 \in T
  <2>1. Part(c, e[0], e[0]) = <<>> /\ e[0] \in 0 .. Len(c)
    BY PartEmpty DEF Pieces
  <2> QED
    BY <1>1, <1>2, <2>1
<1>4. ASSUME NEW m \in 0 .. n - 1, m \in T PROVE m + 1 \in T
  <2>1. m + 1 \in 1 .. n /\ m + 1 \in 0 .. n /\ (m + 1) - 1 = m
    BY <1>1
  <2>2. /\ e[0] \in 0 .. Len(c) /\ e[m] \in 0 .. Len(c) /\ e[m + 1] \in e[m] .. Len(c)
        /\ bufs[m + 1] = Part(c, e[m], e[m + 1])
    BY <2>1 DEF Pieces
  <2>3. e[m] \in e[0] .. Len(c) /\ g[m] = Part(c, e[0], e[m])
    BY <1>4
  <2>4. g[m + 1] = Part(c, e[0], e[m]) \o Part(c, e[m], e[m + 1])
    BY <1>2, <2>1, <2>2, <2>3
  <2>5. g[m + 1] = Part(c, e[0], e[m + 1])
    BY <2>2, <2>3, <2>4, PartsJoin
  <2>6. e[m + 1] \in e[0] .. Len(c)
    BY <1>1, <2>2, <2>3
  <2> QED
    BY <2>1, <2>5, <2>6
<1>5. 0 .. n \subseteq T
  <2> HIDE DEF n, T
  <2> QED
    BY <1>1, <1>3, <1>4, UpTo
<1>6. n \in 0 .. n
  BY <1>1
<1> QED
  BY <1>2, <1>5, <1>6

(* Pieces from the beginning end where the slices do.                      *)
LEMMA PiecesEnd ==
  ASSUME NEW bufs \in Array, NEW c \in Seq(Byte), NEW e, Pieces(bufs, c, e), e[0] = 0
  PROVE  \A k \in 0 .. Len(bufs) : Ends(bufs)[k] = e[k]
<1> DEFINE n == Len(bufs)
           T == {m \in 0 .. n : Ends(bufs)[m] = e[m]}
<1>1. n \in Nat /\ Len(c) \in Nat
  BY SliceType, LenProperties
<1>2. Ends(bufs)[0] = 0 /\ \A k \in 1 .. n : Ends(bufs)[k] = Ends(bufs)[k - 1] + Len(bufs[k])
  BY EndsAre
<1>3. 0 \in T
  BY <1>1, <1>2
<1>4. ASSUME NEW m \in 0 .. n - 1, m \in T PROVE m + 1 \in T
  <2>1. m + 1 \in 1 .. n /\ m + 1 \in 0 .. n /\ (m + 1) - 1 = m
    BY <1>1
  <2>2. /\ e[m] \in 0 .. Len(c) /\ e[m + 1] \in e[m] .. Len(c)
        /\ bufs[m + 1] = Part(c, e[m], e[m + 1])
    BY <2>1 DEF Pieces
  <2>3. Len(bufs[m + 1]) = e[m + 1] - e[m]
    <3>1. Len(Part(c, e[m], e[m + 1])) = e[m + 1] - e[m]
      BY <2>2, PartFacts
    <3> QED
      BY <2>2, <3>1
  <2>4. Ends(bufs)[m + 1] = Ends(bufs)[m] + Len(bufs[m + 1])
    BY <1>2, <2>1
  <2>5. Ends(bufs)[m] = e[m]
    BY <1>4
  <2>6. Ends(bufs)[m + 1] = e[m + 1]
    BY <1>1, <2>2, <2>3, <2>4, <2>5
  <2> QED
    BY <2>1, <2>6
<1>5. 0 .. n \subseteq T
  <2> HIDE DEF n, T
  <2> QED
    BY <1>1, <1>3, <1>4, UpTo
<1> QED
  BY <1>5

(* Every array is the pieces of its own bytes.                             *)
LEMMA OwnPieces ==
  ASSUME NEW bufs \in Array
  PROVE  /\ Concat(bufs) \in Seq(Byte)
         /\ Pieces(bufs, Concat(bufs), Ends(bufs))
         /\ Len(Concat(bufs)) = TotalLen(bufs)
<1> DEFINE n == Len(bufs)
           c == Concat(bufs)
           e == Ends(bufs)
<1>1. n \in Nat /\ \A k \in 1 .. n : bufs[k] \in Seq(Byte) /\ Len(bufs[k]) \in Nat
  BY SliceType
<1>2. PICK g \in [0 .. n -> Seq(Byte)] :
        /\ g[0] = <<>>
        /\ \A k \in 1 .. n : g[k] = g[k - 1] \o bufs[k]
        /\ c = g[n]
  BY ConcatSteps DEF Array
<1>3. /\ e \in [0 .. n -> Nat] /\ e[0] = 0
      /\ \A k \in 1 .. n : e[k] = e[k - 1] + Len(bufs[k])
  BY EndsAre
<1> DEFINE Good(m) == /\ Len(g[m]) = e[m]
                      /\ \A k \in 1 .. m : /\ e[k] <= e[m] /\ e[k - 1] <= e[k]
                                            /\ bufs[k] = Part(g[m], e[k - 1], e[k])
           T == {m \in 0 .. n : Good(m)}
<1> HIDE DEF c, e, n
<1>4. 0 \in T
  <2>1. Len(g[0]) = e[0] /\ 0 \in 0 .. n
    BY <1>1, <1>2, <1>3, EmptySeq
  <2> QED
    BY <2>1
<1>5. ASSUME NEW m \in 0 .. n - 1, m \in T PROVE m + 1 \in T
  <2> DEFINE b == bufs[m + 1]
             w == g[m]
             v == g[m + 1]
  <2>1. m + 1 \in 1 .. n /\ m + 1 \in 0 .. n /\ (m + 1) - 1 = m /\ m \in 0 .. n
    BY <1>1
  <2>2. /\ b \in Seq(Byte) /\ w \in Seq(Byte) /\ v = w \o b /\ Len(b) \in Nat /\ v \in Seq(Byte)
        /\ e[m + 1] = e[m] + Len(b) /\ e[m] \in Nat /\ Len(w) = e[m]
    BY <1>1, <1>2, <1>3, <1>5, <2>1
  <2>3. Len(v) = e[m + 1]
    <3>1. Len(w \o b) = Len(w) + Len(b)
      BY <2>2, PartsOfJoin
    <3> QED
      BY <2>2, <3>1
  <2>4. \A i \in 0 .. Len(w) : \A j \in i .. Len(w) : Part(v, i, j) = Part(w, i, j)
    <3>1. \A i \in 0 .. Len(w) : \A j \in i .. Len(w) : Part(w \o b, i, j) = Part(w, i, j)
      BY <2>2, PartsOfJoin
    <3> HIDE DEF w, v, b
    <3> QED
      BY <2>2, <3>1
  <2>5. b = Part(v, e[m], e[m + 1])
    <3>1. Part(w \o b, Len(w), Len(w \o b)) = b
      BY <2>2, PartsOfJoin
    <3> HIDE DEF w, v, b
    <3> QED
      BY <2>2, <2>3, <3>1
  <2>6. ASSUME NEW k \in 1 .. m + 1
        PROVE  /\ e[k] <= e[m + 1] /\ e[k - 1] <= e[k]
               /\ bufs[k] = Part(v, e[k - 1], e[k])
    <3>1. CASE k = m + 1
      <4>1. k - 1 = m /\ e[k] <= e[m + 1] /\ e[k - 1] <= e[k]
        BY <2>1, <2>2, <3>1
      <4> HIDE DEF w, v
      <4> QED
        BY <2>5, <3>1, <4>1
    <3>2. CASE k # m + 1
      <4>1. k \in 1 .. m /\ k \in 0 .. n /\ k - 1 \in 0 .. n
        BY <1>1, <3>2
      <4>2. /\ e[k] <= e[m] /\ e[k - 1] <= e[k] /\ e[k] \in Nat /\ e[k - 1] \in Nat
            /\ bufs[k] = Part(w, e[k - 1], e[k])
        BY <1>3, <1>5, <4>1
      <4>3. e[k - 1] \in 0 .. Len(w) /\ e[k] \in e[k - 1] .. Len(w) /\ e[k] <= e[m + 1]
        BY <2>2, <4>2
      <4> HIDE DEF w, v, b
      <4> QED
        BY <2>4, <4>2, <4>3
    <3> QED
      BY <3>1, <3>2
  <2>7. Good(m + 1)
    BY <2>3, <2>6
  <2> HIDE DEF Good
  <2> QED
    BY <2>1, <2>7
<1>6. 0 .. n \subseteq T
  <2> HIDE DEF T
  <2> QED
    BY <1>1, <1>4, <1>5, UpTo
<1>7. Good(n)
  <2>1. n \in 0 .. n
    BY <1>1
  <2> HIDE DEF Good
  <2> QED
    BY <1>6, <2>1
<1>8. c \in Seq(Byte) /\ Len(c) = e[n] /\ Len(c) \in Nat
  BY <1>1, <1>2, <1>3, <1>7
<1>9. Pieces(bufs, c, e)
  <2>1. ASSUME NEW k \in 1 .. n
        PROVE  /\ e[k - 1] \in 0 .. Len(c) /\ e[k] \in e[k - 1] .. Len(c)
               /\ bufs[k] = Part(c, e[k - 1], e[k])
    <3>1. k \in 0 .. n /\ k - 1 \in 0 .. n
      BY <1>1
    <3>2. /\ e[k] <= e[n] /\ e[k - 1] <= e[k] /\ e[k] \in Nat /\ e[k - 1] \in Nat
          /\ bufs[k] = Part(c, e[k - 1], e[k])
      BY <1>2, <1>3, <1>7, <3>1
    <3> QED
      BY <1>8, <3>2
  <2>2. e[0] \in 0 .. Len(c)
    BY <1>3, <1>8
  <2> QED
    BY <2>1, <2>2 DEF Pieces, n
<1>10. Len(c) = TotalLen(bufs)
  BY <1>8 DEF TotalLen, e, n
<1> QED
  BY <1>8, <1>9, <1>10 DEF c, e

-----------------------------------------------------------------------------
(* `bufs' have the bytes of `c' from place i to place j, in pieces.        *)
Covers(bufs, c, i, j) ==
  /\ bufs \in Array
  /\ \E e : Pieces(bufs, c, e) /\ e[0] = i /\ e[Len(bufs)] = j

LEMMA CoversIs ==
  ASSUME NEW bufs, NEW c \in Seq(Byte), NEW i, NEW j, Covers(bufs, c, i, j)
  PROVE  /\ bufs \in Array /\ Concat(bufs) = Part(c, i, j)
         /\ i \in 0 .. Len(c) /\ j \in i .. Len(c)
<1>1. bufs \in Array
  BY DEF Covers
<1>2. PICK e : Pieces(bufs, c, e) /\ e[0] = i /\ e[Len(bufs)] = j
  BY DEF Covers
<1>3. Concat(bufs) = Part(c, e[0], e[Len(bufs)]) /\ e[Len(bufs)] \in e[0] .. Len(c)
  BY <1>1, <1>2, ConcatPieces
<1>4. e[0] \in 0 .. Len(c)
  BY <1>2 DEF Pieces
<1> QED
  BY <1>1, <1>2, <1>3, <1>4

LEMMA CoversNone ==
  ASSUME NEW c \in Seq(Byte), NEW i \in 0 .. Len(c)
  PROVE  Covers(<<>>, c, i, i)
<1> DEFINE bufs == <<>>
           e == [k \in 0 .. 0 |-> i]
<1>1. bufs \in Array /\ Len(bufs) = 0
  BY EmptySeq DEF Array
<1>2. e[0] = i
  OBVIOUS
<1> HIDE DEF bufs, e
<1>3. Pieces(bufs, c, e)
  <2>1. \A k \in 1 .. Len(bufs) : FALSE
    BY <1>1
  <2> QED
    BY <1>2, <2>1 DEF Pieces
<1>4. Covers(bufs, c, i, i)
  BY <1>1, <1>2, <1>3 DEF Covers
<1> QED
  BY <1>4 DEF bufs

(* One more slice at the end, or at the beginning.                         *)
LEMMA CoversAppend ==
  ASSUME NEW bufs, NEW c \in Seq(Byte), NEW i, NEW j, Covers(bufs, c, i, j),
         NEW m \in j .. Len(c)
  PROVE  Covers(Append(bufs, Part(c, j, m)), c, i, m)
<1>1. /\ bufs \in Array /\ i \in 0 .. Len(c) /\ j \in i .. Len(c) /\ Len(bufs) \in Nat
      /\ Len(c) \in Nat
  BY CoversIs, SliceType, LenProperties
<1>2. PICK e : Pieces(bufs, c, e) /\ e[0] = i /\ e[Len(bufs)] = j
  BY DEF Covers
<1> DEFINE n == Len(bufs)
           more == Append(bufs, Part(c, j, m))
           d == [k \in 0 .. n + 1 |-> IF k = n + 1 THEN m ELSE e[k]]
<1>3. Part(c, j, m) \in Seq(Byte)
  BY <1>1, PartFacts
<1>4. /\ more \in Array /\ Len(more) = n + 1
      /\ \A k \in 1 .. n : more[k] = bufs[k]
      /\ more[n + 1] = Part(c, j, m)
  BY <1>1, <1>3, AppendProperties DEF Array
<1>5. d[0] = i /\ d[n + 1] = m /\ \A k \in 0 .. n : d[k] = e[k]
  BY <1>1, <1>2
<1> HIDE DEF more, d, n
<1>6. ASSUME NEW k \in 1 .. n + 1
      PROVE  /\ d[k - 1] \in 0 .. Len(c) /\ d[k] \in d[k - 1] .. Len(c)
             /\ more[k] = Part(c, d[k - 1], d[k])
  <2>1. CASE k = n + 1
    <3>1. k - 1 = n /\ n \in 0 .. n
      BY <1>1, <2>1 DEF n
    <3>2. d[k - 1] = j
      BY <1>2, <1>5, <3>1 DEF n
    <3> QED
      BY <1>1, <1>4, <1>5, <2>1, <3>2
  <2>2. CASE k # n + 1
    <3>1. k \in 1 .. n /\ k \in 0 .. n /\ k - 1 \in 0 .. n
      BY <1>1, <2>2 DEF n
    <3>2. /\ e[k - 1] \in 0 .. Len(c) /\ e[k] \in e[k - 1] .. Len(c)
          /\ bufs[k] = Part(c, e[k - 1], e[k])
      BY <1>2, <3>1 DEF Pieces, n
    <3> QED
      BY <1>4, <1>5, <3>1, <3>2
  <2> QED
    BY <2>1, <2>2
<1>7. Pieces(more, c, d)
  BY <1>1, <1>4, <1>5, <1>6 DEF Pieces
<1>8. Covers(more, c, i, m)
  BY <1>4, <1>5, <1>7 DEF Covers
<1> QED
  BY <1>8 DEF more

LEMMA CoversPrepend ==
  ASSUME NEW bufs, NEW c \in Seq(Byte), NEW i, NEW j, Covers(bufs, c, i, j),
         NEW x \in 0 .. i
  PROVE  Covers(<<Part(c, x, i)>> \o bufs, c, x, j)
<1>1. /\ bufs \in Array /\ i \in 0 .. Len(c) /\ j \in i .. Len(c) /\ Len(bufs) \in Nat
      /\ Len(c) \in Nat
  BY CoversIs, SliceType, LenProperties
<1>2. PICK e : Pieces(bufs, c, e) /\ e[0] = i /\ e[Len(bufs)] = j
  BY DEF Covers
<1> DEFINE n == Len(bufs)
           first == <<Part(c, x, i)>>
           more == first \o bufs
           d == [k \in 0 .. n + 1 |-> IF k = 0 THEN x ELSE e[k - 1]]
<1>3. Part(c, x, i) \in Seq(Byte)
  <2>1. x \in 0 .. Len(c) /\ i \in x .. Len(c)
    BY <1>1
  <2> QED
    BY <2>1, PartFacts
<1>4. first \in Array /\ Len(first) = 1 /\ first[1] = Part(c, x, i)
  <2> DEFINE p == Part(c, x, i)
  <2> HIDE DEF p
  <2>1. <<p>> \in Seq(Seq(Byte)) /\ Len(<<p>>) = 1 /\ <<p>>[1] = p
    BY <1>3 DEF p
  <2> QED
    BY <2>1 DEF p, Array
<1>5. /\ more \in Array /\ Len(more) = n + 1
      /\ more[1] = Part(c, x, i)
      /\ \A k \in 1 .. n : more[k + 1] = bufs[k]
  <2> HIDE DEF first
  <2>1. /\ first \o bufs \in Array /\ Len(first \o bufs) = Len(first) + Len(bufs)
        /\ \A k \in 1 .. Len(first) + Len(bufs) :
             (first \o bufs)[k] = IF k <= Len(first) THEN first[k] ELSE bufs[k - Len(first)]
    BY <1>1, <1>4, ConcatProperties DEF Array
  <2>2. 1 \in 1 .. 1 + n /\ 1 + n = n + 1
        /\ \A k \in 1 .. n : k + 1 \in 1 .. 1 + n /\ ~ (k + 1 <= 1) /\ (k + 1) - 1 = k
    BY <1>1
  <2> HIDE DEF n
  <2>3. \A k \in 1 .. 1 + n : more[k] = IF k <= 1 THEN first[k] ELSE bufs[k - 1]
    BY <1>4, <2>1 DEF n
  <2>4. more[1] = first[1]
    <3> HIDE DEF more
    <3> QED
      BY <2>2, <2>3
  <2>5. ASSUME NEW k \in 1 .. n PROVE more[k + 1] = bufs[k]
    <3> HIDE DEF more
    <3>1. more[k + 1] = bufs[(k + 1) - 1]
      BY <2>2, <2>3
    <3> QED
      BY <2>2, <3>1
  <2> QED
    BY <1>4, <2>1, <2>2, <2>4, <2>5 DEF n
<1>6. d[0] = x /\ d[n + 1] = j /\ \A k \in 0 .. n : d[k + 1] = e[k]
  BY <1>1, <1>2
<1> HIDE DEF more, d, n
<1>7. ASSUME NEW k \in 1 .. n + 1
      PROVE  /\ d[k - 1] \in 0 .. Len(c) /\ d[k] \in d[k - 1] .. Len(c)
             /\ more[k] = Part(c, d[k - 1], d[k])
  <2>1. CASE k = 1
    <3>1. d[k - 1] = x /\ d[k] = i
      <4>1. 0 \in 0 .. n /\ 0 + 1 = 1 /\ 1 - 1 = 0
        BY <1>1 DEF n
      <4> QED
        BY <1>2, <1>6, <2>1, <4>1
    <3>2. x \in 0 .. Len(c) /\ i \in x .. Len(c)
      BY <1>1
    <3> QED
      BY <1>5, <2>1, <3>1, <3>2
  <2>2. CASE k # 1
    <3> DEFINE q == k - 1
    <3>1. q \in 1 .. n /\ q \in 0 .. n /\ q - 1 \in 0 .. n /\ q + 1 = k /\ (q - 1) + 1 = q
      BY <1>1, <2>2 DEF n
    <3> HIDE DEF q
    <3>2. /\ e[q - 1] \in 0 .. Len(c) /\ e[q] \in e[q - 1] .. Len(c)
          /\ bufs[q] = Part(c, e[q - 1], e[q])
      BY <1>2, <3>1 DEF Pieces, n
    <3>3. d[k] = e[q] /\ d[q] = e[q - 1] /\ more[k] = bufs[q]
      BY <1>5, <1>6, <3>1
    <3> QED
      BY <3>2, <3>3 DEF q
  <2> QED
    BY <2>1, <2>2
<1>8. Pieces(more, c, d)
  <2>1. d[0] \in 0 .. Len(c)
    BY <1>1, <1>6
  <2> QED
    BY <1>5, <1>7, <2>1 DEF Pieces
<1>9. Covers(more, c, x, j)
  BY <1>5, <1>6, <1>8 DEF Covers
<1> QED
  BY <1>9 DEF more

(* The slices of an array before one of them, and from it on.              *)
LEMMA CoversFront ==
  ASSUME NEW bufs \in Array, NEW c \in Seq(Byte), NEW e, Pieces(bufs, c, e),
         NEW i \in 0 .. Len(bufs)
  PROVE  /\ Covers(SubSeq(bufs, 1, i), c, e[0], e[i])
         /\ Pieces(SubSeq(bufs, 1, i), c, e) /\ Len(SubSeq(bufs, 1, i)) = i
<1> DEFINE front == SubSeq(bufs, 1, i)
<1>1. Len(bufs) \in Nat /\ \A k \in 1 .. Len(bufs) : bufs[k] \in Seq(Byte)
  BY SliceType
<1>2. /\ front \in Array /\ Len(front) = i
      /\ \A k \in 1 .. i : front[k] = bufs[k]
  <2>1. \A k \in 1 .. i : bufs[k] \in Seq(Byte)
    BY <1>1
  <2>2. 1 \in Int /\ i \in Int
    BY <1>1
  <2>3. /\ front \in Seq(Seq(Byte))
        /\ Len(front) = IF 1 <= i THEN i - 1 + 1 ELSE 0
        /\ \A k \in 1 .. i - 1 + 1 : front[k] = bufs[1 + k - 1]
    BY <2>1, <2>2, SubSeqProperties
  <2>4. i - 1 + 1 = i /\ \A k \in 1 .. i : 1 + k - 1 = k
    BY <1>1
  <2>5. 1 <= i \/ i = 0
    BY <1>1
  <2> HIDE DEF front
  <2> QED
    BY <2>3, <2>4, <2>5 DEF Array
<1> HIDE DEF front
<1>3. Pieces(front, c, e)
  <2>1. \A k \in 1 .. i : k \in 1 .. Len(bufs)
    BY <1>1
  <2> QED
    BY <1>2, <2>1 DEF Pieces
<1> QED
  BY <1>2, <1>3 DEF Covers, front

LEMMA CoversBack ==
  ASSUME NEW bufs \in Array, NEW c \in Seq(Byte), NEW e, Pieces(bufs, c, e),
         NEW i \in 0 .. Len(bufs)
  PROVE  Covers(From(bufs, i), c, e[i], e[Len(bufs)])
<1> DEFINE n == Len(bufs)
           back == From(bufs, i)
           d == [k \in 0 .. n - i |-> e[i + k]]
<1>1. n \in Nat /\ \A k \in 1 .. n : bufs[k] \in Seq(Byte)
  BY SliceType
<1>2. /\ back \in Array /\ Len(back) = n - i
      /\ \A k \in 1 .. n - i : back[k] = bufs[i + k]
  <2>1. \A k \in i + 1 .. n : bufs[k] \in Seq(Byte)
    BY <1>1
  <2>2. i + 1 \in Int /\ n \in Int
    BY <1>1
  <2>3. /\ SubSeq(bufs, i + 1, n) \in Seq(Seq(Byte))
        /\ Len(SubSeq(bufs, i + 1, n)) = IF i + 1 <= n THEN n - (i + 1) + 1 ELSE 0
        /\ \A k \in 1 .. n - (i + 1) + 1 : SubSeq(bufs, i + 1, n)[k] = bufs[(i + 1) + k - 1]
    <3> HIDE DEF n
    <3> QED
      BY <2>1, <2>2, SubSeqProperties
  <2>4. n - (i + 1) + 1 = n - i /\ \A k \in 1 .. n - i : (i + 1) + k - 1 = i + k
    BY <1>1
  <2>5. i + 1 <= n \/ n - i = 0
    BY <1>1
  <2>6. back = SubSeq(bufs, i + 1, n)
    BY DEF From
  <2> HIDE DEF back, n
  <2> QED
    BY <2>3, <2>4, <2>5, <2>6 DEF Array
<1>3. d[0] = e[i] /\ d[n - i] = e[n] /\ \A k \in 0 .. n - i : d[k] = e[i + k]
  BY <1>1
<1> HIDE DEF back, d
<1>4. ASSUME NEW k \in 1 .. n - i
      PROVE  /\ d[k - 1] \in 0 .. Len(c) /\ d[k] \in d[k - 1] .. Len(c)
             /\ back[k] = Part(c, d[k - 1], d[k])
  <2>1. i + k \in 1 .. n /\ k \in 0 .. n - i /\ k - 1 \in 0 .. n - i /\ i + (k - 1) = (i + k) - 1
    BY <1>1
  <2>2. /\ e[(i + k) - 1] \in 0 .. Len(c) /\ e[i + k] \in e[(i + k) - 1] .. Len(c)
        /\ bufs[i + k] = Part(c, e[(i + k) - 1], e[i + k])
    BY <2>1 DEF Pieces
  <2>3. d[k] = e[i + k] /\ d[k - 1] = e[(i + k) - 1]
    BY <1>3, <2>1
  <2> QED
    BY <1>2, <2>2, <2>3
<1>5. e[i] \in 0 .. Len(c)
  <2>1. CASE i = 0
    BY <2>1 DEF Pieces
  <2>2. CASE i # 0
    <3>1. i \in 1 .. n
      BY <1>1, <2>2
    <3>2. e[i - 1] \in 0 .. Len(c) /\ e[i] \in e[i - 1] .. Len(c)
      BY <3>1 DEF Pieces
    <3> QED
      BY <3>2
  <2> QED
    BY <2>1, <2>2
<1> HIDE DEF n
<1>6. Pieces(back, c, d)
  BY <1>2, <1>3, <1>4, <1>5 DEF Pieces
<1>7. Covers(back, c, e[i], e[n])
  BY <1>2, <1>3, <1>6 DEF Covers
<1> QED
  BY <1>7 DEF back, n

-----------------------------------------------------------------------------
(* Splits.                                                                 *)
PrefixParts == [slices : Array, remainder : Seq(Byte)]

LEMMA PartsAre ==
  ASSUME NEW slices \in Array, NEW remainder \in Seq(Byte)
  PROVE  /\ Parts(slices, remainder) \in PrefixParts
         /\ Parts(slices, remainder).slices = slices
         /\ Parts(slices, remainder).remainder = remainder
  BY DEF Parts, PrefixParts

LEMMA PartsBuffers ==
  ASSUME NEW slices, NEW remainder
  PROVE  /\ PrefixBuffers(Parts(slices, remainder)) = Append(slices, remainder)
         /\ SuffixBuffers(Parts(slices, remainder)) = <<remainder>> \o slices
  BY DEF PrefixBuffers, SuffixBuffers, Parts

LEMMA EmptyPart ==
  ASSUME NEW c \in Seq(Byte), NEW m \in 0 .. Len(c)
  PROVE  <<>> = Part(c, m, m) /\ <<>> \in Seq(Byte) /\ m \in m .. Len(c) /\ m \in 0 .. m
<1>1. Len(c) \in Nat
  BY LenProperties
<1>2. m \in Nat
  BY <1>1
<1> QED
  BY <1>1, <1>2, PartEmpty, EmptySeq

(* A split of an array within its slice index + 1.                         *)
LEMMA CutArray ==
  ASSUME NEW bufs \in Array, NEW c \in Seq(Byte), NEW e, Pieces(bufs, c, e),
         NEW index \in 0 .. Len(bufs) - 1, NEW offset \in Nat,
         NEW m, m = e[index] + offset, m <= e[index + 1],
         NEW s, s = SplitArrayAtIndex(bufs, index, offset)
  PROVE  /\ Covers(PrefixBuffers(s.prefix), c, e[0], m)
         /\ Covers(SuffixBuffers(s.suffix), c, m, e[Len(bufs)])
         /\ Covers(s.prefix.slices, c, e[0], e[index])
         /\ s.prefix.remainder \in Seq(Byte) /\ Len(s.prefix.remainder) = offset
<1> DEFINE front == SubSeq(bufs, 1, index)
           b == bufs[index + 1]
<1>1. Len(bufs) \in Nat /\ Len(c) \in Nat
  BY SliceType, LenProperties
<1>2. /\ index + 1 \in 1 .. Len(bufs) /\ index \in 0 .. Len(bufs) /\ index + 1 \in 0 .. Len(bufs)
      /\ (index + 1) - 1 = index
  BY <1>1
<1>3. /\ e[index] \in 0 .. Len(c) /\ e[index + 1] \in e[index] .. Len(c)
      /\ b = Part(c, e[index], e[index + 1])
  BY <1>2 DEF Pieces
<1>4. m \in e[index] .. Len(c) /\ m \in 0 .. Len(c) /\ m \in 0 .. e[index + 1]
  BY <1>1, <1>3
<1>5. Covers(front, c, e[0], e[index])
  BY <1>2, CoversFront
<1>6. Covers(From(bufs, index), c, e[index], e[Len(bufs)])
  BY <1>2, CoversBack
<1>7. Covers(From(bufs, index + 1), c, e[index + 1], e[Len(bufs)])
  BY <1>2, CoversBack
<1> HIDE DEF front, b
<1>8. CASE offset = 0
  <2>1. m = e[index]
    BY <1>1, <1>3, <1>8
  <2>2. /\ s.prefix = Parts(front, <<>>) /\ s.suffix = Parts(From(bufs, index), <<>>)
    BY <1>8 DEF SplitArrayAtIndex, front
  <2>3. <<>> = Part(c, m, m) /\ m \in m .. Len(c) /\ m \in 0 .. m
    BY <1>4, EmptyPart
  <2>4. Covers(Append(front, Part(c, m, m)), c, e[0], m)
    BY <1>5, <2>1, <2>3, CoversAppend
  <2>5. Covers(<<Part(c, m, m)>> \o From(bufs, index), c, m, e[Len(bufs)])
    BY <1>6, <2>1, <2>3, CoversPrepend
  <2>6. /\ PrefixBuffers(s.prefix) = Append(front, <<>>)
        /\ SuffixBuffers(s.suffix) = << <<>> >> \o From(bufs, index)
        /\ s.prefix.slices = front /\ s.prefix.remainder = <<>>
    BY <2>2 DEF PrefixBuffers, SuffixBuffers, Parts
  <2> QED
    BY <1>5, <1>8, <2>3, <2>4, <2>5, <2>6, EmptySeq
<1>9. CASE offset # 0
  <2>1. /\ s.prefix = Parts(front, SubSeq(b, 1, offset))
        /\ s.suffix = Parts(From(bufs, index + 1), From(b, offset))
    BY <1>9 DEF SplitArrayAtIndex, front, b
  <2>2. /\ b \in Seq(Byte) /\ Len(b) = e[index + 1] - e[index]
    BY <1>3, PartFacts
  <2>3. /\ offset \in 0 .. e[index + 1] - e[index] /\ 0 \in 0 .. e[index + 1] - e[index]
        /\ offset \in 0 .. Len(b) /\ 0 \in 0 .. Len(b) /\ Len(b) \in offset .. Len(b)
        /\ Len(b) \in offset .. e[index + 1] - e[index]
        /\ e[index] + 0 = e[index] /\ e[index] + Len(b) = e[index + 1]
    BY <1>1, <1>3, <2>2
  <2>4. SubSeq(b, 1, offset) = Part(c, e[index], m)
    <3>1. Part(b, 0, offset) = Part(c, e[index] + 0, e[index] + offset)
      BY <1>3, <2>3, PartOfPart
    <3>2. 0 + 1 = 1
      OBVIOUS
    <3> QED
      BY <2>3, <3>1, <3>2 DEF Part
  <2>5. From(b, offset) = Part(c, m, e[index + 1])
    <3>1. Part(b, offset, Len(b)) = Part(c, e[index] + offset, e[index] + Len(b))
      BY <1>3, <2>3, PartOfPart
    <3> QED
      BY <2>3, <3>1 DEF Part, From
  <2>6. SubSeq(b, 1, offset) \in Seq(Byte) /\ Len(SubSeq(b, 1, offset)) = offset
    <3>1. m - e[index] = offset
      BY <1>3
    <3> QED
      BY <1>3, <1>4, <2>4, <3>1, PartFacts
  <2>7. Covers(Append(front, Part(c, e[index], m)), c, e[0], m)
    BY <1>4, <1>5, CoversAppend
  <2>8. Covers(<<Part(c, m, e[index + 1])>> \o From(bufs, index + 1), c, m, e[Len(bufs)])
    BY <1>4, <1>7, CoversPrepend
  <2>9. /\ PrefixBuffers(s.prefix) = Append(front, SubSeq(b, 1, offset))
        /\ SuffixBuffers(s.suffix) = <<From(b, offset)>> \o From(bufs, index + 1)
        /\ s.prefix.slices = front /\ s.prefix.remainder = SubSeq(b, 1, offset)
    BY <2>1 DEF PrefixBuffers, SuffixBuffers, Parts
  <2> QED
    BY <1>5, <2>4, <2>5, <2>6, <2>7, <2>8, <2>9
<1> QED
  BY <1>8, <1>9

(* Which slice the split at a byte goes through, and where.                *)
LEMMA SplitPointIs ==
  ASSUME NEW bufs \in Array, NEW m \in Nat, Beyond(bufs, m) # {}
  PROVE  LET at == SplitPoint(bufs, m)
         IN  /\ at.index \in 0 .. Len(bufs) - 1 /\ at.offset \in Nat
             /\ m = Ends(bufs)[at.index] + at.offset
             /\ m < Ends(bufs)[at.index + 1]
<1> DEFINE B == Beyond(bufs, m)
           Least(i) == \A j \in B : i <= j
           first == CHOOSE i \in B : Least(i)
           e == Ends(bufs)
<1>1. Len(bufs) \in Nat /\ e \in [0 .. Len(bufs) -> Nat] /\ e[0] = 0
  BY SliceType, EndsAre
<1>2. B \subseteq 1 .. Len(bufs) /\ \A i \in 1 .. Len(bufs) : i \in B <=> e[i] > m
  BY DEF Beyond
<1>3. first \in B /\ Least(first)
  <2>1. B \subseteq Nat
    BY <1>1, <1>2
  <2> HIDE DEF B
  <2>2. \E i \in B : Least(i)
    BY <2>1, LeastNumber DEF B
  <2> HIDE DEF Least
  <2> QED
    BY <2>2
<1>4. SplitPoint(bufs, m) = [index |-> first - 1, offset |-> m - e[first - 1]]
  BY DEF SplitPoint
<1> HIDE DEF B, first, e
<1>5. /\ first \in 1 .. Len(bufs) /\ first - 1 \in 0 .. Len(bufs) - 1
      /\ first - 1 \in 0 .. Len(bufs) /\ (first - 1) + 1 = first
  BY <1>1, <1>2, <1>3
<1>6. e[first] > m
  BY <1>2, <1>3, <1>5
<1>7. e[first - 1] <= m
  <2>1. CASE first = 1
    BY <1>1, <2>1
  <2>2. CASE first # 1
    <3>1. first - 1 \in 1 .. Len(bufs) /\ ~ (first <= first - 1)
      BY <1>1, <1>5, <2>2
    <3>2. first - 1 \notin B
      BY <1>3, <3>1
    <3> QED
      BY <1>1, <1>2, <1>5, <3>1, <3>2
  <2> QED
    BY <2>1, <2>2
<1>8. m - e[first - 1] \in Nat /\ m = e[first - 1] + (m - e[first - 1])
  BY <1>1, <1>5, <1>7
<1> QED
  BY <1>4, <1>5, <1>6, <1>8 DEF e

(* Where nothing is beyond the byte, the array ends before it.             *)
LEMMA NothingBeyond ==
  ASSUME NEW bufs \in Array, NEW m \in Nat
  PROVE  Beyond(bufs, m) = {} <=> TotalLen(bufs) <= m
<1> DEFINE n == Len(bufs)
           e == Ends(bufs)
<1>1. n \in Nat /\ e \in [0 .. n -> Nat] /\ e[0] = 0
  BY SliceType, EndsAre
<1>2. n \in 0 .. n /\ e[n] \in Nat
  BY <1>1
<1>3. ASSUME Beyond(bufs, m) = {} PROVE e[n] <= m
  <2>1. CASE n = 0
    BY <1>1, <2>1
  <2>2. CASE n # 0
    <3>1. n \in 1 .. n
      BY <1>1, <2>2
    <3>2. ~ (e[n] > m)
      BY <1>3, <3>1 DEF Beyond
    <3> QED
      BY <1>2, <3>2
  <2> QED
    BY <2>1, <2>2
<1>4. ASSUME NEW i \in Beyond(bufs, m) PROVE ~ (e[n] <= m)
  <2>1. i \in 1 .. n /\ e[i] > m /\ i \in 0 .. n
    BY DEF Beyond
  <2>2. Pieces(bufs, Concat(bufs), e) /\ Len(Concat(bufs)) = e[n] /\ Concat(bufs) \in Seq(Byte)
    BY OwnPieces DEF TotalLen
  <2>3. e[i - 1] \in 0 .. Len(Concat(bufs)) /\ e[i] \in e[i - 1] .. Len(Concat(bufs))
    BY <2>1, <2>2 DEF Pieces
  <2> HIDE DEF e, n
  <2> QED
    BY <1>1, <1>2, <2>1, <2>2, <2>3
<1> QED
  BY <1>3, <1>4 DEF TotalLen

(* split_at_byte_offset of an array, at any byte of it or beyond it: the   *)
(* whole slices of the prefix end at the last of the array's that do not   *)
(* end behind the split.                                                   *)
LEMMA SplitArrayIs ==
  ASSUME NEW bufs \in Array, NEW m \in Nat,
         NEW c, c = Concat(bufs), NEW k, k = Advance(c, m),
         NEW s, s = SplitArray(bufs, m)
  PROVE  /\ c \in Seq(Byte) /\ k \in 0 .. Len(c)
         /\ Covers(PrefixBuffers(s.prefix), c, 0, k)
         /\ Covers(SuffixBuffers(s.suffix), c, k, Len(c))
         /\ s.prefix.remainder \in Seq(Byte)
         /\ \E i \in 0 .. Len(bufs) :
              /\ Covers(s.prefix.slices, c, 0, Ends(bufs)[i])
              /\ Ends(bufs)[i] <= m
              /\ i < Len(bufs) => m < Ends(bufs)[i + 1]
              /\ Len(s.prefix.remainder) = k - Ends(bufs)[i]
<1> DEFINE e == Ends(bufs)
           n == Len(bufs)
<1>1. /\ n \in Nat /\ c \in Seq(Byte) /\ Len(c) \in Nat /\ Pieces(bufs, c, e)
      /\ Len(c) = e[n] /\ TotalLen(bufs) = e[n]
  BY SliceType, OwnPieces, LenProperties DEF TotalLen
<1>2. e \in [0 .. n -> Nat] /\ e[0] = 0 /\ n \in 0 .. n
  BY <1>1, EndsAre
<1> HIDE DEF e
<1>3. CASE Beyond(bufs, m) = {}
  <2>1. e[n] <= m
    BY <1>1, <1>3, NothingBeyond
  <2>2. k = Len(c)
    BY <1>1, <2>1 DEF Advance
  <2>3. /\ s.prefix = Parts(bufs, <<>>) /\ s.suffix = Parts(<<>>, <<>>)
    BY <1>3 DEF SplitArray, NoParts
  <2>4. /\ PrefixBuffers(s.prefix) = Append(bufs, <<>>)
        /\ SuffixBuffers(s.suffix) = << <<>> >> \o <<>>
        /\ s.prefix.slices = bufs /\ s.prefix.remainder = <<>>
    BY <2>3 DEF PrefixBuffers, SuffixBuffers, Parts
  <2>5. k \in 0 .. Len(c) /\ e[n] = k
    BY <1>1, <2>2
  <2>6. <<>> = Part(c, k, k) /\ k \in k .. Len(c) /\ k \in 0 .. k
    BY <1>1, <2>5, EmptyPart
  <2>7. Covers(bufs, c, 0, k)
    BY <1>1, <1>2, <2>5 DEF Covers
  <2>8. Covers(Append(bufs, Part(c, k, k)), c, 0, k)
    BY <1>1, <2>6, <2>7, CoversAppend
  <2>9. Covers(<<>>, c, k, k)
    BY <1>1, <2>5, CoversNone
  <2>10. Covers(<<Part(c, k, k)>> \o <<>>, c, k, k)
    BY <1>1, <2>6, <2>9, CoversPrepend
  <2>11. /\ Covers(s.prefix.slices, c, 0, e[n]) /\ e[n] <= m /\ (n < n => m < e[n + 1])
         /\ Len(s.prefix.remainder) = k - e[n]
    <3>1. Len(<<>>) = 0 /\ k - e[n] = 0 /\ ~ (n < n)
      BY <1>1, <2>5, EmptySeq
    <3> QED
      BY <2>1, <2>4, <2>5, <2>7, <3>1
  <2> QED
    BY <1>1, <1>2, <2>2, <2>4, <2>5, <2>6, <2>8, <2>10, <2>11, EmptySeq DEF e
<1>4. CASE Beyond(bufs, m) # {}
  <2> DEFINE at == SplitPoint(bufs, m)
             i == at.index
             o == at.offset
  <2>1. i \in 0 .. n - 1 /\ o \in Nat /\ m = e[i] + o /\ m < e[i + 1]
    BY <1>4, SplitPointIs DEF e
  <2>2. s = SplitArrayAtIndex(bufs, i, o)
    BY <1>4 DEF SplitArray
  <2> HIDE DEF i, o
  <2>3. i \in 0 .. n /\ e[i] <= m /\ m <= e[i + 1]
    <3>1. i \in 0 .. n /\ i + 1 \in 0 .. n
      BY <1>1, <2>1
    <3>2. e[i] \in Nat /\ e[i + 1] \in Nat
      BY <1>2, <3>1
    <3> HIDE DEF n
    <3> QED
      BY <2>1, <3>1, <3>2
  <2>4. m <= Len(c) /\ k = m
    <3>1. ~ (e[n] <= m)
      BY <1>1, <1>4, NothingBeyond
    <3> QED
      BY <1>1, <3>1 DEF Advance
  <2>5. /\ Covers(PrefixBuffers(s.prefix), c, e[0], m)
        /\ Covers(SuffixBuffers(s.suffix), c, m, e[n])
        /\ Covers(s.prefix.slices, c, e[0], e[i])
        /\ s.prefix.remainder \in Seq(Byte) /\ Len(s.prefix.remainder) = o
    BY <1>1, <2>1, <2>2, <2>3, CutArray
  <2>6. o = k - e[i]
    <3>1. e[i] \in Nat
      BY <1>2, <2>3
    <3> QED
      BY <2>1, <2>4, <3>1
  <2>7. k \in 0 .. Len(c)
    BY <1>1, <2>4
  <2> HIDE DEF n
  <2> QED
    BY <1>1, <1>2, <2>1, <2>3, <2>4, <2>5, <2>6, <2>7 DEF n, e
<1> QED
  BY <1>3, <1>4

(* split_at_byte_offset of a Prefix.  What lies between the end of its     *)
(* slices and that of its remainder is lost to the suffix of a split that  *)
(* leaves the remainder behind.                                            *)
LEMMA SplitPrefixIs ==
  ASSUME NEW p, p.slices \in Array, p.remainder \in Seq(Byte), NEW m \in Nat,
         NEW c, c = Concat(PrefixBuffers(p)), NEW k, k = Advance(c, m),
         NEW s, s = SplitPrefix(p, m)
  PROVE  /\ c \in Seq(Byte) /\ k \in 0 .. Len(c)
         /\ Covers(PrefixBuffers(s.prefix), c, 0, k)
         /\ TotalLen(p.slices) \in 0 .. Len(c)
         /\ Covers(p.slices, c, 0, TotalLen(p.slices))
         /\ Covers(SuffixBuffers(s.suffix), c, k,
                   IF m < TotalLen(p.slices) THEN TotalLen(p.slices) ELSE Len(c))
<1> DEFINE slices == p.slices
           r == p.remainder
           bufs == PrefixBuffers(p)
           e == Ends(bufs)
           l == Len(slices)
           t == TotalLen(slices)
<1>1. slices \in Array /\ l \in Nat
  BY SliceType
<1>2. /\ bufs \in Array /\ Len(bufs) = l + 1 /\ bufs[l + 1] = r
      /\ \A i \in 1 .. l : bufs[i] = slices[i]
  BY AppendProperties DEF Array, PrefixBuffers
<1> HIDE DEF bufs
<1>3. /\ c \in Seq(Byte) /\ Len(c) \in Nat /\ Pieces(bufs, c, e)
      /\ Len(c) = e[l + 1] /\ TotalLen(bufs) = e[l + 1]
  <2>1. c = Concat(bufs)
    BY DEF bufs
  <2> QED
    BY <1>2, <2>1, OwnPieces, LenProperties DEF TotalLen
<1>4. e \in [0 .. l + 1 -> Nat] /\ e[0] = 0
  BY <1>2, EndsAre
<1> HIDE DEF e, l, slices
<1>5. Pieces(slices, c, e)
  <2>1. \A i \in 1 .. l : i \in 1 .. l + 1
    BY <1>1
  <2> QED
    BY <1>2, <1>3, <2>1 DEF Pieces, l
<1>6. l \in 0 .. l /\ l \in 0 .. l + 1 /\ l + 1 \in 0 .. l + 1
  BY <1>1
<1>7. t = e[l]
  BY <1>1, <1>3, <1>4, <1>5, <1>6, PiecesEnd DEF TotalLen, l
<1>8. Covers(slices, c, 0, e[l])
  BY <1>1, <1>4, <1>5 DEF Covers, l
<1>9. t \in 0 .. Len(c) /\ Covers(slices, c, 0, t)
  <2>1. e[l] \in 0 .. Len(c)
    BY <1>3, <1>8, CoversIs
  <2> QED
    BY <1>7, <1>8, <2>1
<1>10. k \in 0 .. Len(c)
  BY <1>3 DEF Advance
<1> DEFINE end == IF m < t THEN t ELSE Len(c)
           Goal == Covers(PrefixBuffers(s.prefix), c, 0, k) /\ Covers(SuffixBuffers(s.suffix), c, k, end)
<1>12. ASSUME Beyond(bufs, m) = {} PROVE Goal
  <2>1. e[l + 1] <= m
    BY <1>2, <1>3, <1>12, NothingBeyond
  <2>2. k = Len(c) /\ ~ (m < t)
    BY <1>3, <1>9, <2>1 DEF Advance
  <2>3. s.prefix = p /\ s.suffix = Parts(<<>>, <<>>)
    BY <1>12 DEF SplitPrefix, NoParts, bufs
  <2>4. SuffixBuffers(s.suffix) = << <<>> >> \o <<>>
    BY <2>3 DEF SuffixBuffers, Parts
  <2>5. <<>> = Part(c, k, k) /\ k \in k .. Len(c) /\ k \in 0 .. k
    BY <1>3, <1>10, EmptyPart
  <2>6. Covers(<<>>, c, k, k)
    BY <1>3, <1>10, CoversNone
  <2>7. Covers(<<Part(c, k, k)>> \o <<>>, c, k, k)
    BY <1>3, <2>5, <2>6, CoversPrepend
  <2>8. Covers(bufs, c, 0, k)
    <3>1. e[0] = 0 /\ e[l + 1] = k
      BY <1>3, <1>4, <2>2
    <3> QED
      BY <1>2, <1>3, <3>1 DEF Covers
  <2>9. end = Len(c)
    BY <2>2
  <2>10. PrefixBuffers(s.prefix) = bufs
    BY <2>3 DEF bufs
  <2> HIDE DEF end, t
  <2> QED
    BY <2>2, <2>4, <2>5, <2>7, <2>8, <2>9, <2>10
<1>13. ASSUME Beyond(bufs, m) # {} PROVE Goal
  <2> DEFINE at == SplitPoint(bufs, m)
             i == at.index
             o == at.offset
  <2>1. i \in 0 .. l /\ o \in Nat /\ m = e[i] + o /\ m < e[i + 1]
    <3>1. /\ i \in 0 .. (l + 1) - 1 /\ o \in Nat /\ m = e[i] + o /\ m < e[i + 1]
      BY <1>2, <1>13, SplitPointIs DEF e
    <3>2. (l + 1) - 1 = l
      BY <1>1
    <3> HIDE DEF i, o
    <3> QED
      BY <3>1, <3>2
  <2>2. s = SplitPrefixAtIndex(p, i, o)
    BY <1>13 DEF SplitPrefix, bufs
  <2> HIDE DEF i, o
  <2>3. /\ i \in 0 .. l + 1 /\ i + 1 \in 0 .. l + 1 /\ i + 1 \in 1 .. l + 1 /\ (i + 1) - 1 = i
        /\ e[i] \in Nat /\ e[i + 1] \in Nat
    BY <1>1, <1>4, <2>1
  <2>4. e[i] \in 0 .. Len(c) /\ e[i + 1] \in e[i] .. Len(c) /\ bufs[i + 1] = Part(c, e[i], e[i + 1])
    BY <1>2, <1>3, <2>3 DEF Pieces
  <2>5. k = m /\ m \in e[i] .. Len(c) /\ m <= e[i + 1]
    BY <1>3, <2>1, <2>3, <2>4 DEF Advance
  <2>6. CASE i = l
    <3>1. s.prefix = Parts(slices, SubSeq(r, 1, o)) /\ s.suffix = Parts(<<>>, From(r, o))
      BY <2>2, <2>6 DEF SplitPrefixAtIndex, slices, l
    <3>2. /\ PrefixBuffers(s.prefix) = Append(slices, SubSeq(r, 1, o))
          /\ SuffixBuffers(s.suffix) = <<From(r, o)>> \o <<>>
      BY <3>1, PartsBuffers, Zenon
    <3>3. r = Part(c, e[l], e[l + 1]) /\ r \in Seq(Byte) /\ Len(r) = e[l + 1] - e[l]
      <4>1. r = Part(c, e[l], e[l + 1])
        BY <1>2, <2>4, <2>6
      <4>2. e[l] \in 0 .. Len(c) /\ e[l + 1] \in e[l] .. Len(c)
        BY <2>4, <2>6
      <4>3. /\ Part(c, e[l], e[l + 1]) \in Seq(Byte)
            /\ Len(Part(c, e[l], e[l + 1])) = e[l + 1] - e[l]
        BY <1>3, <4>2, PartFacts
      <4> HIDE DEF r
      <4> QED
        BY <4>1, <4>3
    <3> HIDE DEF r
    <3>4. /\ o \in 0 .. e[l + 1] - e[l] /\ 0 \in 0 .. e[l + 1] - e[l]
          /\ Len(r) \in o .. e[l + 1] - e[l] /\ o \in 0 .. o
          /\ e[l] + 0 = e[l] /\ e[l] + o = m /\ e[l] + Len(r) = e[l + 1]
      BY <1>1, <2>1, <2>3, <2>4, <2>5, <2>6, <3>3
    <3>5. SubSeq(r, 1, o) = Part(c, e[l], m)
      <4>1. Part(Part(c, e[l], e[l + 1]), 0, o) = Part(c, e[l] + 0, e[l] + o)
        BY <1>3, <2>4, <2>6, <3>4, PartOfPart
      <4>2. 0 + 1 = 1
        OBVIOUS
      <4> QED
        BY <3>3, <3>4, <4>1, <4>2 DEF Part
    <3>6. From(r, o) = Part(c, m, e[l + 1])
      <4>1. Part(Part(c, e[l], e[l + 1]), o, Len(r)) = Part(c, e[l] + o, e[l] + Len(r))
        BY <1>3, <2>4, <2>6, <3>4, PartOfPart
      <4>2. Part(r, o, Len(r)) = Part(c, m, e[l + 1])
        BY <3>3, <3>4, <4>1
      <4> QED
        BY <4>2 DEF Part, From
    <3>7. Covers(Append(slices, Part(c, e[l], m)), c, 0, m)
      BY <1>3, <1>8, <2>5, <2>6, CoversAppend
    <3>8. Covers(<<>>, c, Len(c), Len(c))
      BY <1>3, CoversNone
    <3>9. m \in 0 .. Len(c)
      BY <1>3, <2>5
    <3>10. Covers(<<Part(c, m, Len(c))>> \o <<>>, c, m, Len(c))
      BY <1>3, <3>8, <3>9, CoversPrepend
    <3>11. end = Len(c)
      <4>1. ~ (m < t)
        BY <1>3, <1>7, <2>3, <2>5, <2>6
      <4> HIDE DEF t
      <4> QED
        BY <4>1
    <3> HIDE DEF end
    <3> QED
      BY <1>3, <2>5, <3>2, <3>5, <3>6, <3>7, <3>10, <3>11
  <2>7. CASE i # l
    <3>1. i \in 0 .. l - 1 /\ i + 1 \in 1 .. l
      BY <1>1, <2>1, <2>7
    <3>2. s = SplitArrayAtIndex(slices, i, o)
      BY <2>2, <2>7 DEF SplitPrefixAtIndex, slices, l
    <3>3. /\ Covers(PrefixBuffers(s.prefix), c, e[0], m)
          /\ Covers(SuffixBuffers(s.suffix), c, m, e[l])
      BY <1>1, <1>3, <1>5, <2>1, <2>5, <3>1, <3>2, CutArray DEF l
    <3>4. e[i + 1] <= e[l]
      <4>1. i + 1 \in 0 .. l
        BY <1>1, <3>1
      <4>2. Covers(From(slices, i + 1), c, e[i + 1], e[l])
        BY <1>1, <1>3, <1>5, <4>1, CoversBack DEF l
      <4>3. e[l] \in e[i + 1] .. Len(c)
        BY <1>3, <4>2, CoversIs
      <4> QED
        BY <1>3, <2>3, <4>3
    <3>5. end = e[l]
      <4>1. m < t /\ t = e[l]
        BY <1>3, <1>7, <1>9, <2>1, <2>3, <2>5, <3>4
      <4> HIDE DEF t
      <4> QED
        BY <4>1
    <3> HIDE DEF end
    <3> QED
      BY <1>4, <2>5, <3>3, <3>5
  <2> QED
    BY <2>6, <2>7
<1> HIDE DEF t, end
<1>14. Goal
  BY <1>12, <1>13
<1> QED
  BY <1>3, <1>9, <1>10, <1>14 DEF t, end, slices

-----------------------------------------------------------------------------
(* The iterators, one slice at a time.                                     *)
TakeType == [left : Nat, yields : Array]
SkipType == [left : Nat, passed : BOOLEAN, yields : Array]

LEMMA PrefixOf ==
  ASSUME NEW b \in Seq(Byte), NEW n \in 0 .. Len(b)
  PROVE  /\ SubSeq(b, 1, n) = Part(b, 0, n) /\ SubSeq(b, 1, n) \in Seq(Byte)
         /\ Len(SubSeq(b, 1, n)) = n
         /\ From(b, n) = Part(b, n, Len(b)) /\ From(b, n) \in Seq(Byte)
         /\ Len(From(b, n)) = Len(b) - n
<1>1. /\ Len(b) \in Nat /\ 0 \in 0 .. Len(b) /\ n \in 0 .. Len(b) /\ Len(b) \in n .. Len(b)
      /\ 0 + 1 = 1 /\ n - 0 = n
  BY LenProperties
<1>2. Part(b, 0, n) \in Seq(Byte) /\ Len(Part(b, 0, n)) = n - 0
  BY <1>1, PartFacts
<1>3. Part(b, n, Len(b)) \in Seq(Byte) /\ Len(Part(b, n, Len(b))) = Len(b) - n
  BY <1>1, PartFacts
<1>4. SubSeq(b, 1, n) = Part(b, 0, n) /\ From(b, n) = Part(b, n, Len(b))
  BY <1>1 DEF Part, From
<1> QED
  BY <1>1, <1>2, <1>3, <1>4

LEMMA TakeNextType ==
  ASSUME NEW acc \in TakeType, NEW b \in Seq(Byte)
  PROVE  TakeNext(acc, b) \in TakeType
<1>1. /\ acc.left \in Nat /\ acc.yields \in Array /\ Len(b) \in Nat
  BY LenProperties DEF TakeType
<1>2. CASE acc.left = 0
  BY <1>2 DEF TakeNext
<1>3. CASE acc.left # 0 /\ acc.left >= Len(b)
  <2>1. Append(acc.yields, b) \in Array /\ acc.left - Len(b) \in Nat
    BY <1>1, <1>3, AppendProperties DEF Array
  <2> QED
    BY <1>3, <2>1 DEF TakeNext, TakeType
<1>4. CASE acc.left # 0 /\ ~ (acc.left >= Len(b))
  <2>1. acc.left \in 0 .. Len(b)
    BY <1>1, <1>4
  <2>2. Append(acc.yields, SubSeq(b, 1, acc.left)) \in Array
    BY <1>1, <2>1, PrefixOf, AppendProperties DEF Array
  <2> QED
    BY <1>4, <2>2 DEF TakeNext, TakeType
<1> QED
  BY <1>2, <1>3, <1>4

LEMMA SkipNextType ==
  ASSUME NEW acc \in SkipType, NEW b \in Seq(Byte)
  PROVE  SkipNext(acc, b) \in SkipType
<1>1. /\ acc.left \in Nat /\ acc.yields \in Array /\ Len(b) \in Nat
      /\ acc.passed \in BOOLEAN /\ acc = [left |-> acc.left, passed |-> acc.passed, yields |-> acc.yields]
  BY LenProperties DEF SkipType
<1>2. CASE acc.passed
  <2>1. Append(acc.yields, b) \in Array
    BY <1>1, AppendProperties DEF Array
  <2>2. SkipNext(acc, b) = [acc EXCEPT !.yields = Append(acc.yields, b)]
    BY <1>2 DEF SkipNext
  <2> QED
    BY <2>1, <2>2 DEF SkipType
<1>3. CASE ~ acc.passed /\ acc.left >= Len(b)
  <2>1. acc.left - Len(b) \in Nat
    BY <1>1, <1>3
  <2>2. SkipNext(acc, b) = [acc EXCEPT !.left = acc.left - Len(b)]
    BY <1>3 DEF SkipNext
  <2> QED
    BY <2>1, <2>2 DEF SkipType
<1>4. CASE ~ acc.passed /\ ~ (acc.left >= Len(b))
  <2>1. acc.left \in 0 .. Len(b)
    BY <1>1, <1>4
  <2>2. SkipNext(acc, b) = [left |-> 0, passed |-> TRUE, yields |-> <<From(b, acc.left)>>]
    BY <1>4 DEF SkipNext
  <2>3. <<From(b, acc.left)>> \in Array
    <3> DEFINE r == From(b, acc.left)
    <3>1. r \in Seq(Byte)
      BY <2>1, PrefixOf
    <3> HIDE DEF r
    <3>2. <<r>> \in Seq(Seq(Byte))
      BY <3>1
    <3> QED
      BY <3>2 DEF r, Array
  <2> QED
    BY <2>2, <2>3 DEF SkipType
<1> QED
  BY <1>2, <1>3, <1>4

LEMMA TookAre ==
  ASSUME NEW bufs \in Array, NEW max \in Nat
  PROVE  /\ Took(bufs, max) \in [0 .. Len(bufs) -> TakeType]
         /\ Took(bufs, max)[0] = [left |-> max, yields |-> <<>>]
         /\ \A k \in 1 .. Len(bufs) : Took(bufs, max)[k] = TakeNext(Took(bufs, max)[k - 1], bufs[k])
<1> DEFINE n == Len(bufs)
           x0 == [left |-> max, yields |-> <<>>]
           F == [k \in 1 .. n |-> [x \in TakeType |-> TakeNext(x, bufs[k])]]
           Rhs(g) == [i \in 0 .. n |-> IF i = 0 THEN x0 ELSE TakeNext(g[i - 1], bufs[i])]
           Is(g) == g = Rhs(g)
           C == Took(bufs, max)
<1>1. n \in Nat /\ \A k \in 1 .. n : bufs[k] \in Seq(Byte)
  BY SliceType
<1>2. x0 \in TakeType /\ IsStep(F, n, TakeType)
  <2>1. x0 \in TakeType
    BY EmptySeq DEF TakeType, Array
  <2>2. \A k \in 1 .. n : \A x \in TakeType : TakeNext(x, bufs[k]) \in TakeType
    BY <1>1, TakeNextType
  <2>3. F \in [1 .. n -> [TakeType -> TakeType]]
    <3> HIDE DEF n
    <3> QED
      BY <2>2
  <2> HIDE DEF F, x0
  <2> QED
    BY <2>1, <2>3 DEF IsStep
<1>3. \A k \in 1 .. n : \A x \in TakeType : F[k][x] = TakeNext(x, bufs[k])
  OBVIOUS
<1>4. C = CHOOSE g : Is(g)
  BY DEF Took
<1> HIDE DEF F, C, n, x0
<1>5. PICK g : Follows(g, n, TakeType, x0, F)
  BY <1>1, <1>2, RecursionExists
<1>6. Is(g)
  <2>1. g = [i \in 0 .. n |-> g[i]]
    BY <1>5 DEF Follows
  <2>2. ASSUME NEW i \in 0 .. n
        PROVE  g[i] = IF i = 0 THEN x0 ELSE TakeNext(g[i - 1], bufs[i])
    <3>1. CASE i = 0
      BY <1>5, <3>1 DEF Follows
    <3>2. CASE i # 0
      <4>1. i \in 1 .. n /\ i - 1 \in 0 .. n
        BY <1>1, <3>2
      <4>2. g[i] = F[i][g[i - 1]] /\ g[i - 1] \in TakeType
        BY <1>5, <4>1 DEF Follows
      <4> QED
        BY <1>3, <3>2, <4>1, <4>2
    <3> QED
      BY <3>1, <3>2
  <2>3. \A i \in 0 .. n : Rhs(g)[i] = IF i = 0 THEN x0 ELSE TakeNext(g[i - 1], bufs[i])
    OBVIOUS
  <2>4. Rhs(g) = [i \in 0 .. n |-> Rhs(g)[i]]
    OBVIOUS
  <2> HIDE DEF Rhs
  <2>5. \A i \in 0 .. n : g[i] = Rhs(g)[i]
    BY <2>2, <2>3
  <2> QED
    BY <2>1, <2>4, <2>5
<1>7. C = Rhs(C)
  <2>1. Is(C)
    <3> HIDE DEF Is
    <3> QED
      BY <1>4, <1>6
  <2> QED
    BY <2>1
<1>8. C = [i \in 0 .. n |-> C[i]]
  BY <1>7
<1>9. C[0] = x0 /\ \A k \in 1 .. n : C[k] = TakeNext(C[k - 1], bufs[k])
  <2>1. Rhs(C)[0] = x0
    BY <1>1
  <2>2. \A k \in 1 .. n : Rhs(C)[k] = TakeNext(C[k - 1], bufs[k])
    BY <1>1
  <2> HIDE DEF Rhs
  <2> QED
    BY <1>7, <2>1, <2>2, Zenon
<1> DEFINE T == {m \in 0 .. n : C[m] \in TakeType}
<1>10. 0 \in T
  BY <1>1, <1>2, <1>9
<1>11. ASSUME NEW m \in 0 .. n - 1, m \in T PROVE m + 1 \in T
  <2>1. m + 1 \in 1 .. n /\ m + 1 \in 0 .. n /\ (m + 1) - 1 = m
    BY <1>1
  <2>2. C[m + 1] = TakeNext(C[m], bufs[m + 1])
    BY <1>9, <2>1
  <2>3. TakeNext(C[m], bufs[m + 1]) \in TakeType
    BY <1>1, <1>11, <2>1, TakeNextType
  <2> QED
    BY <2>1, <2>2, <2>3
<1>12. 0 .. n \subseteq T
  <2> HIDE DEF T
  <2> QED
    BY <1>1, <1>10, <1>11, UpTo
<1>13. C \in [0 .. n -> TakeType]
  BY <1>8, <1>12
<1> QED
  BY <1>9, <1>13 DEF C, n, x0

LEMMA SkippedAre ==
  ASSUME NEW bufs \in Array, NEW max \in Nat
  PROVE  /\ Skipped(bufs, max) \in [0 .. Len(bufs) -> SkipType]
         /\ Skipped(bufs, max)[0] = [left |-> max, passed |-> max = 0, yields |-> <<>>]
         /\ \A k \in 1 .. Len(bufs) : Skipped(bufs, max)[k] = SkipNext(Skipped(bufs, max)[k - 1], bufs[k])
<1> DEFINE n == Len(bufs)
           x0 == [left |-> max, passed |-> max = 0, yields |-> <<>>]
           F == [k \in 1 .. n |-> [x \in SkipType |-> SkipNext(x, bufs[k])]]
           Rhs(g) == [i \in 0 .. n |-> IF i = 0 THEN x0 ELSE SkipNext(g[i - 1], bufs[i])]
           Is(g) == g = Rhs(g)
           C == Skipped(bufs, max)
<1>1. n \in Nat /\ \A k \in 1 .. n : bufs[k] \in Seq(Byte)
  BY SliceType
<1>2. x0 \in SkipType /\ IsStep(F, n, SkipType)
  <2>1. x0 \in SkipType
    BY EmptySeq DEF SkipType, Array
  <2>2. \A k \in 1 .. n : \A x \in SkipType : SkipNext(x, bufs[k]) \in SkipType
    BY <1>1, SkipNextType
  <2>3. F \in [1 .. n -> [SkipType -> SkipType]]
    <3> HIDE DEF n
    <3> QED
      BY <2>2
  <2> HIDE DEF F, x0
  <2> QED
    BY <2>1, <2>3 DEF IsStep
<1>3. \A k \in 1 .. n : \A x \in SkipType : F[k][x] = SkipNext(x, bufs[k])
  OBVIOUS
<1>4. C = CHOOSE g : Is(g)
  BY DEF Skipped
<1> HIDE DEF F, C, n, x0
<1>5. PICK g : Follows(g, n, SkipType, x0, F)
  BY <1>1, <1>2, RecursionExists
<1>6. Is(g)
  <2>1. g = [i \in 0 .. n |-> g[i]]
    BY <1>5 DEF Follows
  <2>2. ASSUME NEW i \in 0 .. n
        PROVE  g[i] = IF i = 0 THEN x0 ELSE SkipNext(g[i - 1], bufs[i])
    <3>1. CASE i = 0
      BY <1>5, <3>1 DEF Follows
    <3>2. CASE i # 0
      <4>1. i \in 1 .. n /\ i - 1 \in 0 .. n
        BY <1>1, <3>2
      <4>2. g[i] = F[i][g[i - 1]] /\ g[i - 1] \in SkipType
        BY <1>5, <4>1 DEF Follows
      <4> QED
        BY <1>3, <3>2, <4>1, <4>2
    <3> QED
      BY <3>1, <3>2
  <2>3. \A i \in 0 .. n : Rhs(g)[i] = IF i = 0 THEN x0 ELSE SkipNext(g[i - 1], bufs[i])
    OBVIOUS
  <2>4. Rhs(g) = [i \in 0 .. n |-> Rhs(g)[i]]
    OBVIOUS
  <2> HIDE DEF Rhs
  <2>5. \A i \in 0 .. n : g[i] = Rhs(g)[i]
    BY <2>2, <2>3
  <2> QED
    BY <2>1, <2>4, <2>5
<1>7. C = Rhs(C)
  <2>1. Is(C)
    <3> HIDE DEF Is
    <3> QED
      BY <1>4, <1>6
  <2> QED
    BY <2>1
<1>8. C = [i \in 0 .. n |-> C[i]]
  BY <1>7
<1>9. C[0] = x0 /\ \A k \in 1 .. n : C[k] = SkipNext(C[k - 1], bufs[k])
  <2>1. Rhs(C)[0] = x0
    BY <1>1
  <2>2. \A k \in 1 .. n : Rhs(C)[k] = SkipNext(C[k - 1], bufs[k])
    BY <1>1
  <2> HIDE DEF Rhs
  <2> QED
    BY <1>7, <2>1, <2>2, Zenon
<1> DEFINE T == {m \in 0 .. n : C[m] \in SkipType}
<1>10. 0 \in T
  BY <1>1, <1>2, <1>9
<1>11. ASSUME NEW m \in 0 .. n - 1, m \in T PROVE m + 1 \in T
  <2>1. m + 1 \in 1 .. n /\ m + 1 \in 0 .. n /\ (m + 1) - 1 = m
    BY <1>1
  <2>2. C[m + 1] = SkipNext(C[m], bufs[m + 1])
    BY <1>9, <2>1
  <2>3. SkipNext(C[m], bufs[m + 1]) \in SkipType
    BY <1>1, <1>11, <2>1, SkipNextType
  <2> QED
    BY <2>1, <2>2, <2>3
<1>12. 0 .. n \subseteq T
  <2> HIDE DEF T
  <2> QED
    BY <1>1, <1>10, <1>11, UpTo
<1>13. C \in [0 .. n -> SkipType]
  BY <1>8, <1>12
<1> QED
  BY <1>9, <1>13 DEF C, n, x0

(* One slice of an array, and the parts it is cut into.                    *)
LEMMA SliceAt ==
  ASSUME NEW bufs \in Array, NEW i \in 0 .. Len(bufs) - 1,
         NEW c, c = Concat(bufs), NEW e, e = Ends(bufs)
  PROVE  /\ i + 1 \in 1 .. Len(bufs) /\ i + 1 \in 0 .. Len(bufs) /\ i \in 0 .. Len(bufs)
         /\ (i + 1) - 1 = i
         /\ e[i] \in 0 .. Len(c) /\ e[i + 1] \in e[i] .. Len(c) /\ Len(c) \in Nat
         /\ bufs[i + 1] \in Seq(Byte) /\ Len(bufs[i + 1]) = e[i + 1] - e[i]
         /\ bufs[i + 1] = Part(c, e[i], e[i + 1])
         /\ \A x \in 0 .. Len(bufs[i + 1]) :
              /\ SubSeq(bufs[i + 1], 1, x) = Part(c, e[i], e[i] + x)
              /\ From(bufs[i + 1], x) = Part(c, e[i] + x, e[i + 1])
<1> DEFINE b == bufs[i + 1]
<1>1. /\ c \in Seq(Byte) /\ Pieces(bufs, c, e) /\ Len(c) \in Nat /\ Len(bufs) \in Nat
  BY OwnPieces, SliceType, LenProperties
<1>2. /\ i + 1 \in 1 .. Len(bufs) /\ i + 1 \in 0 .. Len(bufs) /\ i \in 0 .. Len(bufs)
      /\ (i + 1) - 1 = i
  BY <1>1
<1>3. /\ e[i] \in 0 .. Len(c) /\ e[i + 1] \in e[i] .. Len(c)
      /\ b = Part(c, e[i], e[i + 1])
  BY <1>1, <1>2 DEF Pieces
<1> HIDE DEF b
<1>4. b \in Seq(Byte) /\ Len(b) = e[i + 1] - e[i]
  <2>1. Part(c, e[i], e[i + 1]) \in Seq(Byte) /\ Len(Part(c, e[i], e[i + 1])) = e[i + 1] - e[i]
    BY <1>1, <1>3, PartFacts
  <2> QED
    BY <1>3, <2>1
<1>5. ASSUME NEW x \in 0 .. Len(b)
      PROVE  /\ SubSeq(b, 1, x) = Part(c, e[i], e[i] + x)
             /\ From(b, x) = Part(c, e[i] + x, e[i + 1])
  <2>1. SubSeq(b, 1, x) = Part(b, 0, x) /\ From(b, x) = Part(b, x, Len(b))
    BY <1>4, PrefixOf
  <2>2. /\ 0 \in 0 .. e[i + 1] - e[i] /\ x \in 0 .. e[i + 1] - e[i] /\ x \in 0 .. e[i + 1] - e[i]
        /\ Len(b) \in x .. e[i + 1] - e[i] /\ e[i] + 0 = e[i] /\ e[i] + Len(b) = e[i + 1]
    BY <1>1, <1>3, <1>4
  <2>3. Part(Part(c, e[i], e[i + 1]), 0, x) = Part(c, e[i] + 0, e[i] + x)
    BY <1>1, <1>3, <2>2, PartOfPart
  <2>4. Part(Part(c, e[i], e[i + 1]), x, Len(b)) = Part(c, e[i] + x, e[i] + Len(b))
    BY <1>1, <1>3, <2>2, PartOfPart
  <2> QED
    BY <1>3, <2>1, <2>2, <2>3, <2>4
<1> QED
  BY <1>1, <1>2, <1>3, <1>4, <1>5 DEF b

(* TakeBytesLen yields the bytes before its count.                         *)
LEMMA TakesPrefix ==
  ASSUME NEW bufs \in Array, NEW max \in Nat, NEW c, c = Concat(bufs)
  PROVE  Covers(TakeBytesLen(bufs, max), c, 0, Advance(c, max))
<1> DEFINE n == Len(bufs)
           e == Ends(bufs)
           t == Took(bufs, max)
           m(i) == IF max < e[i] THEN max ELSE e[i]
           Good(i) == Covers(t[i].yields, c, 0, m(i)) /\ t[i].left = max - m(i)
           T == {i \in 0 .. n : Good(i)}
<1>1. /\ n \in Nat /\ c \in Seq(Byte) /\ Len(c) = e[n] /\ e[0] = 0 /\ Len(c) \in Nat
  BY SliceType, OwnPieces, EndsAre, LenProperties DEF TotalLen
<1>2. /\ t \in [0 .. n -> TakeType] /\ t[0] = [left |-> max, yields |-> <<>>]
      /\ \A k \in 1 .. n : t[k] = TakeNext(t[k - 1], bufs[k])
  BY TookAre
<1> HIDE DEF t, e
<1>3. 0 \in T
  <2>1. m(0) = 0 /\ max - 0 = max /\ 0 \in 0 .. n /\ 0 \in 0 .. Len(c)
    BY <1>1
  <2>2. Covers(<<>>, c, 0, 0)
    BY <1>1, <2>1, CoversNone
  <2>3. t[0].yields = <<>> /\ t[0].left = max
    BY <1>2
  <2> HIDE DEF m
  <2> QED
    BY <2>1, <2>2, <2>3
<1>4. ASSUME NEW i \in 0 .. n - 1, i \in T PROVE i + 1 \in T
  <2> DEFINE b == bufs[i + 1]
             acc == t[i]
  <2>1. /\ i + 1 \in 1 .. n /\ i + 1 \in 0 .. n /\ i \in 0 .. n /\ (i + 1) - 1 = i
        /\ e[i] \in 0 .. Len(c) /\ e[i + 1] \in e[i] .. Len(c)
        /\ Len(b) = e[i + 1] - e[i] /\ b = Part(c, e[i], e[i + 1])
        /\ \A x \in 0 .. Len(b) : SubSeq(b, 1, x) = Part(c, e[i], e[i] + x)
    BY SliceAt DEF e
  <2>2. t[i + 1] = TakeNext(acc, b)
    BY <1>2, <2>1
  <2>3. Covers(acc.yields, c, 0, m(i)) /\ acc.left = max - m(i)
    BY <1>4
  <2> HIDE DEF b, acc
  <2> SUFFICES Good(i + 1)
    BY <2>1
  <2>4. CASE acc.left = 0
    <3>1. m(i + 1) = m(i)
      BY <1>1, <2>1, <2>3, <2>4
    <3>2. t[i + 1] = acc
      BY <2>2, <2>4 DEF TakeNext
    <3> HIDE DEF m
    <3> QED
      BY <2>3, <3>1, <3>2
  <2>5. CASE acc.left # 0 /\ acc.left >= Len(b)
    <3>1. m(i) = e[i] /\ m(i + 1) = e[i + 1] /\ acc.left - Len(b) = max - m(i + 1)
      BY <1>1, <2>1, <2>3, <2>5
    <3>2. t[i + 1] = [left |-> acc.left - Len(b), yields |-> Append(acc.yields, b)]
      BY <2>2, <2>5 DEF TakeNext
    <3> HIDE DEF m
    <3>3. Covers(Append(acc.yields, Part(c, e[i], e[i + 1])), c, 0, e[i + 1])
      BY <1>1, <2>1, <2>3, <3>1, CoversAppend
    <3>4. /\ t[i + 1].left = max - m(i + 1) /\ t[i + 1].yields = Append(acc.yields, Part(c, e[i], e[i + 1]))
          /\ m(i + 1) = e[i + 1]
      BY <2>1, <3>1, <3>2
    <3> QED
      BY <3>3, <3>4
  <2>6. CASE acc.left # 0 /\ ~ (acc.left >= Len(b))
    <3>1. m(i) = e[i] /\ e[i] \in Nat /\ e[i + 1] \in Nat
      BY <1>1, <2>1, <2>3, <2>6
    <3>2. /\ acc.left \in 0 .. Len(b) /\ max \in e[i] .. Len(c) /\ e[i] + acc.left = max
          /\ max < e[i + 1]
      <4> HIDE DEF m
      <4>1. acc.left = max - e[i] /\ acc.left < e[i + 1] - e[i] /\ e[i] <= max
        <5>1. acc.left = max - e[i] /\ ~ (acc.left >= e[i + 1] - e[i])
          BY <2>1, <2>3, <2>6, <3>1
        <5>2. e[i] <= max
          BY <3>1 DEF m
        <5> QED
          BY <3>1, <5>1, <5>2
      <4> QED
        BY <1>1, <2>1, <3>1, <4>1
    <3>3. m(i + 1) = max /\ 0 = max - m(i + 1)
      BY <3>1, <3>2
    <3>4. t[i + 1] = [left |-> 0, yields |-> Append(acc.yields, SubSeq(b, 1, acc.left))]
      BY <2>2, <2>6 DEF TakeNext
    <3> HIDE DEF m
    <3>5. SubSeq(b, 1, acc.left) = Part(c, e[i], max)
      BY <2>1, <3>2
    <3>6. Covers(Append(acc.yields, Part(c, e[i], max)), c, 0, max)
      BY <1>1, <2>3, <3>1, <3>2, CoversAppend
    <3>7. t[i + 1].left = 0 /\ t[i + 1].yields = Append(acc.yields, Part(c, e[i], max))
      <4>1. t[i + 1] = [left |-> 0, yields |-> Append(acc.yields, Part(c, e[i], max))]
        BY <3>4, <3>5, Zenon
      <4> DEFINE a == Append(acc.yields, Part(c, e[i], max))
      <4> HIDE DEF a
      <4>2. t[i + 1] = [left |-> 0, yields |-> a]
        BY <4>1 DEF a
      <4>3. t[i + 1].left = 0 /\ t[i + 1].yields = a
        BY <4>2
      <4> QED
        BY <4>3 DEF a
    <3>8. t[i + 1].left = max - m(i + 1)
      BY <3>3, <3>7
    <3>9. Covers(t[i + 1].yields, c, 0, m(i + 1))
      BY <3>6, <3>3, <3>7
    <3> QED
      BY <3>8, <3>9
  <2> QED
    BY <2>4, <2>5, <2>6
<1>5. 0 .. n \subseteq T
  <2> HIDE DEF n, T
  <2> QED
    BY <1>1, <1>3, <1>4, UpTo
<1>6. Good(n)
  <2>1. n \in 0 .. n
    BY <1>1
  <2> HIDE DEF Good
  <2> QED
    BY <1>5, <2>1
<1>7. m(n) = Advance(c, max)
  BY <1>1 DEF Advance
<1>8. TakeBytesLen(bufs, max) = t[n].yields
  BY DEF TakeBytesLen, t
<1> HIDE DEF m
<1> QED
  BY <1>6, <1>7, <1>8

(* SkipBytesLen yields the others.                                         *)
LEMMA SkipsPrefix ==
  ASSUME NEW bufs \in Array, NEW max \in Nat, NEW c, c = Concat(bufs)
  PROVE  Covers(SkipBytesLen(bufs, max), c, Advance(c, max), Len(c))
<1> DEFINE n == Len(bufs)
           e == Ends(bufs)
           t == Skipped(bufs, max)
           Good(i) == IF t[i].passed
                      THEN max <= e[i] /\ Covers(t[i].yields, c, max, e[i])
                      ELSE e[i] <= max /\ t[i].left = max - e[i] /\ t[i].yields = <<>>
           T == {i \in 0 .. n : Good(i)}
<1>1. /\ n \in Nat /\ c \in Seq(Byte) /\ Len(c) = e[n] /\ e[0] = 0 /\ Len(c) \in Nat
  BY SliceType, OwnPieces, EndsAre, LenProperties DEF TotalLen
<1>2. /\ t \in [0 .. n -> SkipType]
      /\ t[0] = [left |-> max, passed |-> max = 0, yields |-> <<>>]
      /\ \A k \in 1 .. n : t[k] = SkipNext(t[k - 1], bufs[k])
  BY SkippedAre
<1> HIDE DEF t, e
<1>3. 0 \in T
  <2>1. max - 0 = max /\ 0 \in 0 .. n /\ 0 \in 0 .. Len(c) /\ 0 <= max /\ (max = 0 => max <= 0)
    BY <1>1
  <2>2. Covers(<<>>, c, 0, 0)
    BY <1>1, <2>1, CoversNone
  <2>3. t[0].yields = <<>> /\ t[0].left = max /\ t[0].passed = (max = 0)
    BY <1>2
  <2>4. CASE max = 0
    BY <1>1, <2>1, <2>2, <2>3, <2>4
  <2>5. CASE max # 0
    BY <1>1, <2>1, <2>3, <2>5
  <2> QED
    BY <2>4, <2>5
<1>4. ASSUME NEW i \in 0 .. n - 1, i \in T PROVE i + 1 \in T
  <2> DEFINE b == bufs[i + 1]
             acc == t[i]
             next == t[i + 1]
  <2>1. /\ i + 1 \in 1 .. n /\ i + 1 \in 0 .. n /\ i \in 0 .. n /\ (i + 1) - 1 = i
        /\ e[i] \in 0 .. Len(c) /\ e[i + 1] \in e[i] .. Len(c)
        /\ Len(b) = e[i + 1] - e[i] /\ b = Part(c, e[i], e[i + 1])
        /\ \A x \in 0 .. Len(b) : From(b, x) = Part(c, e[i] + x, e[i + 1])
    BY SliceAt DEF e
  <2>2. next = SkipNext(acc, b) /\ acc \in SkipType
    BY <1>2, <2>1
  <2>3. /\ acc.passed => max <= e[i] /\ Covers(acc.yields, c, max, e[i])
        /\ ~ acc.passed => e[i] <= max /\ acc.left = max - e[i] /\ acc.yields = <<>>
    BY <1>4
  <2> HIDE DEF b, acc
  <2> SUFFICES Good(i + 1)
    BY <2>1
  <2>4. CASE acc.passed
    <3>1. next = [acc EXCEPT !.yields = Append(acc.yields, b)]
      BY <2>2, <2>4 DEF SkipNext
    <3> HIDE DEF next
    <3>2. next.passed = acc.passed /\ next.yields = Append(acc.yields, b)
      BY <2>2, <3>1 DEF SkipType
    <3>3. Covers(Append(acc.yields, Part(c, e[i], e[i + 1])), c, max, e[i + 1])
      BY <1>1, <2>1, <2>3, <2>4, CoversAppend
    <3>4. max <= e[i + 1]
      BY <1>1, <2>1, <2>3, <2>4
    <3> QED
      BY <2>1, <2>4, <3>2, <3>3, <3>4 DEF next
  <2>5. CASE ~ acc.passed /\ acc.left >= Len(b)
    <3>1. next = [acc EXCEPT !.left = acc.left - Len(b)]
      BY <2>2, <2>5 DEF SkipNext
    <3> HIDE DEF next
    <3>2. /\ next.passed = acc.passed /\ next.yields = acc.yields
          /\ next.left = acc.left - Len(b)
      BY <2>2, <3>1 DEF SkipType
    <3>3. e[i + 1] <= max /\ acc.left - Len(b) = max - e[i + 1]
      BY <1>1, <2>1, <2>3, <2>5
    <3> QED
      BY <2>3, <2>5, <3>2, <3>3 DEF next
  <2>6. CASE ~ acc.passed /\ ~ (acc.left >= Len(b))
    <3>1. next = [left |-> 0, passed |-> TRUE, yields |-> <<From(b, acc.left)>>]
      BY <2>2, <2>6 DEF SkipNext
    <3> HIDE DEF next
    <3>2. next.passed = TRUE /\ next.yields = <<From(b, acc.left)>>
      BY <3>1
    <3>3. /\ acc.left \in 0 .. Len(b) /\ max \in 0 .. e[i + 1] /\ max <= e[i + 1]
          /\ e[i] + acc.left = max /\ e[i + 1] \in 0 .. Len(c)
      BY <1>1, <2>1, <2>3, <2>6
    <3>4. From(b, acc.left) = Part(c, max, e[i + 1])
      BY <2>1, <3>3
    <3>5. Covers(<<>>, c, e[i + 1], e[i + 1])
      BY <1>1, <3>3, CoversNone
    <3>6. Covers(<<Part(c, max, e[i + 1])>> \o <<>>, c, max, e[i + 1])
      BY <1>1, <3>3, <3>5, CoversPrepend
    <3>7. <<Part(c, max, e[i + 1])>> \o <<>> = <<Part(c, max, e[i + 1])>>
      <4> DEFINE r == Part(c, max, e[i + 1])
      <4>1. r \in Seq(Byte)
        <5>1. max \in 0 .. Len(c) /\ e[i + 1] \in max .. Len(c)
          BY <1>1, <3>3
        <5> QED
          BY <1>1, <5>1, PartFacts
      <4> HIDE DEF r
      <4>2. <<r>> \in Seq(Seq(Byte))
        BY <4>1
      <4>3. <<r>> \o <<>> = <<r>>
        BY <4>2, ConcatEmptySeq
      <4> QED
        BY <4>3 DEF r
    <3>8. next.passed /\ Covers(next.yields, c, max, e[i + 1])
      BY <3>2, <3>4, <3>6, <3>7
    <3> QED
      BY <3>3, <3>8 DEF next
  <2> QED
    BY <2>4, <2>5, <2>6
<1>5. 0 .. n \subseteq T
  <2> HIDE DEF n, T
  <2> QED
    BY <1>1, <1>3, <1>4, UpTo
<1>6. Good(n) /\ t[n] \in SkipType
  <2>1. n \in 0 .. n
    BY <1>1
  <2> HIDE DEF Good
  <2> QED
    BY <1>2, <1>5, <2>1
<1>7. SkipBytesLen(bufs, max) = t[n].yields
  BY DEF SkipBytesLen, t
<1>8. CASE t[n].passed
  <2>1. Advance(c, max) = max
    BY <1>1, <1>6, <1>8 DEF Advance
  <2> QED
    BY <1>1, <1>6, <1>7, <1>8, <2>1
<1>9. CASE ~ t[n].passed
  <2>1. Advance(c, max) = Len(c) /\ t[n].yields = <<>>
    BY <1>1, <1>6, <1>9 DEF Advance
  <2>2. Covers(<<>>, c, Len(c), Len(c))
    <3>1. Len(c) \in 0 .. Len(c)
      BY <1>1
    <3> QED
      BY <1>1, <3>1, CoversNone
  <2> QED
    BY <1>7, <2>1, <2>2
<1> QED
  BY <1>8, <1>9

-----------------------------------------------------------------------------
(* The buffer.                                                             *)
BufType == {buf \in [mem : Seq(Byte), cap : Nat, pos : Nat] : buf.cap <= Len(buf.mem)}
FillType == [buf : BufType, n : Nat]

(* The bytes up to the write pointer.                                      *)
Written(buf) == Part(buf.mem, 0, buf.cap)

(* fill copies the first bytes of the slice behind those in the buffer.    *)
LEMMA FillIs ==
  ASSUME NEW buf \in BufType, NEW slice \in Seq(Byte),
         NEW k, k = Advance(slice, Remaining(buf)),
         NEW r, r = Fill(buf, slice)
  PROVE  /\ k \in 0 .. Len(slice) /\ k <= Remaining(buf) /\ Remaining(buf) \in Nat
         /\ r.n = k
         /\ r.buf \in BufType /\ Len(r.buf.mem) = Len(buf.mem)
         /\ r.buf.cap = buf.cap + k /\ r.buf.pos = buf.pos
         /\ Written(r.buf) = Written(buf) \o SubSeq(slice, 1, k)
<1>1. /\ buf.mem \in Seq(Byte) /\ buf.cap \in Nat /\ buf.pos \in Nat /\ buf.cap <= Len(buf.mem)
      /\ Len(buf.mem) \in Nat /\ Len(slice) \in Nat
      /\ buf \in [mem : Seq(Byte), cap : Nat, pos : Nat]
  BY LenProperties DEF BufType
<1>2. Remaining(buf) \in Nat /\ Remaining(buf) = Len(buf.mem) - buf.cap
  BY <1>1 DEF Remaining
<1>3. k \in 0 .. Len(slice) /\ k <= Remaining(buf)
  BY <1>1, <1>2 DEF Advance
<1> DEFINE m == IF Len(slice) < Remaining(buf) THEN Len(slice) ELSE Remaining(buf)
           b == SubSeq(slice, 1, k)
           x == SubSeq(buf.mem, 1, buf.cap)
           z == SubSeq(buf.mem, buf.cap + Len(b) + 1, Len(buf.mem))
           mem == x \o b \o z
<1>4. m = k
  BY <1>1, <1>2 DEF Advance
<1>5. b \in Seq(Byte) /\ Len(b) = k
  BY <1>3, PrefixOf
<1>6. x = Part(buf.mem, 0, buf.cap) /\ x \in Seq(Byte) /\ Len(x) = buf.cap
  <2>1. buf.cap \in 0 .. Len(buf.mem)
    BY <1>1
  <2> QED
    BY <1>1, <2>1, PrefixOf
<1> HIDE DEF b
<1>7. z \in Seq(Byte) /\ Len(z) = Len(buf.mem) - (buf.cap + k)
  <2>1. buf.cap + k \in 0 .. Len(buf.mem)
    BY <1>1, <1>2, <1>3
  <2>2. z = From(buf.mem, buf.cap + k)
    BY <1>5 DEF From
  <2> HIDE DEF z
  <2> QED
    BY <1>1, <2>1, <2>2, PrefixOf
<1> HIDE DEF x, z
<1>8. /\ x \o b \in Seq(Byte) /\ Len(x \o b) = buf.cap + k
      /\ mem \in Seq(Byte) /\ Len(mem) = (buf.cap + k) + (Len(buf.mem) - (buf.cap + k))
  <2>1. x \o b \in Seq(Byte) /\ Len(x \o b) = buf.cap + k
    <3>1. x \o b \in Seq(Byte) /\ Len(x \o b) = Len(x) + Len(b)
      BY <1>5, <1>6, ConcatProperties
    <3> QED
      BY <1>5, <1>6, <3>1
  <2> DEFINE y == x \o b
  <2> HIDE DEF y
  <2>2. y \o z \in Seq(Byte) /\ Len(y \o z) = Len(y) + Len(z)
    BY <1>7, <2>1, ConcatProperties DEF y
  <2>3. mem = y \o z
    BY DEF y
  <2> HIDE DEF mem
  <2>4. mem \in Seq(Byte) /\ Len(mem) = Len(y) + Len(z)
    BY <2>2, <2>3
  <2>5. Len(y) = buf.cap + k
    BY <2>1 DEF y
  <2>6. Len(mem) = (buf.cap + k) + (Len(buf.mem) - (buf.cap + k))
    BY <1>7, <2>4, <2>5
  <2> QED
    BY <2>1, <2>4, <2>6
<1>9. Part(mem, 0, buf.cap + k) = x \o b
  <2>1. /\ 0 \in 0 .. Len(x \o b) /\ Len(x \o b) \in 0 .. Len(x \o b)
    <3> DEFINE y == x \o b
    <3> HIDE DEF y
    <3>1. y \in Seq(Byte)
      BY <1>8 DEF y
    <3>2. Len(y) \in Nat
      BY <3>1, LenProperties
    <3>3. 0 \in 0 .. Len(y) /\ Len(y) \in 0 .. Len(y)
      BY <3>2
    <3> QED
      BY <3>3 DEF y
  <2>2. Part((x \o b) \o z, 0, Len(x \o b)) = Part(x \o b, 0, Len(x \o b))
    BY <1>7, <1>8, <2>1, PartsOfJoin
  <2>3. Part(x \o b, 0, Len(x \o b)) = x \o b
    BY <1>8, PartWhole
  <2> QED
    BY <1>8, <2>2, <2>3
<1>10. Len(mem) = Len(buf.mem)
  <2> HIDE DEF mem
  <2> QED
    BY <1>1, <1>2, <1>3, <1>8
<1>11. Fill(buf, slice) = [buf |-> CommitWritten(CopyIn(buf, SubSeq(slice, 1, m)), m), n |-> m]
  BY DEF Fill
<1>12. r = [buf |-> CommitWritten(CopyIn(buf, b), k), n |-> k]
  BY <1>4, <1>11 DEF b
<1>13. CopyIn(buf, b) = [buf EXCEPT !.mem = mem]
  BY DEF CopyIn, x, z
<1> HIDE DEF mem
<1>14. CopyIn(buf, b) = [mem |-> mem, cap |-> buf.cap, pos |-> buf.pos]
  BY <1>1, <1>13
<1>15. CommitWritten(CopyIn(buf, b), k) = [mem |-> mem, cap |-> buf.cap + k, pos |-> buf.pos]
  BY <1>14 DEF CommitWritten
<1>16. r.n = k /\ r.buf = [mem |-> mem, cap |-> buf.cap + k, pos |-> buf.pos]
  BY <1>12, <1>15
<1>17. buf.cap + k \in Nat /\ buf.cap + k <= Len(mem)
  BY <1>1, <1>2, <1>3, <1>10
<1>18. mem \in Seq(Byte)
  BY <1>8
<1>19. r.buf \in BufType /\ r.buf.mem = mem /\ r.buf.cap = buf.cap + k /\ r.buf.pos = buf.pos
  BY <1>1, <1>16, <1>17, <1>18 DEF BufType
<1> QED
  BY <1>2, <1>3, <1>6, <1>9, <1>10, <1>16, <1>19 DEF Written, b

LEMMA FillOf ==
  ASSUME NEW buf \in BufType, NEW slice \in Seq(Byte)
  PROVE  /\ Advance(slice, Remaining(buf)) \in 0 .. Len(slice)
         /\ Fill(buf, slice).n = Advance(slice, Remaining(buf))
         /\ Fill(buf, slice).buf \in BufType
         /\ Len(Fill(buf, slice).buf.mem) = Len(buf.mem)
         /\ Fill(buf, slice).buf.cap = buf.cap + Advance(slice, Remaining(buf))
         /\ Fill(buf, slice).buf.pos = buf.pos
         /\ Written(Fill(buf, slice).buf)
              = Written(buf) \o SubSeq(slice, 1, Advance(slice, Remaining(buf)))
<1> DEFINE k == Advance(slice, Remaining(buf))
           r == Fill(buf, slice)
<1>1. k = Advance(slice, Remaining(buf)) /\ r = Fill(buf, slice)
  OBVIOUS
<1> HIDE DEF k, r
<1>2. /\ k \in 0 .. Len(slice) /\ r.n = k
      /\ r.buf \in BufType /\ Len(r.buf.mem) = Len(buf.mem)
      /\ r.buf.cap = buf.cap + k /\ r.buf.pos = buf.pos
      /\ Written(r.buf) = Written(buf) \o SubSeq(slice, 1, k)
  <2>1. k \in 0 .. Len(slice) /\ r.n = k
    BY <1>1, FillIs
  <2>2. r.buf \in BufType
    BY <1>1, FillIs
  <2>3. Len(r.buf.mem) = Len(buf.mem)
    BY <1>1, FillIs
  <2>4. r.buf.cap = buf.cap + k /\ r.buf.pos = buf.pos
    BY <1>1, FillIs
  <2>5. Written(r.buf) = Written(buf) \o SubSeq(slice, 1, k)
    BY <1>1, FillIs
  <2> QED
    BY <2>1, <2>2, <2>3, <2>4, <2>5
<1> QED
  BY <1>2 DEF k, r

LEMMA FillNextType ==
  ASSUME NEW acc \in FillType, NEW b \in Seq(Byte)
  PROVE  FillNext(acc, b) \in FillType
<1>1. acc.buf \in BufType /\ acc.n \in Nat
  BY DEF FillType
<1>2. Fill(acc.buf, b).n \in Nat /\ Fill(acc.buf, b).buf \in BufType
  <2>1. Len(b) \in Nat
    BY LenProperties
  <2> QED
    BY <1>1, <2>1, FillIs
<1> DEFINE f == Fill(acc.buf, b)
<1>3. FillNext(acc, b) = [buf |-> f.buf, n |-> acc.n + f.n]
  BY DEF FillNext
<1> HIDE DEF f
<1>4. f.n \in Nat /\ f.buf \in BufType
  BY <1>2 DEF f
<1> QED
  BY <1>1, <1>3, <1>4 DEF FillType

LEMMA FillingsAre ==
  ASSUME NEW bufs \in Array, NEW buf \in BufType
  PROVE  /\ Fillings(buf, bufs) \in [0 .. Len(bufs) -> FillType]
         /\ Fillings(buf, bufs)[0] = [buf |-> buf, n |-> 0]
         /\ \A k \in 1 .. Len(bufs) : Fillings(buf, bufs)[k] = FillNext(Fillings(buf, bufs)[k - 1], bufs[k])
<1> DEFINE n == Len(bufs)
           x0 == [buf |-> buf, n |-> 0]
           F == [k \in 1 .. n |-> [x \in FillType |-> FillNext(x, bufs[k])]]
           Rhs(g) == [i \in 0 .. n |-> IF i = 0 THEN x0 ELSE FillNext(g[i - 1], bufs[i])]
           Is(g) == g = Rhs(g)
           C == Fillings(buf, bufs)
<1>1. n \in Nat /\ \A k \in 1 .. n : bufs[k] \in Seq(Byte)
  BY SliceType
<1>2. x0 \in FillType /\ IsStep(F, n, FillType)
  <2>1. x0 \in FillType
    BY DEF FillType
  <2>2. \A k \in 1 .. n : \A x \in FillType : FillNext(x, bufs[k]) \in FillType
    BY <1>1, FillNextType
  <2>3. F \in [1 .. n -> [FillType -> FillType]]
    <3> HIDE DEF n
    <3> QED
      BY <2>2
  <2> HIDE DEF F, x0
  <2> QED
    BY <2>1, <2>3 DEF IsStep
<1>3. \A k \in 1 .. n : \A x \in FillType : F[k][x] = FillNext(x, bufs[k])
  OBVIOUS
<1>4. C = CHOOSE g : Is(g)
  BY DEF Fillings
<1> HIDE DEF F, C, n, x0
<1>5. PICK g : Follows(g, n, FillType, x0, F)
  BY <1>1, <1>2, RecursionExists
<1>6. Is(g)
  <2>1. g = [i \in 0 .. n |-> g[i]]
    BY <1>5 DEF Follows
  <2>2. ASSUME NEW i \in 0 .. n
        PROVE  g[i] = IF i = 0 THEN x0 ELSE FillNext(g[i - 1], bufs[i])
    <3>1. CASE i = 0
      BY <1>5, <3>1 DEF Follows
    <3>2. CASE i # 0
      <4>1. i \in 1 .. n /\ i - 1 \in 0 .. n
        BY <1>1, <3>2
      <4>2. g[i] = F[i][g[i - 1]] /\ g[i - 1] \in FillType
        BY <1>5, <4>1 DEF Follows
      <4> QED
        BY <1>3, <3>2, <4>1, <4>2
    <3> QED
      BY <3>1, <3>2
  <2>3. \A i \in 0 .. n : Rhs(g)[i] = IF i = 0 THEN x0 ELSE FillNext(g[i - 1], bufs[i])
    OBVIOUS
  <2>4. Rhs(g) = [i \in 0 .. n |-> Rhs(g)[i]]
    OBVIOUS
  <2> HIDE DEF Rhs
  <2>5. \A i \in 0 .. n : g[i] = Rhs(g)[i]
    BY <2>2, <2>3
  <2> QED
    BY <2>1, <2>4, <2>5
<1>7. C = Rhs(C)
  <2>1. Is(C)
    <3> HIDE DEF Is
    <3> QED
      BY <1>4, <1>6
  <2> QED
    BY <2>1
<1>8. C = [i \in 0 .. n |-> C[i]]
  BY <1>7
<1>9. C[0] = x0 /\ \A k \in 1 .. n : C[k] = FillNext(C[k - 1], bufs[k])
  <2>1. Rhs(C)[0] = x0
    BY <1>1
  <2>2. \A k \in 1 .. n : Rhs(C)[k] = FillNext(C[k - 1], bufs[k])
    BY <1>1
  <2> HIDE DEF Rhs
  <2> QED
    BY <1>7, <2>1, <2>2, Zenon
<1> DEFINE T == {m \in 0 .. n : C[m] \in FillType}
<1>10. 0 \in T
  BY <1>1, <1>2, <1>9
<1>11. ASSUME NEW m \in 0 .. n - 1, m \in T PROVE m + 1 \in T
  <2>1. m + 1 \in 1 .. n /\ m + 1 \in 0 .. n /\ (m + 1) - 1 = m
    BY <1>1
  <2>2. C[m + 1] = FillNext(C[m], bufs[m + 1])
    BY <1>9, <2>1
  <2>3. FillNext(C[m], bufs[m + 1]) \in FillType
    BY <1>1, <1>11, <2>1, FillNextType
  <2> QED
    BY <2>1, <2>2, <2>3
<1>12. 0 .. n \subseteq T
  <2> HIDE DEF T
  <2> QED
    BY <1>1, <1>10, <1>11, UpTo
<1>13. C \in [0 .. n -> FillType]
  BY <1>8, <1>12
<1> QED
  BY <1>9, <1>13 DEF C, n, x0

(* What is written into a buffer goes behind the bytes it has.             *)
Appended(new, old, b) == Written(new) = Written(old) \o b

(* fill_from_slices copies the first bytes of all the slices, whatever     *)
(* slices they are in, until the buffer is full.                           *)
LEMMA FillsFromSlices ==
  ASSUME NEW buf \in BufType, NEW bufs \in Array, NEW c, c = Concat(bufs),
         NEW k, k = Advance(c, Remaining(buf)),
         NEW r, r = FillFromSlices(buf, bufs)
  PROVE  /\ c \in Seq(Byte) /\ k \in 0 .. Len(c)
         /\ r.n = k
         /\ r.buf \in BufType /\ r.buf.cap = buf.cap + k /\ r.buf.pos = buf.pos
         /\ Appended(r.buf, buf, Part(c, 0, k))
<1> DEFINE n == Len(bufs)
           e == Ends(bufs)
           t == Fillings(buf, bufs)
           space == Remaining(buf)
           m(i) == IF space < e[i] THEN space ELSE e[i]
           Good(i) == /\ t[i].n = m(i)
                      /\ Len(t[i].buf.mem) = Len(buf.mem)
                      /\ t[i].buf.cap = buf.cap + m(i) /\ t[i].buf.pos = buf.pos
                      /\ Written(t[i].buf) = Written(buf) \o Part(c, 0, m(i))
           T == {i \in 0 .. n : Good(i)}
<1>1. /\ n \in Nat /\ c \in Seq(Byte) /\ Len(c) = e[n] /\ e[0] = 0 /\ Len(c) \in Nat
  BY SliceType, OwnPieces, EndsAre, LenProperties DEF TotalLen
<1>2. /\ buf.mem \in Seq(Byte) /\ buf.cap \in Nat /\ buf.cap <= Len(buf.mem)
      /\ Len(buf.mem) \in Nat /\ space = Len(buf.mem) - buf.cap /\ space \in Nat
  BY LenProperties DEF BufType, Remaining
<1>3. /\ t \in [0 .. n -> FillType] /\ t[0] = [buf |-> buf, n |-> 0]
      /\ \A i \in 1 .. n : t[i] = FillNext(t[i - 1], bufs[i])
  BY FillingsAre
<1>4. Written(buf) \in Seq(Byte)
  <2>1. 0 \in 0 .. Len(buf.mem) /\ buf.cap \in 0 .. Len(buf.mem)
    BY <1>2
  <2> QED
    BY <1>2, <2>1, PartFacts DEF Written
<1> HIDE DEF t, e, space
<1>5. 0 \in T
  <2>1. m(0) = 0 /\ 0 \in 0 .. n
    BY <1>1, <1>2
  <2>2. Part(c, 0, 0) = <<>> /\ Written(buf) \o <<>> = Written(buf)
    BY <1>4, PartEmpty, ConcatEmptySeq
  <2>3. t[0].n = 0 /\ t[0].buf = buf
    BY <1>3
  <2>4. buf.cap + 0 = buf.cap
    BY <1>2
  <2> HIDE DEF m
  <2> QED
    BY <2>1, <2>2, <2>3, <2>4
<1>6. ASSUME NEW i \in 0 .. n - 1, i \in T PROVE i + 1 \in T
  <2> DEFINE b == bufs[i + 1]
             acc == t[i]
             f == Fill(acc.buf, b)
             q == Advance(b, Remaining(acc.buf))
             next == t[i + 1]
             w == Written(buf)
  <2>1. /\ i + 1 \in 1 .. n /\ i + 1 \in 0 .. n /\ i \in 0 .. n /\ (i + 1) - 1 = i
        /\ e[i] \in 0 .. Len(c) /\ e[i + 1] \in e[i] .. Len(c)
        /\ b \in Seq(Byte) /\ Len(b) = e[i + 1] - e[i]
        /\ \A x \in 0 .. Len(b) : SubSeq(b, 1, x) = Part(c, e[i], e[i] + x)
    BY SliceAt DEF e
  <2>2. next = FillNext(acc, b) /\ acc \in FillType
    BY <1>3, <2>1
  <2>3. /\ acc.n = m(i) /\ Len(acc.buf.mem) = Len(buf.mem)
        /\ acc.buf.cap = buf.cap + m(i) /\ acc.buf.pos = buf.pos
        /\ Written(acc.buf) = w \o Part(c, 0, m(i))
    BY <1>6
  <2> HIDE DEF b, acc, w
  <2>4. acc.buf \in BufType /\ acc.n \in Nat
    BY <2>2 DEF FillType
  <2>5. /\ q \in 0 .. Len(b) /\ f.n = q /\ f.buf \in BufType
        /\ Len(f.buf.mem) = Len(acc.buf.mem)
        /\ f.buf.cap = acc.buf.cap + q /\ f.buf.pos = acc.buf.pos
        /\ Written(f.buf) = Written(acc.buf) \o SubSeq(b, 1, q)
    <3>1. b \in Seq(Byte)
      BY <2>1
    <3> QED
      BY <2>4, <3>1, FillOf, Zenon
  <2>6. Remaining(acc.buf) = space - m(i)
    <3>1. m(i) \in Nat
      BY <1>1, <1>2, <2>1
    <3> HIDE DEF m
    <3> QED
      BY <1>2, <2>3, <3>1 DEF Remaining
  <2>7. next = [buf |-> f.buf, n |-> acc.n + f.n]
    BY <2>2 DEF FillNext
  <2> HIDE DEF f, next
  <2>8. next.buf = f.buf /\ next.n = acc.n + q
    BY <2>5, <2>7
  <2>9. /\ m(i) \in 0 .. Len(c) /\ m(i + 1) = m(i) + q
        /\ m(i) = e[i] \/ q = 0
    <3>1. q = IF space - m(i) < e[i + 1] - e[i] THEN space - m(i) ELSE e[i + 1] - e[i]
      <4> HIDE DEF m
      <4> QED
        BY <2>1, <2>6 DEF Advance
    <3>2. e[i] \in Nat /\ e[i + 1] \in Nat /\ e[i] <= e[i + 1] /\ e[i] <= Len(c)
      BY <1>1, <2>1
    <3> HIDE DEF q
    <3>3. CASE space < e[i]
      <4>1. m(i) = space /\ m(i + 1) = space
        BY <1>2, <3>2, <3>3
      <4> HIDE DEF m
      <4>2. q = 0
        BY <1>2, <3>1, <3>2, <4>1
      <4>3. space \in 0 .. Len(c) /\ space = space + 0
        BY <1>1, <1>2, <3>2, <3>3
      <4> QED
        BY <4>1, <4>2, <4>3
    <3>4. CASE ~ (space < e[i])
      <4>1. m(i) = e[i]
        BY <3>4
      <4>2. m(i + 1) = IF space < e[i + 1] THEN space ELSE e[i + 1]
        OBVIOUS
      <4> HIDE DEF m
      <4> QED
        BY <1>1, <1>2, <3>1, <3>2, <3>4, <4>1, <4>2
    <3> QED
      BY <3>3, <3>4
  <2>10. Part(c, 0, m(i + 1)) = Part(c, 0, m(i)) \o SubSeq(b, 1, q)
    <3> HIDE DEF m, q
    <3>1. CASE m(i) = e[i]
      <4>1. SubSeq(b, 1, q) = Part(c, m(i), m(i) + q)
        BY <2>1, <2>5, <3>1
      <4>2. 0 \in 0 .. Len(c) /\ m(i) \in 0 .. Len(c) /\ m(i) + q \in m(i) .. Len(c)
        <5>1. /\ e[i] \in Nat /\ e[i + 1] \in Nat /\ e[i] <= e[i + 1] /\ e[i + 1] <= Len(c)
              /\ q \in Nat /\ q <= e[i + 1] - e[i]
          <6>1. q \in 0 .. Len(b)
            BY <2>5
          <6>2. Len(b) = e[i + 1] - e[i] /\ e[i] \in 0 .. Len(c) /\ e[i + 1] \in e[i] .. Len(c)
            BY <2>1
          <6> QED
            BY <1>1, <6>1, <6>2
        <5>2. m(i) + q = e[i] + q
          BY <3>1
        <5> QED
          BY <1>1, <3>1, <5>1, <5>2
      <4> QED
        BY <1>1, <2>9, <4>1, <4>2, PartsJoin
    <3>2. CASE q = 0
      <4>1. SubSeq(b, 1, 0) = <<>>
        BY SubSeqEmpty
      <4>2. 0 \in 0 .. Len(c) /\ m(i) + 0 = m(i)
        BY <1>1, <2>9
      <4>3. Part(c, 0, m(i)) \in Seq(Byte)
        BY <1>1, <2>9, <4>2, PartFacts
      <4> QED
        BY <2>9, <3>2, <4>1, <4>2, <4>3, ConcatEmptySeq
    <3> QED
      BY <2>9, <3>1, <3>2
  <2>11. Written(next.buf) = w \o Part(c, 0, m(i + 1))
    <3> HIDE DEF m, q
    <3> DEFINE x == Part(c, 0, m(i))
               y == SubSeq(b, 1, q)
    <3>1. x \in Seq(Byte) /\ y \in Seq(Byte) /\ w \in Seq(Byte)
      <4>1. 0 \in 0 .. Len(c) /\ m(i) \in 0 .. Len(c)
        BY <1>1, <2>9
      <4> QED
        BY <1>1, <1>4, <2>1, <2>5, <4>1, PartFacts, PrefixOf DEF w
    <3>2. Written(next.buf) = (w \o x) \o y
      BY <2>3, <2>5, <2>8
    <3>3. Part(c, 0, m(i + 1)) = x \o y
      BY <2>10
    <3> HIDE DEF x, y
    <3>4. (w \o x) \o y = w \o (x \o y)
      BY <3>1, ConcatAssociative, SMTT(20)
    <3> QED
      BY <3>2, <3>3, <3>4
  <2> HIDE DEF q
  <2>12. next.buf.cap = buf.cap + m(i + 1)
    <3> HIDE DEF m
    <3> QED
      BY <1>1, <1>2, <2>3, <2>5, <2>8, <2>9
  <2>13. next.n = m(i + 1) /\ Len(next.buf.mem) = Len(buf.mem) /\ next.buf.pos = buf.pos
    <3> HIDE DEF m
    <3> QED
      BY <2>3, <2>5, <2>8, <2>9
  <2>14. Good(i + 1)
    <3> HIDE DEF m
    <3> QED
      BY <2>11, <2>12, <2>13 DEF next, w
  <2> HIDE DEF Good
  <2> QED
    BY <2>1, <2>14
<1>7. 0 .. n \subseteq T
  <2> HIDE DEF n, T
  <2> QED
    BY <1>1, <1>5, <1>6, UpTo
<1>8. Good(n) /\ t[n] \in FillType
  <2>1. n \in 0 .. n
    BY <1>1
  <2> HIDE DEF Good
  <2> QED
    BY <1>3, <1>7, <2>1
<1>9. m(n) = k /\ k \in 0 .. Len(c)
  BY <1>1, <1>2 DEF Advance, space
<1>10. r = t[n]
  BY DEF FillFromSlices, t
<1>11. t[n].buf \in BufType
  BY <1>8 DEF FillType
<1> HIDE DEF m
<1> QED
  BY <1>1, <1>8, <1>9, <1>10, <1>11 DEF Appended
=============================================================================
