------------------------- MODULE ReaderPlaceProofs -------------------------
(***************************************************************************)
(* Theorems about where ArchiveReader stands in the archive, for a task    *)
(* that keeps no handle of an earlier entry (~ Stale): State is where the  *)
(* consumed bytes end, a handle reads the data of its own entry, what the  *)
(* calls answer has its reason in the source, and a careful task meets     *)
(* only the panics that are listed.                                        *)
(***************************************************************************)
EXTENDS ArchiveReaderProofs

-----------------------------------------------------------------------------
(* The bytes of the source.                                                *)
SourceInv ==
  \E end \in Ends : \E n \in 0 .. Len(EntriesBytes(hdrs) \o end) :
    bytes = SubSeq(EntriesBytes(hdrs) \o end, 1, n)

LEMMA StartFacts ==
  ASSUME hdrs \in Archives
  PROVE  /\ hdrs \in Seq(HeaderType) /\ Len(hdrs) \in Nat /\ Start(1) = 0
         /\ \A k \in 1 .. Len(hdrs) + 1 : Start(k) \in Nat
         /\ \A k \in 1 .. Len(hdrs) :
              /\ hdrs[k] \in HeaderType
              /\ Start(k + 1) = Start(k) + EntryLen(hdrs[k])
              /\ EntryLen(hdrs[k]) \in Nat /\ EntryLen(hdrs[k]) >= BlockSize
         /\ \A k \in 1 .. Len(hdrs) + 1 : Start(k) <= Start(Len(hdrs) + 1)
         /\ Start(Len(hdrs) + 1) = Len(EntriesBytes(hdrs))
<1>1. hdrs \in Seq(HeaderType) /\ Len(hdrs) \in Nat
  BY ArchivesAssumption, LenProperties
<1>2. Start(1) = 0
  <2>1. 1 - 1 = 0
    OBVIOUS
  <2> QED
    BY <1>1, <2>1, LaidLengths DEF Start
<1>3. ASSUME NEW k \in 1 .. Len(hdrs) + 1 PROVE Start(k) \in Nat
  <2>1. k - 1 \in 0 .. Len(hdrs)
    BY <1>1
  <2> QED
    BY <1>1, <2>1, LaidLengths DEF Start
<1>4. ASSUME NEW k \in 1 .. Len(hdrs)
      PROVE  /\ hdrs[k] \in HeaderType
             /\ Start(k + 1) = Start(k) + EntryLen(hdrs[k])
             /\ EntryLen(hdrs[k]) \in Nat /\ EntryLen(hdrs[k]) >= BlockSize
  <2>1. hdrs[k] \in HeaderType
    BY <1>1, ElementOfSeq
  <2>2. (k + 1) - 1 = k
    OBVIOUS
  <2>3. Start(k + 1) = Start(k) + EntryLen(hdrs[k])
    BY <1>1, <2>2, LaidLengths DEF Start
  <2>4. EntryLen(hdrs[k]) \in Nat /\ EntryLen(hdrs[k]) >= BlockSize
    BY <2>1, HeadersAssumption, EntryLenFacts
  <2> QED
    BY <2>1, <2>3, <2>4
<1>5. ASSUME NEW k \in 1 .. Len(hdrs) + 1 PROVE Start(k) <= Start(Len(hdrs) + 1)
  <2>1. /\ k - 1 \in 0 .. Len(hdrs) /\ Len(hdrs) \in k - 1 .. Len(hdrs)
        /\ (Len(hdrs) + 1) - 1 = Len(hdrs)
    BY <1>1
  <2> QED
    BY <1>1, <2>1, LaidKeeps DEF Start
<1>6. Start(Len(hdrs) + 1) = Len(EntriesBytes(hdrs))
  <2>1. (Len(hdrs) + 1) - 1 = Len(hdrs)
    BY <1>1
  <2> QED
    BY <2>1 DEF Start, EntriesBytes
<1> QED
  BY <1>1, <1>2, <1>3, <1>4, <1>5, <1>6

LEMMA SourceAt ==
  ASSUME hdrs \in Archives, SourceInv
  PROVE  /\ \A k \in 1 .. Len(hdrs) : \A i \in 1 .. EntryLen(hdrs[k]) :
              Start(k) + i <= Len(bytes) => bytes[Start(k) + i] = EntryByte(hdrs[k], i)
         /\ \A i \in 1 .. BlockSize :
              Start(Len(hdrs) + 1) + i <= Len(bytes) =>
                bytes[Start(Len(hdrs) + 1) + i] = ZeroByte
         /\ bytes \in Seq(Byte)
<1> DEFINE all == EntriesBytes(hdrs)
<1>1. PICK end \in Ends : \E n \in 0 .. Len(all \o end) :
        bytes = SubSeq(all \o end, 1, n)
  BY DEF SourceInv
<1>2. hdrs \in Seq(HeaderType) /\ Len(hdrs) \in Nat /\ Len(hdrs) \in 0 .. Len(hdrs)
  BY StartFacts
<1>3. all \in Seq(Byte) /\ Len(all) \in Nat
  BY <1>2, LaidType, LenProperties DEF EntriesBytes
<1>4. /\ end \in Seq(Byte) /\ Len(end) >= EofLen
      /\ AllZero(SubSeq(end, 1, BlockSize)) /\ Len(end) \in Nat
  BY EndsAssumption, LenProperties
<1>5. BlockSize \in Nat /\ BlockSize > 0 /\ BlockSize <= Len(end)
  BY <1>4, ReaderFacts DEF EofLen
<1>6. \A i \in 1 .. BlockSize : end[i] = ZeroByte
  <2> DEFINE z == SubSeq(end, 1, BlockSize)
  <2>1. Len(z) = BlockSize /\ \A i \in 1 .. BlockSize : z[i] = end[i]
    BY <1>4, <1>5, SubSeqProperties
  <2>2. \A i \in 1 .. Len(z) : z[i] = ZeroByte
    BY <1>4 DEF AllZero
  <2> HIDE DEF z
  <2> QED
    BY <2>1, <2>2
<1>7. Start(Len(hdrs) + 1) = Len(all)
  BY StartFacts
<1>8. \A k \in 1 .. Len(hdrs) : \A i \in 1 .. EntryLen(hdrs[k]) :
        /\ Start(k) + i \in 1 .. Len(all)
        /\ all[Start(k) + i] = EntryByte(hdrs[k], i)
  BY <1>2, EntryAt DEF Start
<1> HIDE DEF all
<1> DEFINE whole == all \o end
<1>9. /\ whole \in Seq(Byte) /\ Len(whole) \in Nat
      /\ Len(whole) = Len(all) + Len(end)
      /\ \A i \in 1 .. Len(all) + Len(end) :
           whole[i] = IF i <= Len(all) THEN all[i] ELSE end[i - Len(all)]
  BY <1>3, <1>4, ConcatProperties, LenProperties
<1> HIDE DEF whole
<1>10. PICK n \in 0 .. Len(whole) : bytes = SubSeq(whole, 1, n)
  BY <1>1 DEF whole
<1>11. /\ Len(bytes) = n /\ bytes \in Seq(Byte)
       /\ \A i \in 1 .. n : bytes[i] = whole[i]
  <2>1. \A i \in 1 .. n : whole[i] \in Byte
    BY <1>9, <1>10, ElementOfSeq
  <2> QED
    BY <1>9, <1>10, <2>1, SubSeqProperties
<1>12. \A i \in 1 .. Len(all) : i <= Len(bytes) => bytes[i] = all[i]
  BY <1>3, <1>4, <1>9, <1>10, <1>11
<1>13. ASSUME NEW i \in 1 .. BlockSize, Len(all) + i <= Len(bytes)
       PROVE  bytes[Len(all) + i] = ZeroByte
  <2>1. /\ Len(all) + i \in 1 .. n /\ ~ (Len(all) + i <= Len(all))
        /\ (Len(all) + i) - Len(all) = i /\ Len(all) + i \in 1 .. Len(all) + Len(end)
    BY <1>3, <1>4, <1>5, <1>10, <1>11, <1>13
  <2>2. bytes[Len(all) + i] = end[i]
    BY <1>9, <1>11, <2>1
  <2> QED
    BY <1>6, <2>2
<1> QED
  BY <1>7, <1>8, <1>11, <1>12, <1>13

-----------------------------------------------------------------------------
(* Where a State stands when `k' entries were found and `off' bytes        *)
(* consumed, and what it tells of the block that follows the entries.      *)
EmptyUpTo(k, off) == \A i \in Start(k + 1) + 1 .. off : bytes[i] = ZeroByte

Placed(s, off, k) ==
  /\ off = IF InEntry(s) THEN Start(k) + ItemOffset(s, hdrs[k])
           ELSE Start(k + 1) + ItemOffset(s, NoHeader)
  /\ InEntry(s) => k > 0
  /\ s.tag = "ReceivingHeader" => (EmptyUpTo(k, off) <=> s.empty = TRUE)
  /\ s.tag \in {"ReceivingEof", "ReceivedEof"} => k = Len(hdrs) /\ EmptyUpTo(k, off)

(* The same for each kind of state.                                        *)
LEMMA DataPlace ==
  ASSUME NEW off, NEW k
  PROVE  /\ \A rem : Placed(ReceivingData(rem), off, k) => k > 0
         /\ \A rem : Placed(ReceivingData(rem), off, k) =>
              off = Start(k) + (BlockSize + hdrs[k].size - rem)
         /\ \A rem : (k > 0 /\
              off = Start(k) + (BlockSize + hdrs[k].size - rem))
              => Placed(ReceivingData(rem), off, k)
  BY DEF Placed, InEntry, ItemOffset, ReceivingData, St

LEMMA AlignPlace ==
  ASSUME NEW off, NEW k
  PROVE  /\ \A rem : Placed(AligningData(rem), off, k) => k > 0
         /\ \A rem : Placed(AligningData(rem), off, k) =>
              off = Start(k) + (EntryLen(hdrs[k]) - rem)
         /\ \A rem : (k > 0 /\
              off = Start(k) + (EntryLen(hdrs[k]) - rem))
              => Placed(AligningData(rem), off, k)
  BY DEF Placed, InEntry, ItemOffset, AligningData, St

LEMMA NextPlace ==
  ASSUME NEW off, NEW k
  PROVE  /\ Placed(ExpectingHeader, off, k) =>
              off = Start(k + 1) + 0
         /\ (off = Start(k + 1) + 0)
              => Placed(ExpectingHeader, off, k)
  BY DEF Placed, InEntry, ItemOffset, ExpectingHeader, St

LEMMA HeaderPlace ==
  ASSUME NEW off, NEW k
  PROVE  /\ \A rem, e : Placed(ReceivingHeader(rem, e), off, k) =>
              off = Start(k + 1) + (BlockSize - rem)
         /\ \A rem, e : Placed(ReceivingHeader(rem, e), off, k) =>
              (EmptyUpTo(k, off) <=> e = TRUE)
         /\ \A rem, e : (off = Start(k + 1) + (BlockSize - rem) /\
              (EmptyUpTo(k, off) <=> e = TRUE))
              => Placed(ReceivingHeader(rem, e), off, k)
  BY DEF Placed, InEntry, ItemOffset, ReceivingHeader, St

LEMMA EofPlace ==
  ASSUME NEW off, NEW k
  PROVE  /\ \A rem : Placed(ReceivingEof(rem), off, k) =>
              off = Start(k + 1) + (EofLen - rem)
         /\ \A rem : Placed(ReceivingEof(rem), off, k) => k = Len(hdrs)
         /\ \A rem : Placed(ReceivingEof(rem), off, k) => EmptyUpTo(k, off)
         /\ \A rem : (off = Start(k + 1) + (EofLen - rem) /\
              k = Len(hdrs) /\
              EmptyUpTo(k, off))
              => Placed(ReceivingEof(rem), off, k)
  BY DEF Placed, InEntry, ItemOffset, ReceivingEof, St

LEMMA EndPlace ==
  ASSUME NEW off, NEW k
  PROVE  /\ Placed(ReceivedEof, off, k) =>
              off = Start(k + 1) + EofLen
         /\ Placed(ReceivedEof, off, k) => k = Len(hdrs)
         /\ Placed(ReceivedEof, off, k) => EmptyUpTo(k, off)
         /\ (off = Start(k + 1) + EofLen /\
              k = Len(hdrs) /\
              EmptyUpTo(k, off))
              => Placed(ReceivedEof, off, k)
  BY DEF Placed, InEntry, ItemOffset, ReceivedEof, St

LEMMA PlacedData ==
  ASSUME hdrs \in Archives, NEW k \in 1 .. Len(hdrs), hdrs[k].size \in Nat,
         NEW rem \in Nat, NEW amt \in Nat, amt <= rem, NEW off,
         Placed(ReceivingData(rem), off, k)
  PROVE  IF amt < rem THEN Placed(ReceivingData(rem - amt), off + amt, k)
         ELSE Placed(AligningData(Align(hdrs[k].size)), off + amt, k)
<1>1. off = Start(k) + (BlockSize + hdrs[k].size - rem)
  BY DataPlace, Zenon
<1>2. Start(k) \in Nat /\ hdrs[k] \in HeaderType
  BY StartFacts
<1>3. BlockSize \in Nat /\ Align(hdrs[k].size) \in Nat
      /\ EntryLen(hdrs[k]) = BlockSize + hdrs[k].size + Align(hdrs[k].size)
  BY <1>2, EntryLenFacts, ReaderFacts
<1> DEFINE size == hdrs[k].size
           a == Align(size)
<1> HIDE DEF size, a
<1>4. CASE amt < rem
  <2>1. off + amt = Start(k) + (BlockSize + size - (rem - amt))
    <3> DEFINE p == Start(k)
    <3>1. off = p + (BlockSize + size - rem) /\ p \in Nat /\ size \in Nat
          /\ BlockSize \in Nat
      BY <1>1, <1>2, <1>3 DEF size
    <3> HIDE DEF p
    <3>2. off + amt = p + (BlockSize + size - (rem - amt))
      BY <3>1
    <3> QED
      BY <3>2 DEF p
  <2> QED
    BY <1>4, <2>1, DataPlace DEF size
<1>5. CASE ~ (amt < rem)
  <2>1. off + amt = Start(k) + (EntryLen(hdrs[k]) - a)
    BY <1>1, <1>2, <1>3, <1>5 DEF size, a
  <2> QED
    BY <1>5, <2>1, AlignPlace DEF size, a
<1> QED
  BY <1>4, <1>5

LEMMA EmptyAtStart ==
  ASSUME hdrs \in Archives, NEW k \in 0 .. Len(hdrs)
  PROVE  EmptyUpTo(k, Start(k + 1))
<1>1. k + 1 \in 1 .. Len(hdrs) + 1
  BY StartFacts
<1>2. Start(k + 1) \in Nat
  BY <1>1, StartFacts
<1> QED
  BY <1>2 DEF EmptyUpTo

LEMMA PlacedBefore ==
  ASSUME hdrs \in Archives, NEW k \in 0 .. Len(hdrs), NEW off,
         Placed(ExpectingHeader, off, k)
  PROVE  Placed(ReceivingHeader(BlockSize, TRUE), off, k)
<1>1. Start(k + 1) \in Nat
  <2>1. k + 1 \in 1 .. Len(hdrs) + 1
    BY StartFacts
  <2> QED
    BY <2>1, StartFacts
<1>2. off = Start(k + 1) /\ off = Start(k + 1) + (BlockSize - BlockSize)
  <2>1. off = Start(k + 1) + 0
    BY NextPlace, Zenon
  <2> QED
    BY <1>1, <2>1, ReaderFacts
<1>3. EmptyUpTo(k, off)
  BY <1>2, EmptyAtStart
<1> QED
  BY <1>2, <1>3, HeaderPlace

LEMMA PlacedAlign ==
  ASSUME hdrs \in Archives, NEW k \in 1 .. Len(hdrs), NEW rem \in Nat,
         NEW amt \in Nat, amt <= rem, NEW off, Placed(AligningData(rem), off, k)
  PROVE  IF amt < rem THEN Placed(AligningData(rem - amt), off + amt, k)
         ELSE /\ Placed(ExpectingHeader, off + amt, k)
              /\ Placed(ReceivingHeader(BlockSize, TRUE), off + amt, k)
<1>1. off = Start(k) + (EntryLen(hdrs[k]) - rem)
  BY AlignPlace, Zenon
<1>2. Start(k) \in Nat /\ Start(k + 1) = Start(k) + EntryLen(hdrs[k])
      /\ EntryLen(hdrs[k]) \in Nat
  BY StartFacts
<1> DEFINE len == EntryLen(hdrs[k])
<1> HIDE DEF len
<1>3. CASE amt < rem
  <2>1. off + amt = Start(k) + (len - (rem - amt))
    BY <1>1, <1>2 DEF len
  <2> QED
    BY <1>3, <2>1, AlignPlace DEF len
<1>4. CASE ~ (amt < rem)
  <2>1. off + amt = Start(k + 1) + 0
    BY <1>1, <1>2, <1>4
  <2>2. Placed(ExpectingHeader, off + amt, k)
    BY <2>1, NextPlace
  <2>3. k \in 0 .. Len(hdrs)
    BY StartFacts
  <2> QED
    BY <1>4, <2>2, <2>3, PlacedBefore
<1> QED
  BY <1>3, <1>4

(* The bytes of a block that begins where the entries end.                 *)
EmptyNext(off, amt) == \A i \in off + 1 .. off + amt : bytes[i] = ZeroByte

LEMMA EmptyFurther ==
  ASSUME hdrs \in Archives, NEW k \in 0 .. Len(hdrs), NEW off \in Nat, NEW amt \in Nat,
         Start(k + 1) <= off
  PROVE  EmptyUpTo(k, off + amt) <=> EmptyUpTo(k, off) /\ EmptyNext(off, amt)
<1>1. Start(k + 1) \in Nat
  <2>1. k + 1 \in 1 .. Len(hdrs) + 1
    BY StartFacts
  <2> QED
    BY <2>1, StartFacts
<1> DEFINE p == Start(k + 1)
<1> HIDE DEF p
<1>2. \A i : i \in p + 1 .. off + amt <=> i \in p + 1 .. off \/ i \in off + 1 .. off + amt
  BY <1>1 DEF p
<1> QED
  BY <1>2 DEF EmptyUpTo, EmptyNext, p

(* An empty block is the end: no header is empty.                          *)
LEMMA EmptyIsEnd ==
  ASSUME hdrs \in Archives, SourceInv, NEW k \in 0 .. Len(hdrs), NEW off \in Nat,
         off = Start(k + 1) + BlockSize, off <= Len(bytes), EmptyUpTo(k, off)
  PROVE  k = Len(hdrs)
<1> SUFFICES ASSUME k # Len(hdrs) PROVE FALSE
  OBVIOUS
<1>1. k + 1 \in 1 .. Len(hdrs)
  BY StartFacts
<1>2. Start(k + 1) \in Nat /\ EntryLen(hdrs[k + 1]) >= BlockSize
      /\ EntryLen(hdrs[k + 1]) \in Nat /\ hdrs[k + 1] \in HeaderType
  BY <1>1, StartFacts
<1>3. BlockSize \in 1 .. EntryLen(hdrs[k + 1]) /\ BlockSize \in Nat
  BY <1>2, ReaderFacts
<1>4. bytes[Start(k + 1) + BlockSize] = EntryByte(hdrs[k + 1], BlockSize)
  BY <1>1, <1>3, SourceAt
<1>5. hdrs[k + 1].lead < BlockSize /\ hdrs[k + 1].lead \in Nat
  BY <1>1, <1>2, HeadersAssumption DEF HeaderType
<1>6. EntryByte(hdrs[k + 1], BlockSize) = <<"hdr", hdrs[k + 1].id, BlockSize>>
  BY <1>3, <1>5 DEF EntryByte, HeaderByte
<1>7. bytes[off] = ZeroByte
  BY <1>2, <1>3, ReaderFacts DEF EmptyUpTo
<1> QED
  BY <1>4, <1>6, <1>7 DEF ZeroByte

LEMMA PlacedHeader ==
  ASSUME hdrs \in Archives, SourceInv, NEW k \in 0 .. Len(hdrs),
         NEW rem \in 1 .. BlockSize, NEW e \in BOOLEAN, NEW amt \in Nat, amt <= rem,
         NEW off \in Nat, off + amt <= Len(bytes), NEW z \in BOOLEAN,
         z <=> e /\ EmptyNext(off, amt), amt < rem \/ z,
         Placed(ReceivingHeader(rem, e), off, k)
  PROVE  Placed(AfterHeaderBytes(rem - amt, z), off + amt, k)
<1>1. off = Start(k + 1) + (BlockSize - rem) /\ (EmptyUpTo(k, off) <=> e = TRUE)
  BY HeaderPlace, Zenon
<1>2. Start(k + 1) \in Nat /\ BlockSize \in Nat
  <2>1. k + 1 \in 1 .. Len(hdrs) + 1
    BY StartFacts
  <2> QED
    BY <2>1, StartFacts, ReaderFacts
<1>3. Start(k + 1) <= off /\ off + amt \in Nat
  BY <1>1, <1>2
<1>4. EmptyUpTo(k, off + amt) <=> EmptyUpTo(k, off) /\ EmptyNext(off, amt)
  BY <1>3, EmptyFurther
<1>5. EmptyUpTo(k, off + amt) <=> z = TRUE
  BY <1>1, <1>4, Zenon
<1>6. CASE amt < rem
  <2>1. off + amt = Start(k + 1) + (BlockSize - (rem - amt))
    BY <1>1, <1>2
  <2>2. AfterHeaderBytes(rem - amt, z) = ReceivingHeader(rem - amt, z)
    BY <1>6 DEF AfterHeaderBytes
  <2>3. Placed(ReceivingHeader(rem - amt, z), off + amt, k)
    BY <1>5, <2>1, HeaderPlace
  <2> QED
    BY <2>2, <2>3
<1>7. CASE ~ (amt < rem)
  <2>1. z = TRUE /\ ~ (rem - amt > 0)
    BY <1>7
  <2>2. AfterHeaderBytes(rem - amt, z) = ReceivingEof(BlockSize)
    BY <2>1, Zenon DEF AfterHeaderBytes
  <2>3. off + amt = Start(k + 1) + BlockSize
        /\ off + amt = Start(k + 1) + (EofLen - BlockSize)
    BY <1>1, <1>2, <1>7 DEF EofLen
  <2>4. EmptyUpTo(k, off + amt)
    BY <1>5, <2>1
  <2>5. k = Len(hdrs)
    BY <1>3, <2>3, <2>4, EmptyIsEnd
  <2>6. Placed(ReceivingEof(BlockSize), off + amt, k)
    BY <2>3, <2>4, <2>5, EofPlace, Zenon
  <2> QED
    BY <2>2, <2>6
<1> QED
  BY <1>6, <1>7

LEMMA PlacedEof ==
  ASSUME hdrs \in Archives, NEW k \in 0 .. Len(hdrs), NEW rem \in 1 .. BlockSize,
         NEW amt \in Nat, amt <= rem, NEW off \in Nat, EmptyNext(off, amt),
         Placed(ReceivingEof(rem), off, k)
  PROVE  IF amt < rem THEN Placed(ReceivingEof(rem - amt), off + amt, k)
         ELSE Placed(ReceivedEof, off + amt, k)
<1>1. off = Start(k + 1) + (EofLen - rem) /\ k = Len(hdrs) /\ EmptyUpTo(k, off)
  BY EofPlace, Zenon
<1>2. Start(k + 1) \in Nat /\ BlockSize \in Nat /\ EofLen = 2 * BlockSize
      /\ EofLen \in Nat
  <2>1. k + 1 \in 1 .. Len(hdrs) + 1
    BY StartFacts
  <2> QED
    BY <2>1, StartFacts, ReaderFacts DEF EofLen
<1>3. Start(k + 1) <= off
  BY <1>1, <1>2
<1>4. EmptyUpTo(k, off + amt)
  BY <1>1, <1>3, EmptyFurther
<1>5. CASE amt < rem
  <2>1. off + amt = Start(k + 1) + (EofLen - (rem - amt))
    BY <1>1, <1>2
  <2> QED
    BY <1>1, <1>4, <1>5, <2>1, EofPlace
<1>6. CASE ~ (amt < rem)
  <2>1. off + amt = Start(k + 1) + EofLen
    BY <1>1, <1>2, <1>6
  <2> QED
    BY <1>1, <1>4, <1>6, <2>1, EndPlace
<1> QED
  BY <1>5, <1>6

LEMMA PlacedOpens ==
  ASSUME hdrs \in Archives, NEW k \in 0 .. Len(hdrs) - 1, NEW rem \in 1 .. BlockSize,
         NEW e, NEW off, hdrs[k + 1].size \in Nat,
         Placed(ReceivingHeader(rem, e), off, k)
  PROVE  Placed(ReceivingData(hdrs[k + 1].size), off + rem, k + 1)
<1>1. off = Start(k + 1) + (BlockSize - rem)
  BY HeaderPlace, Zenon
<1>2. k + 1 \in 1 .. Len(hdrs) + 1 /\ k + 1 > 0
  BY StartFacts
<1>3. Start(k + 1) \in Nat /\ BlockSize \in Nat
  BY <1>2, StartFacts, ReaderFacts
<1> DEFINE size == hdrs[k + 1].size
<1> HIDE DEF size
<1>4. off + rem = Start(k + 1) + (BlockSize + size - size)
  BY <1>1, <1>3 DEF size
<1> QED
  BY <1>2, <1>4, DataPlace DEF size

-----------------------------------------------------------------------------
(* The inductive invariant: the buffer holds the bytes behind the consumed *)
(* ones, State stands there, and what was read of an entry is its data.    *)
Window == \A i \in 1 .. Len(Unread) : Unread[i] = bytes[Offset + i]

GotInv ==
  found > 0 =>
    /\ hdrs[found].size \in Nat
    /\ Len(got) = hdrs[found].size - DataLeft(state)
    /\ \A i \in 1 .. Len(got) : got[i] = DataByte(hdrs[found], i)

OwnInv == entry # NoHeader => found > 0 /\ entry = hdrs[found]

PInv == /\ SourceInv /\ found <= Len(hdrs) /\ Offset \in Nat /\ Window
        /\ Placed(state, Offset, found) /\ GotInv /\ OwnInv

LEMMA PlaceFacts ==
  ASSUME IInv, PInv
  PROVE  /\ hdrs \in Archives /\ bytes \in Seq(Byte) /\ Len(bytes) \in Nat
         /\ fed \in 0 .. Len(bytes) /\ fed \in Nat
         /\ Len(Unread) \in Nat /\ Offset \in Nat /\ Offset + Len(Unread) = fed
         /\ Len(hdrs) \in Nat /\ found \in 0 .. Len(hdrs)
         /\ found > 0 => found \in 1 .. Len(hdrs)
         /\ \A amt \in 0 .. Len(Unread) :
              /\ Ahead(amt) \in Seq(Byte) /\ Len(Ahead(amt)) = amt
              /\ \A i \in 1 .. amt : Ahead(amt)[i] = bytes[Offset + i]
              /\ Offset + amt <= Len(bytes) /\ Offset + amt \in Nat
<1>1. /\ hdrs \in Archives /\ bytes \in Seq(Byte) /\ Len(bytes) \in Nat
      /\ fed \in 0 .. Len(bytes) /\ fed \in Nat
  BY NowFacts, LenProperties DEF SourceOK
<1>2. Len(Unread) \in Nat /\ Unread \in Seq(Byte)
  BY NowFacts
<1>3. Offset \in Nat /\ Offset = fed - Len(Unread)
  BY DEF PInv, Offset
<1>4. Offset + Len(Unread) = fed
  BY <1>1, <1>2, <1>3
<1>5. Len(hdrs) \in Nat /\ found \in 0 .. Len(hdrs)
      /\ (found > 0 => found \in 1 .. Len(hdrs))
  BY <1>1, StartFacts, NowFacts DEF PInv, HandleOK
<1>6. ASSUME NEW amt \in 0 .. Len(Unread)
      PROVE  /\ Ahead(amt) \in Seq(Byte) /\ Len(Ahead(amt)) = amt
             /\ \A i \in 1 .. amt : Ahead(amt)[i] = bytes[Offset + i]
             /\ Offset + amt <= Len(bytes) /\ Offset + amt \in Nat
  <2>1. Ahead(amt) \in Seq(Byte) /\ Len(Ahead(amt)) = amt
    BY NowFacts, UnreadFacts
  <2>2. \A i \in 1 .. amt : Ahead(amt)[i] = Unread[i]
    <3>1. \A i \in 1 .. amt : Unread[i] \in Byte
      BY <1>2, ElementOfSeq
    <3> QED
      BY <1>2, <3>1, SubSeqProperties DEF Ahead
  <2>3. \A i \in 1 .. amt : Unread[i] = bytes[Offset + i]
    BY <1>2 DEF PInv, Window
  <2> QED
    BY <1>1, <1>2, <1>3, <1>4, <2>1, <2>2, <2>3
<1> QED
  BY <1>1, <1>2, <1>3, <1>4, <1>5, <1>6

LEMMA AheadZero ==
  ASSUME IInv, PInv, NEW amt \in 0 .. Len(Unread)
  PROVE  AllZero(Ahead(amt)) <=> EmptyNext(Offset, amt)
<1> DEFINE b == Ahead(amt)
<1>1. /\ Len(b) = amt /\ amt \in Nat /\ Offset \in Nat
      /\ \A i \in 1 .. amt : b[i] = bytes[Offset + i]
  BY PlaceFacts
<1> HIDE DEF b
<1>2. ASSUME AllZero(b) PROVE EmptyNext(Offset, amt)
  <2>1. ASSUME NEW i \in Offset + 1 .. Offset + amt PROVE bytes[i] = ZeroByte
    <3>1. i - Offset \in 1 .. amt /\ Offset + (i - Offset) = i
      BY <1>1
    <3> QED
      BY <1>1, <1>2, <3>1 DEF AllZero
  <2> QED
    BY <2>1 DEF EmptyNext
<1>3. ASSUME EmptyNext(Offset, amt) PROVE AllZero(b)
  <2>1. ASSUME NEW i \in 1 .. amt PROVE b[i] = ZeroByte
    <3>1. Offset + i \in Offset + 1 .. Offset + amt
      BY <1>1
    <3> QED
      BY <1>1, <1>3, <3>1 DEF EmptyNext
  <2> QED
    BY <1>1, <2>1 DEF AllZero
<1> QED
  BY <1>2, <1>3 DEF b

LEMMA PlacedThen ==
  ASSUME UNCHANGED source, NEW s, NEW off, NEW k, Placed(s, off, k),
         state' = s, Offset' = off, found' = k
  PROVE  Placed(state, Offset, found)'
  BY DEF Placed, InEntry, ItemOffset, Start, EmptyUpTo, source

LEMMA SourceStays == ASSUME SourceInv, UNCHANGED source PROVE SourceInv'
  BY DEF SourceInv, source

(* No byte moves.                                                          *)
LEMMA PlaceStays ==
  ASSUME IInv, PInv, UNCHANGED <<source, fed, archive, found, got>>,
         entry' \in {entry, NoHeader}
  PROVE  PInv'
<1>1. SourceInv'
  BY SourceStays DEF PInv
<1>2. Unread' = Unread
  BY DEF archive, Unread
<1>3. Offset' = Offset
  BY <1>2 DEF Offset
<1>4. Placed(state, Offset, found)'
  BY <1>3, PlacedThen DEF PInv, archive
<1>5. Window' /\ GotInv' /\ OwnInv' /\ found' <= Len(hdrs')
  BY <1>2, <1>3 DEF PInv, Window, GotInv, OwnInv, source, archive
<1> QED
  BY <1>1, <1>3, <1>4, <1>5 DEF PInv

(* Bytes are consumed.                                                     *)
LEMMA MovesOn ==
  ASSUME IInv, PInv, NEW amt \in 0 .. Len(Unread), NEW o, o.panic = "none",
         StateOK(o.state), Consume(o, amt), UNCHANGED <<source, fed>>
  PROVE  /\ state' = o.state /\ Offset' = Offset + amt /\ Offset' \in Nat
         /\ Window' /\ SourceInv'
<1>1. StoreOK' /\ state' = o.state /\ Len(Unread') = Len(Unread) - amt
  BY NowFacts, Consumes
<1>2. Len(Unread) \in Nat /\ fed \in Nat /\ amt \in Nat /\ Offset \in Nat
  BY PlaceFacts
<1>3. Offset' = Offset + amt /\ Offset' \in Nat
  BY <1>1, <1>2 DEF Offset
<1>4. /\ data \in Seq(Byte) /\ Len(data) \in Nat /\ pos \in 0 .. Len(data)
      /\ Len(Unread) = Len(data) - pos
  BY NowFacts, UnreadFacts DEF StoreOK
<1>5. \A i \in 1 .. Len(Unread) : Unread[i] = data[pos + i]
  <2>1. \A i \in pos + 1 .. Len(data) : data[i] \in Byte
    BY <1>4, ElementOfSeq
  <2>2. \A i \in 1 .. Len(data) - (pos + 1) + 1 : Unread[i] = data[(pos + 1) + i - 1]
    BY <1>4, <2>1, SubSeqProperties DEF Unread
  <2> QED
    BY <1>4, <2>2
<1>6. ASSUME NEW i \in 1 .. Len(Unread') PROVE Unread'[i] = Unread[amt + i]
  <2>1. pos + amt # Len(data)
    BY <1>1, <1>4, <1>6
  <2>2. data' = data /\ pos' = pos + amt
    BY <2>1 DEF Consume, Commit
  <2>3. Unread' = SubSeq(data, pos' + 1, Len(data))
    BY <2>2 DEF Unread
  <2>4. Unread'[i] = data[(pos + amt) + i]
    <3>1. \A j \in pos' + 1 .. Len(data) : data[j] \in Byte
      BY <1>2, <1>4, <2>2, ElementOfSeq
    <3>2. \A j \in 1 .. Len(data) - (pos' + 1) + 1 :
            SubSeq(data, pos' + 1, Len(data))[j] = data[(pos' + 1) + j - 1]
      BY <1>2, <1>4, <2>2, <3>1, SubSeqProperties
    <3>3. i \in 1 .. Len(data) - (pos' + 1) + 1 /\ (pos' + 1) + i - 1 = (pos + amt) + i
      BY <1>1, <1>2, <1>4, <2>2
    <3> QED
      BY <2>3, <3>2, <3>3
  <2>5. amt + i \in 1 .. Len(Unread) /\ pos + (amt + i) = (pos + amt) + i
    BY <1>1, <1>2, <1>4
  <2> QED
    BY <1>5, <2>4, <2>5
<1>7. Window'
  <2>1. ASSUME NEW i \in 1 .. Len(Unread') PROVE Unread'[i] = bytes'[Offset' + i]
    <3>1. amt + i \in 1 .. Len(Unread) /\ Offset + (amt + i) = Offset' + i
      BY <1>1, <1>2, <1>3
    <3>2. Unread[amt + i] = bytes[Offset + (amt + i)]
      BY <3>1 DEF PInv, Window
    <3> QED
      BY <1>6, <3>1, <3>2 DEF source
  <2> QED
    BY <2>1 DEF Window
<1>8. SourceInv'
  BY SourceStays DEF PInv
<1> QED
  BY <1>1, <1>3, <1>7, <1>8

LEMMA FillPlace ==
  ASSUME IInv, IInv', PInv, FillBuf
  PROVE  PInv'
<1>1. /\ data = <<>> /\ Unread = <<>> /\ Len(Unread) = 0 /\ pos = 0
      /\ UNCHANGED <<source, state, pos, control, handle>>
  <2>1. Unread = <<>> /\ data = <<>>
    BY NowFacts DEF FillBuf, Fills, StoreOK
  <2> QED
    BY <2>1, NowFacts DEF FillBuf, StoreOK
<1>2. fed \in Nat /\ Len(bytes) \in Nat /\ bytes \in Seq(Byte) /\ Offset = fed
  BY <1>1, PlaceFacts
<1>3. PICK n \in IF ShortReads THEN 1 .. FillLen ELSE {FillLen} :
        /\ data' = data \o SubSeq(bytes, fed + 1, fed + n)
        /\ fed' = fed + n
  BY DEF FillBuf
<1>4. n \in Nat /\ fed + n <= Len(bytes)
  <2>1. fed' \in 0 .. Len(bytes)
    BY <1>1 DEF IInv, TypeOK, source
  <2>2. Left \in Nat /\ Room \in Nat
    BY <1>1, <1>2, ReaderFacts, NowFacts DEF Left, Room, SourceOK
  <2>3. n \in Nat
    BY <1>3, <2>2 DEF FillLen
  <2> QED
    BY <1>2, <1>3, <2>1, <2>3
<1> DEFINE b == SubSeq(bytes, fed + 1, fed + n)
<1>5. /\ b \in Seq(Byte) /\ Len(b) = n
      /\ \A i \in 1 .. n : b[i] = bytes[fed + i]
  <2>1. \A i \in fed + 1 .. fed + n : bytes[i] \in Byte
    BY <1>2, <1>4, ElementOfSeq
  <2>2. /\ b \in Seq(Byte)
        /\ Len(b) = IF fed + 1 <= fed + n THEN (fed + n) - (fed + 1) + 1 ELSE 0
        /\ \A i \in 1 .. (fed + n) - (fed + 1) + 1 : b[i] = bytes[(fed + 1) + i - 1]
    BY <1>2, <1>4, <2>1, SubSeqProperties
  <2> HIDE DEF b
  <2> QED
    BY <1>2, <1>4, <2>2
<1> HIDE DEF b
<1>6. data' = b
  BY <1>1, <1>3, <1>5, ConcatEmptySeq DEF b
<1>7. Unread' = b
  <2>1. Unread' = SubSeq(b, 1, Len(b))
    BY <1>1, <1>6 DEF Unread
  <2> QED
    BY <1>5, <2>1, SubSeqFull
<1>8. Offset' = Offset
  <2>1. fed' = fed + n /\ Len(Unread') = n
    BY <1>3, <1>5, <1>7
  <2>2. Offset' = fed' - Len(Unread')
    BY DEF Offset
  <2> QED
    BY <1>2, <1>4, <2>1, <2>2
<1>9. Window'
  BY <1>1, <1>2, <1>5, <1>7, <1>8 DEF Window, source
<1>10. Placed(state, Offset, found)'
  BY <1>1, <1>8, PlacedThen DEF PInv, handle
<1>11. SourceInv'
  BY <1>1, SourceStays DEF PInv
<1>12. GotInv' /\ OwnInv' /\ found' <= Len(hdrs')
  BY <1>1 DEF PInv, GotInv, OwnInv, handle, source
<1> QED
  BY <1>2, <1>8, <1>9, <1>10, <1>11, <1>12 DEF PInv

(* Bytes are consumed that belong to no data.                              *)
LEMMA PassPlace ==
  ASSUME IInv, PInv, NEW amt \in 0 .. Len(Unread), NEW o, o.panic = "none",
         StateOK(o.state), Consume(o, amt), UNCHANGED <<source, fed, handle>>,
         Placed(o.state, Offset + amt, found), DataLeft(o.state) = DataLeft(state)
  PROVE  PInv'
<1>1. /\ state' = o.state /\ Offset' = Offset + amt /\ Offset' \in Nat
      /\ Window' /\ SourceInv'
  BY MovesOn
<1>2. Placed(state, Offset, found)'
  BY <1>1, PlacedThen DEF handle
<1>3. GotInv' /\ OwnInv' /\ found' <= Len(hdrs')
  BY <1>1 DEF PInv, GotInv, OwnInv, handle, source
<1> QED
  BY <1>1, <1>2, <1>3 DEF PInv

-----------------------------------------------------------------------------
(* Bytes are consumed through the handle.                                  *)
LEMMA DataBytes ==
  ASSUME IInv, PInv, entry # NoHeader, state.tag = "ReceivingData",
         NEW amt \in 0 .. Len(Unread), amt <= state.rem
  PROVE  /\ Len(got \o Ahead(amt)) = Len(got) + amt
         /\ \A i \in 1 .. Len(got) + amt :
              (got \o Ahead(amt))[i] = DataByte(hdrs[found], i)
<1> DEFINE h == hdrs[found]
           b == Ahead(amt)
<1>1. /\ found \in 1 .. Len(hdrs) /\ h.size \in Nat /\ Len(got) = h.size - state.rem
      /\ \A i \in 1 .. Len(got) : got[i] = DataByte(h, i)
  BY PlaceFacts DEF PInv, OwnInv, GotInv, DataLeft
<1>2. /\ Offset = Start(found) + (BlockSize + h.size - state.rem)
      /\ state.rem \in Nat
  <2>1. state = ReceivingData(state.rem) /\ state.rem \in Nat
    BY NowFacts, Canonical
  <2>2. Placed(ReceivingData(state.rem), Offset, found)
    BY <2>1 DEF PInv
  <2> QED
    BY <2>1, <2>2, DataPlace, Zenon
<1>3. /\ b \in Seq(Byte) /\ Len(b) = amt /\ amt \in Nat
      /\ \A i \in 1 .. amt : b[i] = bytes[Offset + i]
      /\ Offset + amt <= Len(bytes) /\ Len(bytes) \in Nat /\ Offset \in Nat
  <2>1. Len(Unread) \in Nat /\ Len(bytes) \in Nat /\ Offset \in Nat
    BY PlaceFacts
  <2>2. /\ Ahead(amt) \in Seq(Byte) /\ Len(Ahead(amt)) = amt
        /\ \A i \in 1 .. amt : Ahead(amt)[i] = bytes[Offset + i]
        /\ Offset + amt <= Len(bytes)
    BY PlaceFacts, Zenon
  <2> QED
    BY <2>1, <2>2
<1>4. got \in Seq(Byte) /\ Len(got) \in Nat
  BY NowFacts
<1>5. /\ Start(found) \in Nat /\ BlockSize \in Nat /\ EntryLen(h) \in Nat
      /\ EntryLen(h) >= BlockSize + h.size
  <2>1. hdrs \in Archives /\ found \in 1 .. Len(hdrs) + 1
    BY <1>1, PlaceFacts
  <2>2. EntryLen(h) = BlockSize + h.size + Align(h.size) /\ Align(h.size) \in Nat
        /\ BlockSize \in Nat
    <3>1. h \in HeaderType
      BY <1>1, <2>1, StartFacts
    <3> QED
      BY <1>1, <3>1, EntryLenFacts, ReaderFacts
  <2>3. Start(found) \in Nat /\ EntryLen(h) \in Nat
    BY <1>1, <2>1, StartFacts
  <2> QED
    BY <1>1, <2>2, <2>3
<1>6. ASSUME NEW i \in 1 .. amt PROVE b[i] = DataByte(h, Len(got) + i)
  <2> DEFINE size == h.size
             g    == Len(got)
             r    == state.rem
             len  == EntryLen(h)
             p    == Start(found)
             j    == BlockSize + (g + i)
  <2>1. /\ size \in Nat /\ g = size - r /\ len >= BlockSize + size
        /\ Offset = p + (BlockSize + size - r) /\ len \in Nat /\ r \in Nat
        /\ p \in Nat /\ BlockSize \in Nat /\ g \in Nat /\ amt <= r
    BY <1>1, <1>2, <1>4, <1>5
  <2>6. i \in Nat /\ i >= 1 /\ i <= amt /\ amt \in Nat
    BY <1>3
  <2> HIDE DEF size, h, b, g, r, len, p
  <2>2. /\ j \in 1 .. len /\ p + j = Offset + i /\ p + j <= Len(bytes)
        /\ ~ (j <= BlockSize) /\ j <= BlockSize + size /\ j - BlockSize = g + i
    BY <1>3, <2>1, <2>6
  <2> HIDE DEF j
  <2>3. bytes[Start(found) + j] = EntryByte(h, j)
    <3>1. hdrs \in Archives /\ SourceInv
      BY PlaceFacts DEF PInv
    <3> QED
      BY <1>1, <2>2, <3>1, SourceAt DEF h, p, len
  <2>4. EntryByte(h, j) = DataByte(h, j - BlockSize)
    BY <2>2 DEF EntryByte, size
  <2>5. bytes[Offset + i] = DataByte(h, Len(got) + i)
    BY <2>2, <2>3, <2>4 DEF g, p
  <2> QED
    BY <1>3, <2>5
<1> HIDE DEF b, h
<1>7. /\ Len(got \o b) = Len(got) + Len(b)
      /\ \A i \in 1 .. Len(got) + Len(b) :
           (got \o b)[i] = IF i <= Len(got) THEN got[i] ELSE b[i - Len(got)]
  BY <1>3, <1>4, ConcatProperties
<1>8. ASSUME NEW i \in 1 .. Len(got) + amt PROVE (got \o b)[i] = DataByte(h, i)
  <2>1. CASE i <= Len(got)
    <3>1. i \in 1 .. Len(got) /\ i \in 1 .. Len(got) + Len(b)
      BY <1>3, <1>4, <2>1
    <3> QED
      BY <1>1, <1>7, <2>1, <3>1
  <2>2. CASE ~ (i <= Len(got))
    <3>1. i - Len(got) \in 1 .. amt /\ i \in 1 .. Len(got) + Len(b)
          /\ Len(got) + (i - Len(got)) = i
      BY <1>3, <1>4, <2>2
    <3>2. b[i - Len(got)] = DataByte(h, i)
      BY <1>6, <3>1
    <3> QED
      BY <1>7, <2>2, <3>1, <3>2
  <2> QED
    BY <2>1, <2>2
<1> QED
  BY <1>3, <1>7, <1>8 DEF b, h

(* The state that such a consume leaves is in its place.                   *)
LEMMA AfterTakePlaced ==
  ASSUME IInv, PInv, SizesFit, entry # NoHeader, NEW amt \in 0 .. Len(Unread),
         IF state.tag = "ReceivingData" THEN amt <= state.rem ELSE amt = 0
  PROVE  Placed(AfterTake(amt), Offset + amt, found)
<1>1. /\ found \in 1 .. Len(hdrs) /\ entry = hdrs[found] /\ hdrs \in Archives
      /\ entry.size \in Nat /\ state.rem \in Nat /\ amt \in Nat /\ Offset \in Nat
      /\ found \in 0 .. Len(hdrs) /\ hdrs[found].size \in Nat
  BY PlaceFacts, EntryFacts, NowFacts DEF PInv, OwnInv
<1>2. Placed(state, Offset, found)
  BY DEF PInv
<1>3. CASE state.tag = "ReceivingData"
  <2>1. state = ReceivingData(state.rem) /\ amt <= state.rem
    BY <1>3, EntryFacts
  <2>2. Placed(ReceivingData(state.rem), Offset, found)
    BY <1>2, <2>1
  <2>3. IF amt < state.rem THEN Placed(ReceivingData(state.rem - amt), Offset + amt, found)
        ELSE Placed(AligningData(Align(hdrs[found].size)), Offset + amt, found)
    BY <1>1, <2>1, <2>2, PlacedData
  <2>4. AfterTake(amt) = IF amt < state.rem THEN ReceivingData(state.rem - amt)
                         ELSE AligningData(Align(hdrs[found].size))
    BY <1>1, <1>3 DEF AfterTake
  <2> QED
    BY <2>3, <2>4
<1>4. CASE state.tag # "ReceivingData"
  <2>1. amt = 0 /\ Offset + amt = Offset
    BY <1>1, <1>4
  <2> SUFFICES Placed(AfterTake(amt), Offset, found)
    BY <2>1
  <2>2. CASE state.tag = "AligningData" /\ state.rem > 0
    <3>1. AfterTake(amt) = state
      BY <2>2 DEF AfterTake
    <3> QED
      BY <1>2, <3>1
  <2>3. CASE state.tag = "AligningData" /\ ~ (state.rem > 0)
    <3>1. AfterTake(amt) = ExpectingHeader
      BY <2>3 DEF AfterTake
    <3>2. state = AligningData(state.rem) /\ amt <= state.rem /\ ~ (amt < state.rem)
      BY <1>1, <2>1, <2>3, EntryFacts
    <3>3. Placed(AligningData(state.rem), Offset, found)
      BY <1>2, <3>2
    <3>4. Placed(ExpectingHeader, Offset + amt, found)
      BY <1>1, <3>2, <3>3, PlacedAlign
    <3> QED
      BY <2>1, <3>1, <3>4
  <2>4. CASE state.tag = "ExpectingHeader"
    <3>1. AfterTake(amt) = ReceivingHeader(BlockSize, TRUE)
      BY <2>4 DEF AfterTake
    <3>2. Placed(ExpectingHeader, Offset, found)
      BY <1>2, <2>4, NowFacts, Canonical
    <3> QED
      BY <1>1, <3>1, <3>2, PlacedBefore
  <2>5. CASE state = ReceivingHeader(BlockSize, TRUE)
    <3>1. AfterTake(amt) = ReceivingHeader(BlockSize, TRUE)
      BY <2>5, TagsOf DEF AfterTake
    <3> QED
      BY <1>2, <2>5, <3>1
  <2> QED
    BY <1>4, <2>2, <2>3, <2>4, <2>5, EntryFacts DEF OfHandle
<1> QED
  BY <1>3, <1>4

LEMMA TakePlace ==
  ASSUME IInv, PInv, SizesFit, entry # NoHeader, NEW amt \in 0 .. Len(Unread),
         IF state.tag = "ReceivingData" THEN amt <= state.rem ELSE amt = 0,
         Consume(Consumed(state, Ahead(amt), entry), amt), Takes(amt),
         UNCHANGED <<source, fed>>
  PROVE  PInv'
<1> DEFINE o == Consumed(state, Ahead(amt), entry)
<1>1. /\ o.panic = "none" /\ StateOK(o.state) /\ OfHandle(o.state)
      /\ got \o Ahead(amt) \in Seq(Byte)
      /\ Len(got \o Ahead(amt)) = entry.size - DataLeft(o.state)
      /\ o.state = AfterTake(amt)
  BY EntryConsumes
<1>2. Consume(o, amt)
  OBVIOUS
<1> HIDE DEF o
<1>3. /\ state' = o.state /\ Offset' = Offset + amt /\ Offset' \in Nat
      /\ Window' /\ SourceInv'
  BY <1>1, <1>2, MovesOn
<1>4. got' = got \o Ahead(amt) /\ UNCHANGED <<entry, older, found>>
  BY DEF Takes
<1>5. Placed(state, Offset, found)'
  BY <1>1, <1>3, <1>4, AfterTakePlaced, PlacedThen
<1>6. found > 0 /\ entry = hdrs[found] /\ hdrs[found].size \in Nat
  BY DEF PInv, OwnInv, GotInv
<1>7. \A i \in 1 .. Len(got \o Ahead(amt)) :
        (got \o Ahead(amt))[i] = DataByte(hdrs[found], i)
  <2>1. CASE state.tag = "ReceivingData"
    BY <2>1, DataBytes
  <2>2. CASE state.tag # "ReceivingData"
    <3>1. Ahead(amt) = <<>>
      BY <2>2, AheadNothing
    <3>2. got \o Ahead(amt) = got
      BY <3>1, NowFacts, ConcatEmptySeq
    <3> QED
      BY <1>6, <3>2 DEF PInv, GotInv
  <2> QED
    BY <2>1, <2>2
<1>8. GotInv'
  BY <1>1, <1>3, <1>4, <1>6, <1>7 DEF GotInv, source
<1>9. OwnInv' /\ found' <= Len(hdrs')
  BY <1>4 DEF PInv, OwnInv, source
<1> QED
  BY <1>3, <1>5, <1>8, <1>9 DEF PInv

-----------------------------------------------------------------------------
(* The calls of the handle.                                                *)
LEMMA AlignPasses ==
  ASSUME IInv, PInv, state.tag = "AligningData", NEW amt \in 0 .. Len(Unread),
         amt <= state.rem
  PROVE  IF amt < state.rem THEN Placed(AligningData(state.rem - amt), Offset + amt, found)
         ELSE /\ Placed(ExpectingHeader, Offset + amt, found)
              /\ Placed(ReceivingHeader(BlockSize, TRUE), Offset + amt, found)
<1>1. state = AligningData(state.rem) /\ state.rem \in Nat /\ amt \in Nat
  BY NowFacts, Canonical
<1>2. Placed(AligningData(state.rem), Offset, found)
  BY <1>1 DEF PInv
<1>3. found > 0
  BY <1>2, AlignPlace, Zenon
<1>4. hdrs \in Archives /\ found \in 1 .. Len(hdrs)
  BY <1>3, PlaceFacts
<1> QED
  BY <1>1, <1>2, <1>4, PlacedAlign

LEMMA ReadPlace ==
  ASSUME IInv, PInv, SizesFit, ReadStep
  PROVE  PInv'
<1>1. CASE Reads
  <2>1. /\ HasData /\ Consume(Consumed(state, Ahead(ReadLen), call.hdr), ReadLen)
        /\ Takes(ReadLen) /\ UNCHANGED <<source, fed>>
    BY <1>1 DEF Reads
  <2>2. /\ entry # NoHeader /\ call.hdr = entry /\ state.tag = "ReceivingData"
        /\ AfterRead.n \in 0 .. Len(Unread) /\ AfterRead.n <= state.rem
    BY <2>1, DataStep
  <2>3. ReadLen \in 0 .. Len(Unread) /\ ReadLen <= state.rem
    <3>1. call.n \in ReadSizes \cup {0}
      BY NowFacts DEF ControlOK, CallOK
    <3>2. \A m \in ReadSizes \cup {0} : m \in Nat
      BY ReaderFacts
    <3> QED
      BY <2>2, <3>1, <3>2, NowFacts DEF ReadLen
  <2> QED
    BY <2>1, <2>2, <2>3, TakePlace
<1>2. CASE Skips
  <2>1. /\ HasData /\ Takes(AfterRead.n) /\ UNCHANGED <<source, fed, lent>>
    BY <1>2 DEF Skips
  <2>2. /\ entry # NoHeader /\ call.hdr = entry /\ state.tag = "ReceivingData"
        /\ AfterRead.n \in 0 .. Len(Unread) /\ AfterRead.n <= state.rem
    BY <2>1, DataStep
  <2>3. CASE AfterRead.n = 0
    <3>1. Ahead(AfterRead.n) = <<>>
      BY <2>3, AheadNothing
    <3>2. got' = got /\ UNCHANGED <<entry, found, archive>>
      BY <1>2, <2>1, <2>3, <3>1, NowFacts, ConcatEmptySeq DEF Takes, Skips
    <3> QED
      BY <2>1, <3>2, PlaceStays
  <2>4. CASE AfterRead.n # 0
    <3>1. Consume(Consumed(state, Ahead(AfterRead.n), call.hdr), AfterRead.n)
      BY <1>2, <2>4 DEF Skips
    <3> QED
      BY <2>1, <2>2, <3>1, TakePlace
  <2> QED
    BY <2>3, <2>4
<1>3. CASE ReadAligns
  <2> DEFINE n == AfterRead.n
             o == Consumed(state, Ahead(n), NoHeader)
  <2>1. Consume(o, n) /\ UNCHANGED <<source, fed, handle>>
    BY <1>3 DEF ReadAligns
  <2>2. /\ state.tag = "AligningData" /\ state.rem \in Nat
        /\ n \in 0 .. Len(Unread) /\ n < state.rem
        /\ o = [state |-> AligningData(state.rem - n), panic |-> "none"]
    BY <1>3, ReadAlignsIs
  <2> HIDE DEF n
  <2>3. Placed(AligningData(state.rem - n), Offset + n, found)
    <3>1. n <= state.rem
      BY <2>2, NowFacts
    <3> QED
      BY <2>2, <3>1, AlignPasses
  <2>4. state.rem - n \in 0 .. BlockSize - 1
    BY <2>2, NowFacts, ReaderFacts DEF GoodState
  <2>5. /\ o.panic = "none" /\ StateOK(o.state) /\ DataLeft(o.state) = DataLeft(state)
        /\ Placed(o.state, Offset + n, found)
    BY <2>2, <2>3, <2>4, HandleStates DEF DataLeft
  <2> HIDE DEF o
  <2> QED
    BY <2>1, <2>2, <2>5, PassPlace
<1>4. CASE ReadEnds
  <2> DEFINE n == AfterRead.n
             o == ConsumedAtEnd(Consumed(state, Ahead(n), call.hdr))
             t == IF call.op = "read" THEN ReceivingHeader(BlockSize, TRUE)
                  ELSE ExpectingHeader
  <2>1. Consume(o, n) /\ UNCHANGED <<source, fed, handle>>
    BY <1>4 DEF ReadEnds
  <2>2. /\ state.tag = "AligningData" /\ n \in 0 .. Len(Unread) /\ n = state.rem
        /\ o = [state |-> t, panic |-> "none"]
        /\ StateOK(t) /\ DataLeft(t) = DataLeft(state)
    BY <1>4, ReadEndsIs
  <2> HIDE DEF n
  <2>3. Placed(t, Offset + n, found)
    <3>1. n <= state.rem /\ ~ (n < state.rem)
      BY <2>2, NowFacts
    <3>2. /\ Placed(ExpectingHeader, Offset + n, found)
          /\ Placed(ReceivingHeader(BlockSize, TRUE), Offset + n, found)
      BY <2>2, <3>1, AlignPasses
    <3> QED
      BY <3>2
  <2> HIDE DEF t
  <2>4. /\ o.panic = "none" /\ StateOK(o.state) /\ DataLeft(o.state) = DataLeft(state)
        /\ Placed(o.state, Offset + n, found)
    BY <2>2, <2>3
  <2> HIDE DEF o
  <2> QED
    BY <2>1, <2>2, <2>4, PassPlace
<1>5. CASE Lends \/ ReadRefused \/ ReadNothing
  <2>1. UNCHANGED <<source, fed, archive, entry, found, got>>
    BY <1>5 DEF Lends, ReadRefused, ReadNothing, handle
  <2> QED
    BY <2>1, PlaceStays
<1> QED
  BY <1>1, <1>2, <1>3, <1>4, <1>5 DEF ReadStep

-----------------------------------------------------------------------------
(* next_entry.                                                             *)
LEMMA MovesPlace ==
  ASSUME IInv, PInv, NextEntryMoves \/ NextEntryEnds
  PROVE  PInv'
<1> DEFINE n == AfterNext.n
           o == Consumed(state, Ahead(n), NoHeader)
<1>1. NextEntryTurn /\ AfterNext.err = "none" /\ Consume(o, n)
      /\ UNCHANGED <<source, fed, handle>>
  BY DEF NextEntryMoves, NextEntryEnds
<1>2. AfterNext.state.tag \in {"ReceivingHeader", "ReceivingEof", "AligningData",
                               "AlignedData", "ReceivedEof"}
  BY TagsOf DEF NextEntryMoves, NextEntryEnds
<1>3. o.panic = "none" /\ StateOK(o.state) /\ n \in 0 .. Len(Unread)
  BY <1>1, <1>2, NextEntryPasses
<1>4. /\ hdrs \in Archives /\ found \in 0 .. Len(hdrs) /\ SourceInv /\ Offset \in Nat
      /\ state.rem \in Nat /\ state.empty \in BOOLEAN /\ GoodState(state)
      /\ Placed(state, Offset, found) /\ n \in Nat /\ Offset + n <= Len(bytes)
  <2>1. Offset + n <= Len(bytes) /\ n \in Nat
    BY <1>3, PlaceFacts
  <2> QED
    BY <1>1, <2>1, PlaceFacts, NextTurnFacts DEF PInv
<1>5. AllZero(Ahead(n)) <=> EmptyNext(Offset, n)
  BY <1>3, AheadZero
<1>6. ASSUME state.tag = "ReceivingHeader"
      PROVE  Placed(o.state, Offset + n, found) /\ DataLeft(o.state) = DataLeft(state)
  <2>1. AfterNext.state # ReceivedHeader
    BY <1>2, TagsOf
  <2>2. PICK z \in BOOLEAN : /\ z <=> (state.empty /\ AllZero(Ahead(n)))
                             /\ n < state.rem \/ z
                             /\ o.state = AfterHeaderBytes(state.rem - n, z)
    BY <1>1, <1>6, <2>1, PartOfHeader
  <2>3. n <= state.rem
    BY <1>1, <1>6, <2>1, PartOfHeader
  <2>4. state = ReceivingHeader(state.rem, state.empty) /\ state.rem \in 1 .. BlockSize
    BY <1>4, <1>6, Canonical DEF GoodState
  <2>5. z <=> state.empty /\ EmptyNext(Offset, n)
    BY <1>5, <2>2
  <2> HIDE DEF n, o
  <2>6. Placed(ReceivingHeader(state.rem, state.empty), Offset, found)
    BY <1>4, <2>4
  <2>7. Placed(AfterHeaderBytes(state.rem - n, z), Offset + n, found)
    BY <1>4, <2>2, <2>3, <2>4, <2>5, <2>6, PlacedHeader
  <2>8. DataLeft(AfterHeaderBytes(state.rem - n, z)) = 0
    BY TagsOf DEF DataLeft, AfterHeaderBytes
  <2> QED
    BY <1>6, <2>2, <2>7, <2>8 DEF DataLeft
<1>7. ASSUME state.tag = "AligningData"
      PROVE  Placed(o.state, Offset + n, found) /\ DataLeft(o.state) = DataLeft(state)
  <2>1. /\ n <= state.rem
        /\ o.state = IF n < state.rem THEN AligningData(state.rem - n)
                     ELSE ExpectingHeader
    BY <1>1, <1>7, PartOfPadding
  <2> HIDE DEF n, o
  <2>2. Placed(o.state, Offset + n, found)
    BY <1>3, <1>7, <2>1, AlignPasses
  <2>3. DataLeft(o.state) = 0
    BY <2>1, TagsOf DEF DataLeft
  <2> QED
    BY <1>7, <2>2, <2>3 DEF DataLeft
<1>8. ASSUME state.tag = "ReceivingEof"
      PROVE  Placed(o.state, Offset + n, found) /\ DataLeft(o.state) = DataLeft(state)
  <2>1. /\ n <= state.rem /\ AllZero(Ahead(n))
        /\ o.state = IF n < state.rem THEN ReceivingEof(state.rem - n) ELSE ReceivedEof
    BY <1>1, <1>8, PartOfEof
  <2>2. state = ReceivingEof(state.rem) /\ state.rem \in 1 .. BlockSize
    BY <1>4, <1>8, Canonical DEF GoodState
  <2>3. EmptyNext(Offset, n)
    BY <1>5, <2>1
  <2> HIDE DEF n, o
  <2>4. Placed(ReceivingEof(state.rem), Offset, found)
    BY <1>4, <2>2
  <2>5. Placed(o.state, Offset + n, found)
    BY <1>4, <2>1, <2>2, <2>3, <2>4, PlacedEof
  <2>6. DataLeft(o.state) = 0
    BY <2>1, TagsOf DEF DataLeft
  <2> QED
    BY <1>8, <2>5, <2>6 DEF DataLeft
<1>9. ASSUME state.tag = "ExpectingHeader"
      PROVE  Placed(o.state, Offset + n, found) /\ DataLeft(o.state) = DataLeft(state)
  <2>1. n = 0 /\ o.state = ReceivingHeader(BlockSize, TRUE)
    BY <1>1, <1>9, BeforeHeader
  <2>2. state = ExpectingHeader /\ Offset + n = Offset
    BY <1>4, <1>9, <2>1, Canonical
  <2> HIDE DEF n, o
  <2>3. Placed(o.state, Offset + n, found)
    BY <1>4, <2>1, <2>2, PlacedBefore
  <2>4. DataLeft(o.state) = 0
    BY <2>1, HandleStates
  <2> QED
    BY <1>9, <2>3, <2>4 DEF DataLeft
<1>10. state.tag \in {"ReceivingHeader", "AligningData", "ReceivingEof", "ExpectingHeader"}
  <2>1. state.tag \in Tags /\ state.tag \notin Markers /\ state.tag # "ReceivedEof"
    BY <1>1, NextTurnFacts DEF GoodState, StateType
  <2>2. state.tag # "ReceivingData"
    <3>1. ASSUME state.tag = "ReceivingData" PROVE FALSE
      <4>1. AfterNext = NextReceivingData(state, Unread)
        BY <3>1 DEF AfterNext, TarNext
      <4>2. AfterNext.state.tag \in {"ReceivingData", "ReceivedData"}
        BY <4>1 DEF NextReceivingData, Result, ReceivingData, ReceivedData, St
      <4> QED
        BY <1>2, <4>2
    <3> QED
      BY <3>1
  <2> QED
    BY <2>1, <2>2 DEF Tags, Markers
<1> HIDE DEF n, o
<1> QED
  BY <1>1, <1>3, <1>6, <1>7, <1>8, <1>9, <1>10, PassPlace

(* A header that ends is that of the next entry, from which the block in   *)
(* the buffer differs if the header was begun in an earlier read.          *)
LEMMA HeaderIsNext ==
  ASSUME IInv, PInv, NextEntryTurn, AfterNext.state = ReceivedHeader
  PROVE  /\ found + 1 \in 1 .. Len(hdrs)
         /\ state.rem \in 1 .. BlockSize /\ state = ReceivingHeader(state.rem, state.empty)
         /\ Placed(ReceivingHeader(state.rem, state.empty), Offset, found)
         /\ Offset = Start(found + 1) + (BlockSize - state.rem)
<1>1. /\ state.tag = "ReceivingHeader" /\ state = ReceivingHeader(state.rem, state.empty)
      /\ state.rem \in 1 .. BlockSize /\ state.empty \in BOOLEAN
      /\ AfterNext.n \in 0 .. Len(Unread) /\ AfterNext.n = state.rem
      /\ ~ (state.empty /\ AllZero(Ahead(AfterNext.n)))
  BY HeaderEnds
<1>2. /\ hdrs \in Archives /\ found \in 0 .. Len(hdrs) /\ SourceInv
      /\ Offset \in Nat /\ Len(hdrs) \in Nat
      /\ Offset + state.rem <= Len(bytes) /\ BlockSize \in Nat
  BY <1>1, PlaceFacts, ReaderFacts DEF PInv
<1>3. Placed(ReceivingHeader(state.rem, state.empty), Offset, found)
  BY <1>1 DEF PInv
<1>4. /\ Offset = Start(found + 1) + (BlockSize - state.rem)
      /\ EmptyUpTo(found, Offset) <=> state.empty = TRUE
  BY <1>3, HeaderPlace, Zenon
<1>5. ASSUME found = Len(hdrs) PROVE FALSE
  <2>1. Start(found + 1) \in Nat
    <3>1. found + 1 \in 1 .. Len(hdrs) + 1
      BY <1>2
    <3> QED
      BY <1>2, <3>1, StartFacts
  <2> DEFINE p == Start(found + 1)
  <2>2. \A i \in 1 .. BlockSize : p + i <= Len(bytes) => bytes[p + i] = ZeroByte
    BY <1>2, <1>5, SourceAt
  <2>3. Offset = p + (BlockSize - state.rem) /\ p \in Nat /\ Len(bytes) \in Nat
        /\ state.rem \in Nat
    BY <1>1, <1>4, <2>1, PlaceFacts
  <2> HIDE DEF p
  <2>4. ASSUME NEW i \in p + 1 .. Offset + state.rem PROVE bytes[i] = ZeroByte
    <3>1. i - p \in 1 .. BlockSize /\ p + (i - p) = i /\ i <= Len(bytes)
      BY <1>1, <1>2, <2>3
    <3> QED
      BY <2>2, <3>1
  <2>5. EmptyUpTo(found, Offset)
    <3>1. \A i \in p + 1 .. Offset : i \in p + 1 .. Offset + state.rem
      BY <1>1, <1>2, <2>3
    <3> QED
      BY <2>4, <3>1 DEF EmptyUpTo, p
  <2>6. EmptyNext(Offset, state.rem)
    <3>1. \A i \in Offset + 1 .. Offset + state.rem : i \in p + 1 .. Offset + state.rem
      BY <1>1, <1>2, <2>3
    <3> QED
      BY <2>4, <3>1 DEF EmptyNext
  <2>7. AllZero(Ahead(state.rem))
    BY <1>1, <2>6, AheadZero
  <2> QED
    BY <1>1, <1>4, <2>5, <2>7
<1> QED
  BY <1>1, <1>2, <1>3, <1>4, <1>5

LEMMA BlockIs ==
  ASSUME IInv, PInv, NextEntryTurn, AfterNext.state = ReceivedHeader,
         BlockSize <= Len(Unread)
  PROVE  LET next == hdrs[found + 1]
         IN  /\ \A i \in 1 .. state.rem :
                  Ahead(BlockSize)[i] = HeaderByte(next, BlockSize - state.rem + i)
             /\ Len(Ahead(BlockSize)) = BlockSize /\ Ahead(BlockSize) \in Seq(Byte)
             /\ next \in HeaderType /\ next.lead < BlockSize
<1> DEFINE next == hdrs[found + 1]
           b    == Ahead(BlockSize)
           p    == Start(found + 1)
           r    == state.rem
<1>1. /\ found + 1 \in 1 .. Len(hdrs) /\ r \in 1 .. BlockSize
      /\ Offset = p + (BlockSize - r)
  BY HeaderIsNext
<1>2. hdrs \in Archives /\ SourceInv /\ BlockSize \in 0 .. Len(Unread) /\ BlockSize \in Nat
  BY PlaceFacts, ReaderFacts DEF PInv
<1>3. /\ \A i \in 1 .. BlockSize : b[i] = bytes[Offset + i]
      /\ Len(b) = BlockSize /\ b \in Seq(Byte)
      /\ Offset + BlockSize <= Len(bytes) /\ Offset \in Nat /\ Len(bytes) \in Nat
  BY <1>2, PlaceFacts
<1>4. /\ p \in Nat /\ next \in HeaderType /\ EntryLen(next) >= BlockSize
      /\ EntryLen(next) \in Nat
  <2>1. found + 1 \in 1 .. Len(hdrs) + 1
    BY <1>1, PlaceFacts
  <2> QED
    BY <1>1, <1>2, <2>1, StartFacts
<1>5. next.lead < BlockSize
  BY <1>1, <1>2, HeadersAssumption
<1> DEFINE len == EntryLen(next)
<1>6. \A i \in 1 .. len : p + i <= Len(bytes) => bytes[p + i] = EntryByte(next, i)
  BY <1>1, <1>2, SourceAt
<1>7. len \in Nat /\ len >= BlockSize
  BY <1>4
<1> HIDE DEF next, b, p, r, len
<1>8. ASSUME NEW i \in 1 .. r PROVE b[i] = HeaderByte(next, BlockSize - r + i)
  <2>1. /\ BlockSize - r + i \in 1 .. len /\ BlockSize - r + i <= BlockSize
        /\ p + (BlockSize - r + i) = Offset + i /\ Offset + i <= Len(bytes)
        /\ i \in 1 .. BlockSize
    BY <1>1, <1>2, <1>3, <1>4, <1>7
  <2>2. bytes[p + (BlockSize - r + i)] = EntryByte(next, BlockSize - r + i)
    BY <1>6, <2>1
  <2>3. b[i] = bytes[Offset + i]
    BY <1>3, <2>1
  <2> QED
    BY <2>1, <2>2, <2>3 DEF EntryByte
<1> QED
  BY <1>3, <1>4, <1>5, <1>8 DEF next, b, r

LEMMA HeaderFound ==
  ASSUME IInv, PInv, NextEntryTurn, AfterNext.state = ReceivedHeader,
         BlockSize <= Len(Unread)
  PROVE  /\ \A h \in HeadersIn(Ahead(BlockSize)) : h = hdrs[found + 1]
         /\ state.rem = BlockSize /\ hdrs[found + 1].sum = "ok" =>
              hdrs[found + 1] \in HeadersIn(Ahead(BlockSize))
<1> DEFINE next == hdrs[found + 1]
           b    == Ahead(BlockSize)
           r    == state.rem
<1>1. /\ \A i \in 1 .. r : b[i] = HeaderByte(next, BlockSize - r + i)
      /\ Len(b) = BlockSize /\ b \in Seq(Byte)
      /\ next \in HeaderType /\ next.lead < BlockSize
  BY BlockIs
<1>2. found + 1 \in 1 .. Len(hdrs) /\ r \in 1 .. BlockSize /\ hdrs \in Archives
  BY HeaderIsNext, PlaceFacts
<1>3. BlockSize \in Nat /\ BlockSize > 0
  BY ReaderFacts
<1>4. ASSUME NEW h \in HeadersIn(b) PROVE h = next
  <2>1. PICK k \in 1 .. Len(hdrs) : h = hdrs[k]
    BY <1>4 DEF HeadersIn
  <2>2. b = HeaderBytes(h)
    BY <1>4 DEF HeadersIn, IsHeader
  <2> HIDE DEF b, r
  <2>3. b[r] = HeaderByte(h, r)
    BY <1>2, <2>2 DEF HeaderBytes
  <2>4. b[r] = HeaderByte(next, BlockSize)
    <3>1. r \in 1 .. r /\ BlockSize - r + r = BlockSize
      BY <1>2, <1>3
    <3> QED
      BY <1>1, <3>1
  <2>5. HeaderByte(next, BlockSize) = <<"hdr", next.id, BlockSize>>
    <3>1. next.lead \in Nat /\ ~ (BlockSize <= next.lead)
      BY <1>1, <1>3 DEF HeaderType
    <3> QED
      BY <3>1 DEF HeaderByte
  <2>6. h.id = next.id
    BY <2>3, <2>4, <2>5 DEF HeaderByte, ZeroByte
  <2> QED
    BY <1>2, <2>1, <2>6, HeadersAssumption
<1>5. ASSUME r = BlockSize, next.sum = "ok" PROVE next \in HeadersIn(b)
  <2> HIDE DEF b, r, next
  <2>1. ASSUME NEW i \in 1 .. BlockSize PROVE b[i] = HeaderByte(next, i)
    <3>1. i \in 1 .. r /\ BlockSize - r + i = i
      BY <1>3, <1>5
    <3> QED
      BY <1>1, <3>1
  <2>2. b = HeaderBytes(next)
    <3>1. b = [i \in 1 .. Len(b) |-> b[i]]
      BY <1>1
    <3> QED
      BY <1>1, <2>1, <3>1 DEF HeaderBytes
  <2>3. next \in {hdrs[k] : k \in 1 .. Len(hdrs)}
    BY <1>2 DEF next
  <2> QED
    BY <1>5, <2>2, <2>3 DEF HeadersIn, IsHeader
<1> QED
  BY <1>4, <1>5

LEMMA OpensPlace ==
  ASSUME IInv, PInv, NoStaleHandles, NextEntryOpens
  PROVE  PInv'
<1> DEFINE n == AfterNext.n
<1>1. /\ NextEntryTurn /\ AfterNext.state = ReceivedHeader /\ AfterNext.err = "none"
      /\ UNCHANGED <<source, fed, lent>>
  BY DEF NextEntryOpens
<1>2. CASE UNCHANGED <<archive, entry, older, found, got>>
  BY <1>1, <1>2, PlaceStays
<1>3. ASSUME BlockSize <= Len(Unread), NEW h \in HeadersIn(Ahead(BlockSize)), NEW o,
             o = Consumed(state, Ahead(n), h), Opens(h, o, n)
      PROVE  PInv'
  <2>1. /\ found + 1 \in 1 .. Len(hdrs) /\ state.rem \in 1 .. BlockSize
        /\ Placed(ReceivingHeader(state.rem, state.empty), Offset, found)
    BY <1>1, HeaderIsNext
  <2>2. h = hdrs[found + 1]
    BY <1>1, <1>3, HeaderFound
  <2>3. /\ hdrs \in Archives /\ found \in 0 .. Len(hdrs) - 1 /\ Len(hdrs) \in Nat
        /\ h \in HeaderType /\ h \in Header /\ h # NoHeader /\ found \in Nat
    <3>1. h \in Handles
      BY <2>1, <2>2 DEF Handles
    <3>2. h \in HeaderType /\ h \in Header /\ h # NoHeader
      BY <3>1, NowFacts, HandlesAreHeaders, Zenon
    <3>3. hdrs \in Archives /\ Len(hdrs) \in Nat /\ found \in 0 .. Len(hdrs)
      BY PlaceFacts
    <3> QED
      BY <2>1, <3>2, <3>3
  <2>4. n \in 0 .. Len(Unread) /\ n = state.rem
    BY <1>1, HeaderEnds
  <2>5. IF h.size = BadSize THEN o.panic = "size"
        ELSE o = [state |-> ReceivingData(h.size), panic |-> "none"]
    BY <1>1, <1>3, <2>3, HeaderEnds
  <2>6. CASE o.panic # "none"
    <3>1. UNCHANGED <<archive, entry, older, found, got>>
      BY <1>3, <2>6 DEF Opens, Consume
    <3> QED
      BY <1>2, <3>1
  <2>7. CASE o.panic = "none"
    <3>1. h.size # BadSize /\ h.size \in Nat
      BY <2>3, <2>5, <2>7 DEF HeaderType
    <3>2. o.state = ReceivingData(h.size) /\ StateOK(o.state) /\ DataLeft(o.state) = h.size
      BY <2>5, <3>1, HandleStates
    <3>3. Consume(o, n) /\ entry' = h /\ found' = found + 1 /\ got' = <<>>
      BY <1>3, <2>7 DEF Opens
    <3> HIDE DEF n
    <3>4. /\ state' = o.state /\ Offset' = Offset + n /\ Offset' \in Nat
          /\ Window' /\ SourceInv'
      BY <1>1, <2>4, <2>7, <3>2, <3>3, MovesOn
    <3>5. Placed(ReceivingData(h.size), Offset + n, found + 1)
      BY <2>1, <2>2, <2>3, <2>4, <3>1, PlacedOpens
    <3>6. Placed(state, Offset, found)'
      BY <1>1, <3>2, <3>3, <3>4, <3>5, PlacedThen
    <3>7. hdrs' = hdrs /\ Len(got') = 0 /\ hdrs'[found'] = h /\ found' > 0
      BY <1>1, <2>2, <2>3, <3>3 DEF source
    <3>8. DataLeft(state') = h.size
      BY <3>2, <3>4
    <3>9. GotInv'
      BY <3>1, <3>7, <3>8 DEF GotInv
    <3>10. OwnInv' /\ found' <= Len(hdrs')
      BY <2>1, <3>3, <3>7 DEF OwnInv
    <3> QED
      BY <3>4, <3>6, <3>9, <3>10 DEF PInv
  <2> QED
    BY <2>6, <2>7
<1>4. Len(Unread) \in Nat /\ BlockSize \in Nat
  BY NowFacts, ReaderFacts
<1>5. CASE Len(Unread) < BlockSize
  BY <1>2, <1>5 DEF NextEntryOpens
<1>6. CASE ~ (Len(Unread) < BlockSize) /\ HeadersIn(Ahead(BlockSize)) = {}
  BY <1>2, <1>6 DEF NextEntryOpens
<1>7. CASE ~ (Len(Unread) < BlockSize) /\ HeadersIn(Ahead(BlockSize)) # {}
  <2>1. BlockSize <= Len(Unread)
    BY <1>4, <1>7
  <2>2. PICK h \in HeadersIn(Ahead(BlockSize)) :
          \E o \in {Consumed(state, Ahead(n), h)} : Opens(h, o, n)
    BY <1>7 DEF NextEntryOpens
  <2> QED
    BY <1>3, <2>1, <2>2
<1> QED
  BY <1>5, <1>6, <1>7

-----------------------------------------------------------------------------
(* Every step.                                                             *)
LEMMA InitPlace ==
  ASSUME Init
  PROVE  PInv
<1>1. /\ fed = 0 /\ state = ExpectingHeader /\ data = <<>> /\ pos = 0
      /\ entry = NoHeader /\ found = 0 /\ got = <<>> /\ hdrs \in Archives
  BY DEF Init
<1>2. SourceInv
  <2>1. PICK end \in Ends :
          \E n \in IF Truncated THEN 0 .. Len(EntriesBytes(hdrs) \o end)
                   ELSE {Len(EntriesBytes(hdrs) \o end)} :
            bytes = SubSeq(EntriesBytes(hdrs) \o end, 1, n)
    BY DEF Init
  <2>2. Len(EntriesBytes(hdrs) \o end) \in Nat
    <3>1. EntriesBytes(hdrs) \in Seq(Byte)
      BY <1>1, StartFacts, LaidType DEF EntriesBytes
    <3> QED
      BY <3>1, EndsAssumption, ConcatProperties, LenProperties
  <2>3. (IF Truncated THEN 0 .. Len(EntriesBytes(hdrs) \o end)
         ELSE {Len(EntriesBytes(hdrs) \o end)}) \subseteq 0 .. Len(EntriesBytes(hdrs) \o end)
    BY <2>2
  <2> QED
    BY <2>1, <2>3 DEF SourceInv
<1>3. Unread = <<>> /\ Len(Unread) = 0
  BY <1>1, SubSeqEmpty DEF Unread
<1>4. Offset = 0 /\ Offset \in Nat
  <2>1. Offset = fed - Len(Unread)
    BY DEF Offset
  <2> QED
    BY <1>1, <1>3, <2>1
<1>5. Placed(state, Offset, found)
  <2>1. Start(0 + 1) + 0 = 0
    BY <1>1, StartFacts
  <2>2. Placed(ExpectingHeader, 0, 0)
    BY <2>1, NextPlace
  <2> QED
    BY <1>1, <1>4, <2>2
<1>6. Window
  BY <1>3 DEF Window
<1>7. found <= Len(hdrs) /\ GotInv /\ OwnInv
  BY <1>1, StartFacts DEF GotInv, OwnInv
<1> QED
  BY <1>2, <1>4, <1>5, <1>6, <1>7 DEF PInv

LEMMA NextPlaceInv ==
  ASSUME IInv, IInv', PInv, NoStaleHandles, SizesFit, [Next]_vars
  PROVE  PInv'
<1>1. CASE UNCHANGED vars
  BY <1>1, PlaceStays DEF vars, source, archive
<1>2. CASE FillStep
  <2>1. CASE FillStalls \/ FillEnds
    BY <2>1, PlaceStays DEF FillStalls, FillEnds, handle
  <2> QED
    BY <1>2, <2>1, FillPlace DEF FillStep
<1>3. CASE NextEntryStep
  <2>1. CASE NextEntryOver \/ NextEntryFails \/ NextEntryOverlaps
    BY <2>1, PlaceStays DEF NextEntryOver, NextEntryFails, NextEntryOverlaps, handle
  <2> QED
    BY <1>3, <2>1, OpensPlace, MovesPlace DEF NextEntryStep
<1>4. CASE Task
  <2>1. CASE NextEntry \/ Fill \/ Skip \/ (\E n \in ReadSizes : Read(n)) \/ Cancel
    <3>1. UNCHANGED <<source, fed, archive, entry, found, got>>
      BY <2>1 DEF NextEntry, Fill, Skip, Read, ReadCall, Begin, Cancel, handle
    <3> QED
      BY <3>1, PlaceStays
  <2>2. CASE DropEntry
    BY <2>2, PlaceStays DEF DropEntry
  <2>3. ASSUME NEW h \in Live, NEW amt \in 0 .. lent, ConsumeEntry(h, amt)
        PROVE  PInv'
    <3>1. h = entry /\ entry # NoHeader
      BY OneHandle
    <3>2. /\ Consume(Consumed(state, Ahead(amt), h), amt) /\ Takes(amt)
          /\ UNCHANGED <<source, fed>>
      BY <2>3 DEF ConsumeEntry
    <3>3. lent > 0 => state.tag = "ReceivingData" /\ lent <= state.rem
      BY DEF IInv, LentInv
    <3>4. /\ amt \in 0 .. Len(Unread)
          /\ IF state.tag = "ReceivingData" THEN amt <= state.rem ELSE amt = 0
      BY <3>3, NowFacts
    <3> QED
      BY <3>1, <3>2, <3>4, TakePlace
  <2> QED
    BY <1>4, <2>1, <2>2, <2>3 DEF Task
<1>5. CASE Wake
  BY <1>5, PlaceStays DEF Wake, handle
<1> QED
  BY <1>1, <1>2, <1>3, <1>4, <1>5, ReadPlace DEF Next, Step

-----------------------------------------------------------------------------
(* What the calls answer, in terms of the reader's place.                  *)
AnsInv ==
  /\ ret.res = "none" /\ ret.op # "none" =>
       state.tag = "ReceivedEof" /\ entry = NoHeader
  /\ ret.res = "eof" => fed = Len(bytes) /\ fed < Start(Len(hdrs) + 1) + EofLen
  /\ ret.res = "badheader" /\ poll = "idle" /\ panic = "none" =>
       /\ entry = NoHeader
       /\ hdrs[found + 1].sum # "ok" \/ state.rem < BlockSize
  /\ ret.res = "baddata" => ~ EndIsEmpty

(* The end of the archive, with and without its marker.                    *)
LEMMA EndsAt ==
  ASSUME hdrs \in Archives
  PROVE  /\ Len(EntriesBytes(hdrs)) = Start(Len(hdrs) + 1)
         /\ Len(ArchiveBytes(hdrs)) = Start(Len(hdrs) + 1) + EofLen
         /\ Start(Len(hdrs) + 1) \in Nat /\ EofLen \in Nat /\ EofLen = 2 * BlockSize
<1>1. /\ hdrs \in Seq(HeaderType) /\ Len(hdrs) \in Nat
      /\ Len(hdrs) + 1 \in 1 .. Len(hdrs) + 1
      /\ Len(EntriesBytes(hdrs)) = Start(Len(hdrs) + 1)
      /\ EofLen = 2 * BlockSize /\ EofLen \in Nat
  BY StartFacts, ReaderFacts DEF EofLen
<1>2. EntriesBytes(hdrs) \in Seq(Byte)
  BY <1>1, LaidType DEF EntriesBytes
<1>3. Zeros(EofLen) \in Seq(Byte) /\ Len(Zeros(EofLen)) = EofLen
  <2>1. \A i \in 1 .. EofLen : ZeroByte \in Byte
    BY DEF ZeroByte, Byte
  <2>2. Zeros(EofLen) \in Seq(Byte)
    BY <1>1, <2>1, IsASeq DEF Zeros
  <2> QED
    BY <1>1, <2>2 DEF Zeros
<1> DEFINE all == EntriesBytes(hdrs)
           z   == Zeros(EofLen)
<1> HIDE DEF all, z
<1>4. Len(all \o z) = Len(all) + Len(z)
  BY <1>2, <1>3, ConcatProperties DEF all, z
<1>5. Len(ArchiveBytes(hdrs)) = Start(Len(hdrs) + 1) + EofLen
  BY <1>1, <1>3, <1>4 DEF ArchiveBytes, all, z
<1> QED
  BY <1>1, <1>5, StartFacts

(* State is before the end of the archive unless it is at the end.         *)
LEMMA BeforeEnd ==
  ASSUME IInv, PInv, state.tag # "ReceivedEof"
  PROVE  Offset < Start(Len(hdrs) + 1) + EofLen
<1> DEFINE end == Start(Len(hdrs) + 1)
<1>1. /\ hdrs \in Archives /\ found \in 0 .. Len(hdrs) /\ Placed(state, Offset, found)
      /\ GoodState(state) /\ state.rem \in Nat /\ state.tag \in Tags /\ state.tag \notin Markers
  BY PlaceFacts, NowFacts DEF PInv, StateOK, GoodState, StateType
<1>2. end \in Nat /\ EofLen = 2 * BlockSize /\ BlockSize \in Nat /\ BlockSize > 0
  BY <1>1, EndsAt, ReaderFacts
<1>3. ASSUME NEW k \in 1 .. Len(hdrs)
      PROVE  /\ Start(k) \in Nat /\ Start(k) + EntryLen(hdrs[k]) <= end
             /\ EntryLen(hdrs[k]) \in Nat
  <2>1. k \in 1 .. Len(hdrs) + 1 /\ k + 1 \in 1 .. Len(hdrs) + 1
    BY <1>1, StartFacts
  <2> QED
    BY <1>1, <2>1, StartFacts
<1>4. Start(found + 1) \in Nat /\ Start(found + 1) <= end
  <2>1. found + 1 \in 1 .. Len(hdrs) + 1
    BY <1>1, StartFacts
  <2> QED
    BY <1>1, <2>1, StartFacts
<1> HIDE DEF end
<1>5. CASE state.tag = "ReceivingData"
  <2>1. Placed(ReceivingData(state.rem), Offset, found)
    BY <1>1, <1>5, Canonical
  <2>2. found > 0 /\ Offset = Start(found) + (BlockSize + hdrs[found].size - state.rem)
    BY <2>1, DataPlace, Zenon
  <2>3. found \in 1 .. Len(hdrs) /\ hdrs[found] \in HeaderType /\ hdrs[found].size \in Nat
    BY <1>1, <2>2, PlaceFacts, StartFacts DEF PInv, GotInv
  <2>4. /\ EntryLen(hdrs[found]) = BlockSize + hdrs[found].size + Align(hdrs[found].size)
        /\ Align(hdrs[found].size) \in Nat
    BY <2>3, EntryLenFacts
  <2> DEFINE size == hdrs[found].size
             len  == EntryLen(hdrs[found])
             p    == Start(found)
  <2>5. /\ size \in Nat /\ Align(size) \in Nat /\ len = BlockSize + size + Align(size)
        /\ p \in Nat /\ p + len <= end /\ Offset = p + (BlockSize + size - state.rem)
    BY <1>3, <2>2, <2>3, <2>4
  <2> HIDE DEF size, len, p
  <2> DEFINE a == Align(size)
             r == state.rem
  <2>7. /\ size \in Nat /\ a \in Nat /\ len = BlockSize + size + a /\ p \in Nat
        /\ p + len <= end /\ Offset = p + (BlockSize + size - r)
        /\ r \in Nat /\ BlockSize \in Nat /\ BlockSize > 0
    BY <1>1, <1>2, <2>5, ReaderFacts
  <2> HIDE DEF a, r
  <2>8. Offset <= p + len /\ Offset \in Int
    BY <2>7
  <2>6. Offset < end + 2 * BlockSize
    BY <1>2, <2>7, <2>8
  <2> QED
    BY <1>2, <2>6 DEF end
<1>6. CASE state.tag = "AligningData"
  <2>1. Placed(AligningData(state.rem), Offset, found)
    BY <1>1, <1>6, Canonical
  <2>2. found > 0 /\ Offset = Start(found) + (EntryLen(hdrs[found]) - state.rem)
    BY <2>1, AlignPlace, Zenon
  <2>3. found \in 1 .. Len(hdrs)
    BY <2>2, PlaceFacts
  <2> DEFINE len  == EntryLen(hdrs[found])
             p    == Start(found)
  <2>5. /\ len \in Nat /\ p \in Nat /\ p + len <= end /\ Offset = p + (len - state.rem)
    BY <1>3, <2>2, <2>3
  <2> HIDE DEF len, p
  <2>6. Offset < end + 2 * BlockSize
    BY <1>1, <1>2, <2>5
  <2> QED
    BY <1>2, <2>6 DEF end
<1>7. CASE state.tag = "ExpectingHeader"
  <2>1. Offset = Start(found + 1) + 0
    BY <1>1, <1>7, Canonical, NextPlace, Zenon
  <2>2. Offset < end + 2 * BlockSize
    BY <1>2, <1>4, <2>1
  <2> QED
    BY <1>2, <2>2 DEF end
<1>8. CASE state.tag = "ReceivingHeader"
  <2>1. Placed(ReceivingHeader(state.rem, state.empty), Offset, found)
    BY <1>1, <1>8, Canonical
  <2>2. Offset = Start(found + 1) + (BlockSize - state.rem)
    BY <2>1, HeaderPlace, Zenon
  <2>3. Offset < end + 2 * BlockSize
    BY <1>1, <1>2, <1>4, <2>2
  <2> QED
    BY <1>2, <2>3 DEF end
<1>9. CASE state.tag = "ReceivingEof"
  <2>1. Placed(ReceivingEof(state.rem), Offset, found) /\ state.rem \in 1 .. BlockSize
    BY <1>1, <1>9, Canonical DEF GoodState
  <2>2. Offset = Start(found + 1) + (EofLen - state.rem)
    BY <2>1, EofPlace, Zenon
  <2>3. Offset < end + 2 * BlockSize
    BY <1>2, <1>4, <2>1, <2>2
  <2> QED
    BY <1>2, <2>3 DEF end
<1> QED
  BY <1>1, <1>5, <1>6, <1>7, <1>8, <1>9 DEF Tags, Markers

(* The answer stays, or another one that has nothing to show.              *)
LEMMA AnswerStays ==
  ASSUME AnsInv, ret' = ret, UNCHANGED source, SourceOK, SourceOK', fed <= fed',
         poll' = "idle" /\ panic' = "none" => poll = "idle" /\ panic = "none",
         \/ UNCHANGED <<state, entry, found>>
         \/ entry # NoHeader
         \/ state.tag # "ReceivedEof" /\ (poll' # "idle" \/ panic' # "none")
  PROVE  AnsInv'
<1>1. hdrs' = hdrs /\ bytes' = bytes /\ fed \in Nat /\ fed' \in Nat
      /\ fed' <= Len(bytes) /\ Len(bytes) \in Nat /\ fed <= Len(bytes)
  BY LenProperties DEF source, SourceOK
<1>2. ret.res = "none" /\ ret.op # "none" => state'.tag = "ReceivedEof" /\ entry' = NoHeader
  BY DEF AnsInv
<1>3. ret.res = "eof" => fed' = Len(bytes) /\ fed' < Start(Len(hdrs) + 1) + EofLen
  <2>1. ASSUME fed = Len(bytes) PROVE fed' = fed
    BY <1>1, <2>1
  <2> QED
    BY <2>1 DEF AnsInv
<1>4. ret.res = "badheader" /\ poll' = "idle" /\ panic' = "none" =>
        /\ entry' = NoHeader
        /\ hdrs[found' + 1].sum # "ok" \/ state'.rem < BlockSize
  BY DEF AnsInv
<1>5. ret.res = "baddata" => ~ EndIsEmpty'
  <2>1. EndIsEmpty' => EndIsEmpty
    <3> DEFINE a == Len(EntriesBytes(hdrs)) + 1
               z == Len(ArchiveBytes(hdrs))
    <3> SUFFICES ASSUME \A i \in a .. z : i <= fed' => bytes[i] = ZeroByte,
                        NEW i \in a .. z, i <= fed
                 PROVE  bytes[i] = ZeroByte
      BY <1>1 DEF EndIsEmpty
    <3> HIDE DEF a, z
    <3>1. i \in Int
      OBVIOUS
    <3>2. i <= fed'
      BY <1>1, <3>1
    <3> QED
      BY <3>2
  <2> QED
    BY <2>1 DEF AnsInv
<1>6. Start(Len(hdrs) + 1)' = Start(Len(hdrs) + 1)
  BY <1>1 DEF Start
<1> QED
  BY <1>1, <1>2, <1>3, <1>4, <1>5, <1>6 DEF AnsInv

LEMMA AnswerPlain ==
  ASSUME NEW res \in {"ok", "entry", "ioerror", "cancelled"}, NEW n, Return(res, n)
  PROVE  AnsInv'
<1>1. ret'.res = res
  BY DEF Return
<1> QED
  BY <1>1 DEF AnsInv

LEMMA SettlesAnswer ==
  ASSUME IInv, IInv', AnsInv, UNCHANGED <<source, fed>>,
         NEW what, NEW n, ContinueUnless(what) \/ ReturnUnless(what, "ok", n),
         what # "none" => UNCHANGED <<state, entry, found>>,
         entry # NoHeader \/ (state.tag # "ReceivedEof" /\ poll # "idle")
  PROVE  AnsInv'
<1>1. SourceOK /\ SourceOK' /\ fed <= fed'
  BY NowFacts DEF SourceOK, source
<1>2. CASE Continue
  BY <1>1, <1>2, AnswerStays DEF Continue, control
<1>3. CASE Return("ok", n)
  BY <1>3, AnswerPlain
<1>4. CASE what # "none" /\ Panic(what)
  BY <1>1, <1>4, AnswerStays DEF Panic
<1> QED
  BY <1>2, <1>3, <1>4 DEF ContinueUnless, ReturnUnless

LEMMA ReadAnswer ==
  ASSUME IInv, IInv', SizesFit, AnsInv, ReadStep
  PROVE  AnsInv'
<1>1. ASSUME ReadTurn PROVE AfterRead.err = "none" /\ entry # NoHeader
  <2>1. /\ entry # NoHeader
        /\ state.tag \in {"ReceivingData", "AligningData", "ExpectingHeader",
                          "ReceivingHeader"}
    BY <1>1, ReadTurnFacts DEF OfHandle, ReceivingHeader, St
  <2>2. CASE state.tag = "ReceivingData"
    BY <1>1, <2>1, <2>2, AfterReadIs
  <2>3. CASE state.tag = "AligningData"
    BY <1>1, <2>1, <2>3, AfterReadIs DEF Result
  <2>4. CASE state.tag \in {"ExpectingHeader", "ReceivingHeader"}
    BY <2>1, <2>4 DEF AfterRead, TarNext, NextReceivingHeader, Result
  <2> QED
    BY <2>1, <2>2, <2>3, <2>4
<1>2. SourceOK /\ SourceOK'
  BY NowFacts DEF IInv, TypeOK, SourceOK
<1>3. CASE Lends
  BY <1>3, AnswerPlain DEF Lends
<1>4. CASE Reads
  <2>1. PICK o : ReturnUnless(o.panic, "ok", ReadLen) /\ Consume(o, ReadLen)
    BY <1>4 DEF Reads
  <2>2. UNCHANGED <<source, fed, entry, found>> /\ ReadTurn
    BY <1>4 DEF Reads, Takes, HasData
  <2>3. o.panic # "none" => UNCHANGED <<state, entry, found>>
    BY <2>1, <2>2 DEF Consume, archive
  <2> QED
    BY <1>1, <2>1, <2>2, <2>3, SettlesAnswer
<1>5. CASE Skips
  <2>1. UNCHANGED <<source, fed, entry, found>> /\ ReadTurn
    BY <1>5 DEF Skips, Takes, HasData
  <2>2. fed <= fed'
    BY <1>2, <2>1 DEF SourceOK
  <2>3. CASE Panic("skip") /\ UNCHANGED archive
    BY <1>1, <1>2, <2>1, <2>2, <2>3, AnswerStays DEF Panic
  <2>4. CASE AfterRead.n # 0
    <3>1. PICK o : ContinueUnless(o.panic) /\ Consume(o, AfterRead.n)
      BY <1>5, <2>4 DEF Skips
    <3>2. o.panic # "none" => UNCHANGED <<state, entry, found>>
      BY <2>1, <3>1 DEF Consume, archive
    <3> QED
      BY <1>1, <2>1, <3>1, <3>2, SettlesAnswer
  <2> QED
    BY <1>5, <2>3, <2>4 DEF Skips
<1>6. CASE ReadAligns
  <2>1. PICK o : ContinueUnless(o.panic) /\ Consume(o, AfterRead.n)
    BY <1>6 DEF ReadAligns
  <2>2. UNCHANGED <<source, fed, entry, found>> /\ ReadTurn
    BY <1>6 DEF ReadAligns, handle
  <2>3. o.panic # "none" => UNCHANGED <<state, entry, found>>
    BY <2>1, <2>2 DEF Consume, archive
  <2> QED
    BY <1>1, <2>1, <2>2, <2>3, SettlesAnswer
<1>7. CASE ReadEnds
  <2>1. PICK o : /\ Consume(o, AfterRead.n)
                 /\ Panic("skip") \/ ReturnUnless(o.panic, "ok", 0)
    BY <1>7 DEF ReadEnds
  <2>2. UNCHANGED <<source, fed, entry, found>> /\ ReadTurn
    BY <1>7 DEF ReadEnds, handle
  <2>3. o.panic # "none" => UNCHANGED <<state, entry, found>>
    BY <2>1, <2>2 DEF Consume, archive
  <2>4. CASE Panic("skip")
    <3>1. fed <= fed'
      BY <1>2, <2>2 DEF SourceOK
    <3> QED
      BY <1>1, <1>2, <2>2, <2>4, <3>1, AnswerStays DEF Panic
  <2>5. CASE ReturnUnless(o.panic, "ok", 0)
    BY <1>1, <2>2, <2>3, <2>5, SettlesAnswer
  <2> QED
    BY <2>1, <2>4, <2>5
<1>8. CASE ReadRefused
  <2>1. ReadTurn /\ Panic("unreachable") /\ UNCHANGED <<source, fed, state, entry, found>>
    BY <1>1, <1>8 DEF ReadRefused, archive, handle
  <2>2. fed <= fed'
    BY <1>2, <2>1 DEF SourceOK
  <2> QED
    BY <1>2, <2>1, <2>2, AnswerStays DEF Panic
<1>9. CASE ReadNothing
  BY <1>9, AnswerPlain DEF ReadNothing
<1> QED
  BY <1>3, <1>4, <1>5, <1>6, <1>7, <1>8, <1>9 DEF ReadStep

(* The end of the source is one of a part of an archive.                   *)
LEMMA FillAnswer ==
  ASSUME IInv, IInv', PInv, SizesFit, AnsInv, FillStep
  PROVE  AnsInv'
<1>1. SourceOK /\ SourceOK' /\ Fills
  BY NowFacts DEF IInv, TypeOK, SourceOK, FillStep, FillBuf, FillStalls, FillEnds
<1>2. CASE FillBuf
  <2>1. fed <= fed'
    <3>1. PICK n \in IF ShortReads THEN 1 .. FillLen ELSE {FillLen} : fed' = fed + n
      BY <1>2 DEF FillBuf
    <3>2. Left \in Nat /\ Room \in Int /\ Left > 0 /\ Room > 0
      BY <1>1, <1>2, LenProperties, NowFacts, ReaderFacts
         DEF FillBuf, Left, Room, SourceOK, StoreOK
    <3>3. n \in Nat
      BY <3>2 DEF FillLen
    <3>4. fed \in Nat
      BY <1>1 DEF SourceOK
    <3> QED
      BY <3>1, <3>3, <3>4
  <2>2. UNCHANGED <<source, control, state, entry, found>>
    BY <1>2 DEF FillBuf, handle
  <2> QED
    BY <1>1, <2>1, <2>2, AnswerStays DEF control
<1>3. CASE FillStalls
  <2>1. PICK res \in IoFaults : Leave(res)
    BY <1>3, ReaderFacts DEF FillStalls
  <2>2. CASE Return("ioerror", 0)
    BY <2>2, AnswerPlain
  <2>3. CASE res = "pending"
    <3>1. /\ ret' = ret /\ poll' = "parked" /\ UNCHANGED <<source, fed, state, entry, found>>
      BY <1>3, <2>1, <2>3 DEF FillStalls, Leave, archive, handle
    <3>2. fed <= fed'
      BY <1>1, <3>1 DEF SourceOK
    <3> QED
      BY <1>1, <3>1, <3>2, AnswerStays
  <2> QED
    BY <2>1, <2>2, <2>3 DEF Leave, IoFaults
<1>4. CASE FillEnds
  <2>1. data = <<>> /\ Room > 0 /\ UNCHANGED <<source, fed, archive, handle>>
    <3>1. data = <<>> /\ Len(data) = 0
      BY <1>1, NowFacts DEF Fills, StoreOK
    <3> QED
      BY <1>4, <3>1, ReaderFacts DEF FillEnds, Room
  <2>2. Left = 0 /\ Unread = <<>>
    BY <1>4, <2>1, ReaderFacts DEF FillEnds, Fills
  <2>3. ~ Terminal
    <3>1. CASE call.op = "next_entry"
      BY <1>1, <3>1 DEF Fills
    <3>2. CASE call.op # "next_entry"
      <4>1. entry # NoHeader
        BY <1>1, <3>2 DEF Fills, IInv, CallInv
      <4>2. OfHandle(state)
        BY <4>1, EntryFacts
      <4> QED
        BY <4>2 DEF OfHandle, Terminal, ReceivingHeader, St
    <3> QED
      BY <3>1, <3>2
  <2>4. Return("eof", 0)
    BY <1>4, <2>1, <2>3, ReaderFacts DEF FillEnds
  <2>5. fed = Len(bytes) /\ Offset = fed
    <3>1. Len(Unread) = 0 /\ fed \in Nat /\ Len(bytes) \in Nat
      BY <2>2, PlaceFacts
    <3> QED
      BY <2>2, <3>1, PlaceFacts DEF Left
  <2>6. fed < Start(Len(hdrs) + 1) + EofLen
    BY <2>3, <2>5, BeforeEnd DEF Terminal
  <2>7. fed' = fed /\ bytes' = bytes /\ hdrs' = hdrs
    BY <2>1 DEF source
  <2>8. Start(Len(hdrs) + 1)' = Start(Len(hdrs) + 1)
    BY <2>7 DEF Start
  <2>9. ret'.res = "eof"
    BY <2>4 DEF Return
  <2> QED
    BY <2>5, <2>6, <2>7, <2>8, <2>9 DEF AnsInv
<1> QED
  BY <1>2, <1>3, <1>4 DEF FillStep

(* The end marker that is refused has a byte that is not zero.             *)
LEMMA EndNotEmpty ==
  ASSUME IInv, PInv, NextEntryTurn, AfterNext.err # "none"
  PROVE  ~ EndIsEmpty
<1>1. state.tag = "ReceivingEof"
  <2>1. state.tag \in Tags /\ state.tag \notin Markers /\ state.tag # "ReceivedEof"
    BY NextTurnFacts DEF GoodState, StateType
  <2> QED
    BY <2>1 DEF Tags, Markers, AfterNext, TarNext, NextReceivingHeader,
       NextReceivingData, NextAligningData, Result
<1> DEFINE n == Advance(Unread, state.rem)
<1>2. /\ state = ReceivingEof(state.rem) /\ state.rem \in 1 .. BlockSize /\ state.rem \in Nat
      /\ Unread \in Seq(Byte) /\ BlockSize \in Nat
  BY <1>1, AfterEof, NextTurnFacts, ReaderFacts
<1>3. n \in 0 .. Len(Unread) /\ n <= state.rem
  BY <1>2, AdvanceFacts
<1>4. TarNext(ReceivingEof(state.rem), Unread, NoHeader) =
        IF ~ AllZero(Fronted(Unread, n))
        THEN Failure(ReceivingEof(state.rem), "ExpectingEmptyBlock")
        ELSE IF n < state.rem THEN Result(ReceivingEof(state.rem - n), n)
        ELSE Result(ReceivedEof, n)
  BY <1>2, NextEof
<1> HIDE DEF n
<1>5. ~ AllZero(Ahead(n))
  <2>1. CASE AllZero(Fronted(Unread, n))
    <3>1. AfterNext = IF n < state.rem THEN Result(ReceivingEof(state.rem - n), n)
                      ELSE Result(ReceivedEof, n)
      BY <1>2, <1>4, <2>1 DEF AfterNext
    <3> QED
      BY <3>1 DEF Result
  <2> QED
    BY <2>1 DEF Fronted, Ahead
<1>6. PICK i \in Offset + 1 .. Offset + n : bytes[i] # ZeroByte
  BY <1>3, <1>5, AheadZero DEF EmptyNext
<1>7. /\ Offset = Start(found + 1) + (EofLen - state.rem) /\ found = Len(hdrs)
  <2>1. Placed(ReceivingEof(state.rem), Offset, found)
    BY <1>2 DEF PInv
  <2> QED
    BY <2>1, EofPlace, Zenon
<1>8. /\ Offset \in Nat /\ Offset + n <= fed /\ fed \in Nat /\ n \in Nat
      /\ hdrs \in Archives
  <2>1. Offset + Len(Unread) = fed /\ Len(Unread) \in Nat /\ Offset \in Nat /\ fed \in Nat
    BY PlaceFacts
  <2> QED
    BY <1>3, <2>1, PlaceFacts
<1> DEFINE end == Start(Len(hdrs) + 1)
<1>9. /\ Len(EntriesBytes(hdrs)) = end /\ Len(ArchiveBytes(hdrs)) = end + EofLen
      /\ end \in Nat /\ EofLen = 2 * BlockSize /\ EofLen \in Nat
      /\ Offset = end + (EofLen - state.rem)
  BY <1>7, <1>8, EndsAt
<1> HIDE DEF end
<1>10. i \in end + 1 .. end + EofLen /\ i <= fed
  <2> DEFINE r == state.rem
  <2>1. /\ i \in Offset + 1 .. Offset + n /\ Offset = end + (EofLen - r)
        /\ Offset \in Nat /\ n \in Nat /\ n <= r /\ r \in Nat /\ r <= EofLen
        /\ end \in Nat /\ EofLen \in Nat /\ fed \in Nat /\ Offset + n <= fed
    BY <1>2, <1>3, <1>6, <1>8, <1>9
  <2> HIDE DEF r
  <2> QED
    BY <2>1
<1> QED
  BY <1>6, <1>9, <1>10 DEF EndIsEmpty

LEMMA NextAnswer ==
  ASSUME IInv, IInv', PInv, NoStaleHandles, AnsInv, NextEntryStep
  PROVE  AnsInv'
<1>1. SourceOK /\ SourceOK'
  BY NowFacts DEF IInv, TypeOK, SourceOK
<1>2. ASSUME NextEntryTurn
      PROVE  entry = NoHeader /\ state.tag # "ReceivedEof" /\ poll # "idle"
  BY <1>2, NextTurnFacts
<1>3. ASSUME UNCHANGED <<source, fed>> PROVE fed <= fed'
  BY <1>1, <1>3 DEF SourceOK
<1>4. CASE NextEntryOver
  <2>1. Return("none", 0) /\ UNCHANGED <<source, fed, archive, handle>> /\ Terminal
    BY <1>4 DEF NextEntryOver
  <2>2. entry = NoHeader
    BY <1>4 DEF NextEntryOver, IInv, CallInv
  <2>3. ret'.res = "none" /\ state'.tag = "ReceivedEof" /\ entry' = NoHeader
    BY <2>1, <2>2 DEF Return, Terminal, archive, handle
  <2> QED
    BY <2>3 DEF AnsInv
<1>5. CASE NextEntryFails
  <2>1. NextEntryTurn /\ AfterNext.err # "none" /\ UNCHANGED <<source, fed, archive, handle>>
    BY <1>5 DEF NextEntryFails
  <2>2. CASE Panic("header")
    BY <1>1, <1>3, <2>1, <2>2, AnswerStays DEF Panic, archive, handle
  <2>3. CASE Return("baddata", 0)
    <3>1. ~ EndIsEmpty
      BY <2>1, EndNotEmpty
    <3>2. ~ EndIsEmpty'
      BY <2>1, <3>1 DEF EndIsEmpty, source
    <3>3. ret'.res = "baddata"
      BY <2>3 DEF Return
    <3> QED
      BY <3>2, <3>3 DEF AnsInv
  <2> QED
    BY <1>5, <2>2, <2>3 DEF NextEntryFails
<1>6. CASE NextEntryOverlaps
  <2>1. Panic("overlap") /\ UNCHANGED <<source, fed, state, entry, found>>
    BY <1>6 DEF NextEntryOverlaps, archive, handle
  <2> QED
    BY <1>1, <1>3, <2>1, AnswerStays DEF Panic
<1>7. CASE NextEntryMoves
  <2>1. PICK o : ContinueUnless(o.panic) /\ Consume(o, AfterNext.n)
    BY <1>7 DEF NextEntryMoves
  <2>2. UNCHANGED <<source, fed, entry, found>> /\ NextEntryTurn
    BY <1>7 DEF NextEntryMoves, handle
  <2>3. o.panic # "none" => UNCHANGED <<state, entry, found>>
    BY <2>1, <2>2 DEF Consume, archive
  <2> QED
    BY <1>2, <2>1, <2>2, <2>3, SettlesAnswer
<1>8. CASE NextEntryEnds
  <2> DEFINE o == Consumed(state, Ahead(AfterNext.n), NoHeader)
  <2>1. /\ NextEntryTurn /\ AfterNext.state = ReceivedEof /\ AfterNext.err = "none"
        /\ Consume(o, AfterNext.n) /\ ReturnUnless(o.panic, "none", 0)
        /\ UNCHANGED <<source, fed, handle>>
    BY <1>8 DEF NextEntryEnds
  <2>2. state.tag = "ReceivingEof"
    <3>1. state.tag \in Tags /\ state.tag \notin Markers /\ state.tag # "ReceivedEof"
      BY <2>1, NextTurnFacts DEF GoodState, StateType
    <3>2. AfterNext.state.tag = "ReceivedEof"
      BY <2>1, TagsOf
    <3> QED
      BY <3>1, <3>2 DEF Tags, Markers, AfterNext, TarNext, NextReceivingHeader,
         NextReceivingData, NextAligningData, Result, ReceivingHeader,
         ReceivingData, ReceivedData, AligningData, AlignedData, ReceivingEof,
         ReceivedHeader, St
  <2>3. ~ (AfterNext.n < state.rem)
    <3>1. ASSUME AfterNext.n < state.rem PROVE FALSE
      <4>1. AfterNext = Result(ReceivingEof(state.rem - AfterNext.n), AfterNext.n)
        BY <2>1, <2>2, <3>1, AfterEof
      <4>2. AfterNext.state.tag = "ReceivingEof"
        BY <4>1, TagsOf DEF Result
      <4> QED
        BY <2>1, <4>2, TagsOf
    <3> QED
      BY <3>1
  <2>4. o.panic = "none" /\ o.state = ReceivedEof
    BY <2>1, <2>2, <2>3, PartOfEof
  <2> HIDE DEF o
  <2>5. Return("none", 0) /\ state' = ReceivedEof
    BY <2>1, <2>4 DEF ReturnUnless, Consume
  <2>6. ret'.res = "none" /\ state'.tag = "ReceivedEof" /\ entry' = NoHeader
    BY <1>2, <2>1, <2>5, TagsOf DEF Return, handle
  <2> QED
    BY <2>6 DEF AnsInv
<1>9. CASE NextEntryOpens
  <2>1. /\ NextEntryTurn /\ AfterNext.state = ReceivedHeader
        /\ UNCHANGED <<source, fed, lent>>
    BY <1>9 DEF NextEntryOpens
  <2>2. ASSUME NEW what \in {"slice", "size"}, Panic(what), UNCHANGED <<archive, entry, found>>
        PROVE  AnsInv'
    BY <1>1, <1>3, <2>1, <2>2, AnswerStays DEF Panic, archive
  <2>3. CASE Len(Unread) < BlockSize
    BY <1>9, <2>2, <2>3 DEF NextEntryOpens
  <2>4. CASE ~ (Len(Unread) < BlockSize) /\ HeadersIn(Ahead(BlockSize)) = {}
    <3>1. Return("badheader", 0) /\ UNCHANGED <<archive, entry, found>>
      BY <1>9, <2>4 DEF NextEntryOpens
    <3>2. BlockSize <= Len(Unread)
      BY <2>4, NowFacts, ReaderFacts
    <3>3. state.rem # BlockSize \/ hdrs[found + 1].sum # "ok"
      BY <2>1, <2>4, <3>2, HeaderFound
    <3>4. state.rem \in 1 .. BlockSize /\ BlockSize \in Nat
      BY <2>1, HeaderIsNext, ReaderFacts
    <3>5. hdrs[found + 1].sum # "ok" \/ state.rem < BlockSize
      BY <3>3, <3>4
    <3>6. /\ ret'.res = "badheader" /\ hdrs' = hdrs /\ found' = found /\ state' = state
          /\ entry' = NoHeader
      BY <1>2, <2>1, <3>1 DEF Return, archive, source
    <3> QED
      BY <3>5, <3>6 DEF AnsInv
  <2>5. CASE ~ (Len(Unread) < BlockSize) /\ HeadersIn(Ahead(BlockSize)) # {}
    <3>1. PICK h \in HeadersIn(Ahead(BlockSize)) :
            \E o \in {Consumed(state, Ahead(AfterNext.n), h)} : Opens(h, o, AfterNext.n)
      BY <1>9, <2>5 DEF NextEntryOpens
    <3>2. PICK o \in {Consumed(state, Ahead(AfterNext.n), h)} : Opens(h, o, AfterNext.n)
      BY <3>1
    <3>3. CASE o.panic = "none"
      BY <3>2, <3>3, AnswerPlain DEF Opens, ReturnUnless
    <3>4. CASE o.panic # "none"
      <4>1. Panic(o.panic) /\ UNCHANGED <<state, entry, found>>
        BY <3>2, <3>4 DEF Opens, ReturnUnless, Consume, archive
      <4> QED
        BY <1>1, <1>3, <2>1, <3>4, <4>1, AnswerStays DEF Panic
    <3> QED
      BY <3>3, <3>4
  <2> QED
    BY <2>3, <2>4, <2>5
<1> QED
  BY <1>4, <1>5, <1>6, <1>7, <1>8, <1>9 DEF NextEntryStep

LEMMA NextAnsInv ==
  ASSUME IInv, IInv', PInv, NoStaleHandles, SizesFit, AnsInv, [Next]_vars
  PROVE  AnsInv'
<1>1. SourceOK /\ SourceOK'
  BY NowFacts DEF IInv, TypeOK, SourceOK
<1>2. ASSUME UNCHANGED <<source, fed>> PROVE fed <= fed'
  BY <1>1, <1>2 DEF SourceOK
<1>3. CASE UNCHANGED vars
  BY <1>1, <1>2, <1>3, AnswerStays DEF vars, source
<1>4. CASE Task
  <2>1. CASE NextEntry \/ Fill \/ Skip \/ \E n \in ReadSizes : Read(n)
    <3>1. poll' = "running" /\ UNCHANGED <<source, fed, ret, state, entry, found>>
      BY <2>1 DEF NextEntry, Fill, Skip, Read, ReadCall, Begin, archive
    <3> QED
      BY <1>1, <1>2, <3>1, AnswerStays
  <2>2. CASE DropEntry
    <3>1. entry # NoHeader /\ UNCHANGED <<source, fed, ret, poll, panic>>
      BY <2>2 DEF DropEntry, control
    <3> QED
      BY <1>1, <1>2, <3>1, AnswerStays
  <2>3. CASE Cancel
    BY <2>3, AnswerPlain DEF Cancel
  <2>4. ASSUME NEW h \in Live, NEW amt \in 0 .. lent, ConsumeEntry(h, amt)
        PROVE  AnsInv'
    <3>1. entry # NoHeader
      BY OneHandle
    <3>2. PICK o : Consume(o, amt) /\ ContinueUnless(o.panic)
      BY <2>4 DEF ConsumeEntry
    <3>3. UNCHANGED <<source, fed, entry, found>>
      BY <2>4 DEF ConsumeEntry, Takes
    <3>4. o.panic # "none" => UNCHANGED <<state, entry, found>>
      BY <3>2, <3>3 DEF Consume, archive
    <3> QED
      BY <3>1, <3>2, <3>3, <3>4, SettlesAnswer
  <2> QED
    BY <1>4, <2>1, <2>2, <2>3, <2>4 DEF Task
<1>5. CASE Wake
  <2>1. poll' = "running" /\ UNCHANGED <<source, fed, ret, state, entry, found>>
    BY <1>5 DEF Wake, archive, handle
  <2> QED
    BY <1>1, <1>2, <2>1, AnswerStays
<1> QED
  BY <1>3, <1>4, <1>5, FillAnswer, NextAnswer, ReadAnswer DEF Next, Step

LEMMA AnswersHold ==
  ASSUME IInv, PInv, AnsInv
  PROVE  AnswersAreReal
<1>1. hdrs \in Archives
  BY PlaceFacts
<1>2. ASSUME ret.res = "none", ret.op # "none"
      PROVE  /\ found = Len(hdrs) /\ Offset = Start(found + 1) + EofLen
             /\ EndIsEmpty
  <2>1. state = ReceivedEof
    BY <1>2, NowFacts, Canonical DEF AnsInv
  <2>2. Placed(ReceivedEof, Offset, found)
    BY <2>1 DEF PInv
  <2>3. /\ Offset = Start(found + 1) + EofLen /\ found = Len(hdrs)
        /\ EmptyUpTo(found, Offset)
    BY <2>2, EndPlace, Zenon
  <2>4. EndIsEmpty
    BY <1>1, <2>3, EndsAt DEF EmptyUpTo, EndIsEmpty
  <2> QED
    BY <2>3, <2>4
<1>3. ret.res = "eof" => fed = Len(bytes) /\ fed < Len(ArchiveBytes(hdrs))
  BY <1>1, EndsAt DEF AnsInv
<1> QED
  BY <1>2, <1>3 DEF AnswersAreReal, AnsInv

-----------------------------------------------------------------------------
(* The bytes of an answer.  A step changes neither the answer nor the      *)
(* entry found last, or it answers with no bytes, or on the handle.        *)
OwnAnswer ==
  \/ UNCHANGED <<ret, found, hdrs>>
  \/ ret'.res # "ok" \/ ret'.n = 0
  \/ ret'.hdr = entry /\ entry # NoHeader /\ UNCHANGED <<found, hdrs>>

LEMMA UnlessAnswers ==
  ASSUME NEW what, NEW res, NEW n, ReturnUnless(what, res, n)
  PROVE  ret' = ret \/ (ret'.res = res /\ ret'.n = n /\ ret'.hdr = call.hdr)
BY DEF ReturnUnless, Return, Panic

LEMMA UnlessContinues ==
  ASSUME NEW what, ContinueUnless(what) PROVE ret' = ret
BY DEF ContinueUnless, Continue, control, Panic

LEMMA FillOwn ==
  ASSUME FillStep PROVE OwnAnswer
<1>1. CASE FillBuf
  BY <1>1 DEF FillBuf, control, handle, source, OwnAnswer
<1>2. CASE FillStalls
  <2>1. PICK res \in Faults : Leave(res)
    BY <1>2 DEF FillStalls
  <2>2. ret' = ret \/ ret'.n = 0
    BY <2>1 DEF Leave, Return
  <2>3. UNCHANGED <<found, hdrs>>
    BY <1>2 DEF FillStalls, handle, source
  <2> QED
    BY <2>2, <2>3 DEF OwnAnswer
<1>3. CASE FillEnds
  <2>1. ret' = ret \/ ret'.n = 0
    BY <1>3 DEF FillEnds, Panic, Return
  <2>2. UNCHANGED <<found, hdrs>>
    BY <1>3 DEF FillEnds, handle, source
  <2> QED
    BY <2>1, <2>2 DEF OwnAnswer
<1> QED
  BY <1>1, <1>2, <1>3 DEF FillStep

LEMMA NextOwn ==
  ASSUME NextEntryStep PROVE OwnAnswer
<1>1. CASE NextEntryOver
  BY <1>1 DEF NextEntryOver, Return, OwnAnswer
<1>2. CASE NextEntryOpens
  <2>1. CASE Len(Unread) < BlockSize
    BY <1>2, <2>1 DEF NextEntryOpens, Panic, source, OwnAnswer
  <2>2. CASE ~ (Len(Unread) < BlockSize) /\ HeadersIn(Ahead(BlockSize)) = {}
    BY <1>2, <2>2 DEF NextEntryOpens, Return, OwnAnswer
  <2>3. CASE ~ (Len(Unread) < BlockSize) /\ HeadersIn(Ahead(BlockSize)) # {}
    <3>1. PICK h, o : Opens(h, o, AfterNext.n)
      BY <1>2, <2>3 DEF NextEntryOpens
    <3>2. ReturnUnless(o.panic, "entry", 0) /\ hdrs' = hdrs
      BY <1>2, <3>1 DEF NextEntryOpens, Opens, source
    <3>3. o.panic # "none" => UNCHANGED <<ret, found, hdrs>>
      BY <3>1, <3>2 DEF Opens, ReturnUnless, Panic
    <3>4. o.panic = "none" => ret'.n = 0
      BY <3>2 DEF ReturnUnless, Return
    <3> QED
      BY <3>3, <3>4 DEF OwnAnswer
  <2> QED
    BY <2>1, <2>2, <2>3
<1>3. CASE NextEntryEnds
  <2>1. PICK o : ReturnUnless(o.panic, "none", 0)
    BY <1>3 DEF NextEntryEnds
  <2>2. ret' = ret \/ ret'.n = 0
    BY <2>1, UnlessAnswers
  <2>3. UNCHANGED <<found, hdrs>>
    BY <1>3 DEF NextEntryEnds, handle, source
  <2> QED
    BY <2>2, <2>3 DEF OwnAnswer
<1>4. CASE NextEntryMoves
  <2>1. ret' = ret
    BY <1>4, UnlessContinues DEF NextEntryMoves
  <2>2. UNCHANGED <<found, hdrs>>
    BY <1>4 DEF NextEntryMoves, handle, source
  <2> QED
    BY <2>1, <2>2 DEF OwnAnswer
<1>5. CASE NextEntryFails
  <2>1. ret' = ret \/ ret'.n = 0
    BY <1>5 DEF NextEntryFails, Panic, Return
  <2>2. UNCHANGED <<found, hdrs>>
    BY <1>5 DEF NextEntryFails, handle, source
  <2> QED
    BY <2>1, <2>2 DEF OwnAnswer
<1>6. CASE NextEntryOverlaps
  BY <1>6 DEF NextEntryOverlaps, Panic, handle, source, OwnAnswer
<1> QED
  BY <1>1, <1>2, <1>3, <1>4, <1>5, <1>6 DEF NextEntryStep

LEMMA ReadOwn ==
  ASSUME IInv, ReadStep PROVE OwnAnswer
<1>1. ASSUME Lends \/ Reads \/ Skips \/ ReadAligns \/ ReadEnds \/ ReadRefused
      PROVE  call.hdr = entry /\ entry # NoHeader
  <2>1. ReadTurn
    BY <1>1 DEF Lends, Reads, Skips, ReadAligns, ReadEnds, ReadRefused, HasData
  <2>2. poll # "idle" /\ call.op # "next_entry"
    BY <2>1 DEF ReadTurn, Filled
  <2> QED
    BY <2>2 DEF IInv, CallInv
<1>2. UNCHANGED <<found, hdrs>>
  BY DEF ReadStep, Lends, Reads, Skips, ReadAligns, ReadEnds, ReadRefused,
         ReadNothing, Takes, handle, source
<1>3. CASE Lends
  <2>1. ret'.hdr = call.hdr
    BY <1>3 DEF Lends, Return
  <2> QED
    BY <1>1, <1>2, <1>3, <2>1 DEF OwnAnswer
<1>4. CASE Reads
  <2>1. PICK o : ReturnUnless(o.panic, "ok", ReadLen)
    BY <1>4 DEF Reads
  <2>2. ret' = ret \/ ret'.hdr = call.hdr
    BY <2>1, UnlessAnswers
  <2> QED
    BY <1>1, <1>2, <1>4, <2>2 DEF OwnAnswer
<1>5. CASE Skips
  <2>1. ret' = ret
    BY <1>5, UnlessContinues DEF Skips, Panic
  <2> QED
    BY <1>2, <2>1 DEF OwnAnswer
<1>6. CASE ReadAligns
  <2>1. ret' = ret
    BY <1>6, UnlessContinues DEF ReadAligns
  <2> QED
    BY <1>2, <2>1 DEF OwnAnswer
<1>7. CASE ReadEnds
  <2>1. PICK o : IF call.op = "skip" /\ o.panic = "none" /\ o.state # ExpectingHeader
                 THEN Panic("skip") ELSE ReturnUnless(o.panic, "ok", 0)
    BY <1>7 DEF ReadEnds
  <2>2. ret' = ret \/ ret'.n = 0
    BY <2>1, UnlessAnswers DEF Panic
  <2> QED
    BY <1>2, <2>2 DEF OwnAnswer
<1>8. CASE ReadRefused \/ ReadNothing
  <2>1. ret' = ret \/ ret'.n = 0
    BY <1>8 DEF ReadRefused, ReadNothing, Panic, Return
  <2> QED
    BY <1>2, <2>1 DEF OwnAnswer
<1> QED
  BY <1>3, <1>4, <1>5, <1>6, <1>7, <1>8 DEF ReadStep

LEMMA TaskOwn ==
  ASSUME Task PROVE OwnAnswer
<1>1. CASE NextEntry \/ Fill \/ Skip \/ \E n \in ReadSizes : Read(n)
  BY <1>1 DEF NextEntry, Fill, Skip, Read, ReadCall, Begin, source, OwnAnswer
<1>2. CASE DropEntry
  BY <1>2 DEF DropEntry, control, source, OwnAnswer
<1>3. CASE Cancel
  BY <1>3 DEF Cancel, Return, OwnAnswer
<1>4. ASSUME NEW h \in Live, NEW amt \in 0 .. lent, ConsumeEntry(h, amt)
      PROVE  OwnAnswer
  <2>1. ret' = ret
    BY <1>4, UnlessContinues DEF ConsumeEntry
  <2>2. UNCHANGED <<found, hdrs>>
    BY <1>4 DEF ConsumeEntry, Takes, source
  <2> QED
    BY <2>1, <2>2 DEF OwnAnswer
<1> QED
  BY <1>1, <1>2, <1>3, <1>4 DEF Task

LEMMA NextNotInterleaved ==
  ASSUME IInv, PInv, NotInterleaved, [Next]_vars
  PROVE  NotInterleaved'
<1>1. OwnAnswer
  <2>1. CASE UNCHANGED vars
    BY <2>1 DEF vars, OwnAnswer
  <2>2. CASE Wake
    BY <2>2 DEF Wake, handle, source, OwnAnswer
  <2> QED
    BY <2>1, <2>2, FillOwn, NextOwn, ReadOwn, TaskOwn DEF Next, Step
<1>2. entry # NoHeader => entry = hdrs[found]
  BY DEF PInv, OwnInv
<1> QED
  BY <1>1, <1>2 DEF OwnAnswer, NotInterleaved

-----------------------------------------------------------------------------
(* The panics of a careful task.  The inductive invariant: a program that  *)
(* panicked takes no step; State waits for no data only of an entry that   *)
(* has none; an entry whose end State is past is one whose task was told   *)
(* so; and an entry is let go only once none of its data is waited for.    *)
Waits == state.tag = "ReceivingData"

PanicStops   == panic # "none" => poll = "idle"
EmptyEntry   == Waits /\ state.rem = 0 => hdrs[found].size = 0
ToldTheEnd   == entry # NoHeader /\ panic = "none"
                  /\ state.tag \notin {"ReceivingData", "AligningData"} =>
                    poll = "idle" /\ Ended
DataIsRead   == entry = NoHeader /\ panic = "none" /\ Waits => state.rem = 0

CareInv == Careful => PanicStops /\ EmptyEntry /\ ToldTheEnd /\ DataIsRead
                        /\ CarefulReaderPanics

(* What a panic is about.                                                  *)
Explained ==
  \/ panic' = "slice" /\ state.tag = "ReceivingHeader" /\ state.rem < BlockSize
  \/ panic' = "size" /\ hdrs[found + 1].size = BadSize
  \/ panic' \in {"skip", "overlap"} /\ hdrs[found].size = 0 /\ state = ReceivingData(0)

LEMMA CarePanics ==
  ASSUME CareInv, Careful, poll' = "idle", panic' # "none", Explained,
         UNCHANGED <<source, archive, found>>
  PROVE  CareInv'
<1>1. UNCHANGED <<hdrs, state, found>>
  BY DEF source, archive
<1>2. PanicStops' /\ ToldTheEnd' /\ DataIsRead'
  BY DEF PanicStops, ToldTheEnd, DataIsRead
<1>3. EmptyEntry'
  BY <1>1 DEF CareInv, EmptyEntry, Waits
<1>4. CarefulReaderPanics'
  BY <1>1 DEF Explained, CarefulReaderPanics
<1> QED
  BY <1>2, <1>3, <1>4 DEF CareInv

(* A step that leaves State and the handle as they are.                    *)
LEMMA CareStays ==
  ASSUME CareInv, Careful, panic' = "none", panic = "none",
         UNCHANGED <<source, state, entry, found>>,
         poll = "idle" /\ entry # NoHeader /\ Ended => poll' = "idle" /\ ret' = ret
  PROVE  CareInv'
<1>1. UNCHANGED hdrs
  BY DEF source
<1>2. PanicStops' /\ CarefulReaderPanics'
  BY DEF PanicStops, CarefulReaderPanics
<1>3. EmptyEntry' /\ DataIsRead'
  BY <1>1 DEF CareInv, EmptyEntry, DataIsRead, Waits
<1>4. ToldTheEnd'
  BY DEF CareInv, ToldTheEnd, Ended
<1> QED
  BY <1>2, <1>3, <1>4 DEF CareInv

(* A step that moves State on, and never to an end of the data that is     *)
(* neither the entry's nor the task's.                                     *)
LEMMA CareMoves ==
  ASSUME Careful, panic' = "none",
         Waits' /\ state'.rem = 0 => hdrs'[found'].size = 0,
         IF entry' = NoHeader THEN ~ Waits'
         ELSE state'.tag \in {"ReceivingData", "AligningData"}
                \/ (poll' = "idle" /\ Ended')
  PROVE  CareInv'
<1>1. PanicStops' /\ CarefulReaderPanics' /\ EmptyEntry'
  BY DEF PanicStops, CarefulReaderPanics, EmptyEntry
<1>2. ToldTheEnd' /\ DataIsRead'
  BY DEF ToldTheEnd, DataIsRead
<1> QED
  BY <1>1, <1>2 DEF CareInv

LEMMA CareFacts ==
  ASSUME CareInv, Careful
  PROVE  /\ poll # "idle" => panic = "none"
         /\ poll # "idle" /\ entry # NoHeader =>
              state.tag \in {"ReceivingData", "AligningData"}
  BY DEF CareInv, PanicStops, ToldTheEnd

LEMMA FillCare ==
  ASSUME IInv, IInv', CareInv, Careful, FillStep
  PROVE  CareInv'
<1>1. poll = "running" /\ panic = "none"
  <2>1. poll = "running"
    BY DEF FillStep, FillBuf, FillStalls, FillEnds, Fills
  <2> QED
    BY <2>1, CareFacts
<1>2. UNCHANGED <<source, state, entry, found>>
  BY DEF FillStep, FillBuf, FillStalls, FillEnds, handle, archive
<1>3. panic' = "none"
  <2>1. CASE FillBuf
    BY <1>1, <2>1 DEF FillBuf, control
  <2>2. CASE FillStalls
    BY <1>1, <2>2 DEF FillStalls, Leave, Return
  <2>3. CASE FillEnds
    <3>1. panic' = panic \/ panic' = "full"
      BY <2>3 DEF FillEnds, Panic, Return
    <3> QED
      BY <1>1, <3>1 DEF IInv, ChecksHold
  <2> QED
    BY <2>1, <2>2, <2>3 DEF FillStep
<1> QED
  BY <1>1, <1>2, <1>3, CareStays

(* Bytes of the data, which leave State in the data or in the alignment.   *)
LEMMA TakeCare ==
  ASSUME IInv, SizesFit, CareInv, Careful, panic = "none", panic' = "none",
         entry # NoHeader, Waits,
         NEW amt \in 0 .. Len(Unread), amt <= state.rem,
         Consume(Consumed(state, Ahead(amt), entry), amt),
         UNCHANGED <<source, entry, found>>
  PROVE  CareInv'
<1> DEFINE o == Consumed(state, Ahead(amt), entry)
<1>1. o.panic = "none" /\ o.state = AfterTake(amt)
  BY EntryConsumes DEF Waits
<1>2. state' = o.state
  BY <1>1 DEF Consume
<1> HIDE DEF o
<1>3. state.rem \in Nat /\ amt \in Nat
  BY NowFacts
<1>4. state' = IF amt < state.rem THEN ReceivingData(state.rem - amt)
               ELSE AligningData(Align(entry.size))
  BY <1>1, <1>2 DEF AfterTake, Waits
<1>5. /\ state'.tag \in {"ReceivingData", "AligningData"}
      /\ Waits' => state'.rem # 0
  <2>1. CASE amt < state.rem
    <3>1. state.rem - amt # 0
      BY <1>3, <2>1
    <3> QED
      BY <1>4, <2>1, <3>1, TagsOf
  <2>2. CASE ~ (amt < state.rem)
    BY <1>4, <2>2, TagsOf DEF Waits
  <2> QED
    BY <2>1, <2>2
<1> QED
  BY <1>5, CareMoves

LEMMA ReadCare ==
  ASSUME IInv, IInv', SizesFit, PInv, CareInv, Careful, ReadStep
  PROVE  CareInv'
<1>1. poll = "running" /\ panic = "none"
  <2>1. poll = "running"
    BY DEF ReadStep, Lends, Reads, Skips, ReadAligns, ReadEnds, ReadRefused,
           ReadNothing, HasData, ReadTurn, Filled
  <2> QED
    BY <2>1, CareFacts
<1>2. CASE Lends
  BY <1>1, <1>2, CareStays DEF Lends, Return, archive
<1>3. CASE Reads
  <2> DEFINE amt == ReadLen
             o   == Consumed(state, Ahead(amt), entry)
  <2>1. /\ HasData /\ Takes(amt) /\ UNCHANGED source /\ call.op = "read"
        /\ \E c \in {Consumed(state, Ahead(amt), call.hdr)} :
             Consume(c, amt) /\ ReturnUnless(c.panic, "ok", amt)
    BY <1>3 DEF Reads
  <2>2. state.tag = "ReceivingData" /\ call.hdr = entry /\ entry # NoHeader
        /\ ReadTurn
    BY <2>1, DataStep
  <2>3. amt \in 0 .. Len(Unread) /\ amt <= state.rem
    <3>1. call.n \in Nat
      <4>1. call.n \in ReadSizes \cup {0}
        BY NowFacts DEF ControlOK, CallOK
      <4>2. \A m \in ReadSizes \cup {0} : m \in Nat
        BY ReaderFacts
      <4> QED
        BY <4>1, <4>2
    <3> QED
      BY <2>1, <3>1, DataStep DEF ReadLen
  <2>4. o.panic = "none"
    BY <2>2, <2>3, EntryConsumes
  <2>5. Consume(o, amt) /\ ReturnUnless(o.panic, "ok", amt)
    BY <2>1, <2>2
  <2> HIDE DEF amt
  <2>6. panic' = "none"
    BY <1>1, <2>4, <2>5 DEF ReturnUnless, Return
  <2> QED
    BY <1>1, <2>1, <2>2, <2>3, <2>5, <2>6, TakeCare DEF Takes, Waits
<1>4. CASE Skips
  <2> DEFINE amt == AfterRead.n
             o   == Consumed(state, Ahead(amt), entry)
  <2>1. /\ HasData /\ Takes(amt) /\ UNCHANGED source
        /\ IF amt = 0 THEN Panic("skip") /\ UNCHANGED archive
           ELSE \E c \in {Consumed(state, Ahead(amt), call.hdr)} :
                  Consume(c, amt) /\ ContinueUnless(c.panic)
    BY <1>4 DEF Skips
  <2>2. /\ state.tag = "ReceivingData" /\ call.hdr = entry /\ entry # NoHeader
        /\ amt \in 0 .. Len(Unread) /\ amt <= state.rem
        /\ amt = 0 => state.rem = 0
    BY <2>1, DataStep
  <2> HIDE DEF amt
  <2>3. CASE amt = 0
    <3>1. state.rem = 0 /\ hdrs[found].size = 0
      BY <2>2, <2>3 DEF CareInv, EmptyEntry, Waits
    <3>2. state = ReceivingData(0)
      BY <2>2, <3>1, EntryFacts
    <3>3. panic' = "skip" /\ poll' = "idle"
      BY <2>1, <2>3 DEF Panic
    <3>4. Explained
      BY <3>1, <3>2, <3>3 DEF Explained
    <3> QED
      BY <2>1, <2>3, <3>3, <3>4, CarePanics DEF Takes
  <2>4. CASE amt # 0
    <3>1. o.panic = "none"
      BY <2>2, EntryConsumes
    <3>2. Consume(o, amt) /\ ContinueUnless(o.panic)
      BY <2>1, <2>2, <2>4
    <3>3. panic' = "none"
      BY <1>1, <3>1, <3>2 DEF ContinueUnless, Continue, control
    <3> QED
      BY <1>1, <2>1, <2>2, <3>2, <3>3, TakeCare DEF Takes, Waits
  <2> QED
    BY <2>3, <2>4
<1>5. CASE ReadAligns
  <2> DEFINE n == AfterRead.n
             o == Consumed(state, Ahead(n), NoHeader)
  <2>1. Consume(o, n) /\ ContinueUnless(o.panic) /\ UNCHANGED <<source, fed, handle>>
    BY <1>5 DEF ReadAligns
  <2>2. entry # NoHeader /\ o = [state |-> AligningData(state.rem - n), panic |-> "none"]
    BY <1>5, ReadAlignsIs
  <2> HIDE DEF n
  <2>3. o.panic = "none" /\ o.state.tag = "AligningData"
    BY <2>2, TagsOf
  <2> HIDE DEF o
  <2>4. state'.tag = "AligningData" /\ panic' = "none" /\ entry' # NoHeader
    BY <1>1, <2>1, <2>2, <2>3 DEF Consume, ContinueUnless, Continue, control, handle
  <2> QED
    BY <2>4, CareMoves DEF Waits
<1>6. CASE ReadEnds
  <2> DEFINE n == AfterRead.n
             o == ConsumedAtEnd(Consumed(state, Ahead(n), call.hdr))
             t == IF call.op = "read" THEN ReceivingHeader(BlockSize, TRUE)
                  ELSE ExpectingHeader
  <2>1. /\ ReadTurn /\ Consume(o, n)
        /\ IF call.op = "skip" /\ o.panic = "none" /\ o.state # ExpectingHeader
           THEN Panic("skip") ELSE ReturnUnless(o.panic, "ok", 0)
        /\ UNCHANGED <<source, fed, handle>>
    BY <1>6 DEF ReadEnds
  <2>2. o = [state |-> t, panic |-> "none"] /\ entry # NoHeader
    BY <1>6, ReadEndsIs
  <2>3. call.op = "skip" => t = ExpectingHeader
    OBVIOUS
  <2>4. t.tag \in {"ReceivingHeader", "ExpectingHeader"}
    <3>1. CASE call.op = "read"
      BY <3>1 DEF ReceivingHeader, St
    <3>2. CASE call.op # "read"
      BY <3>2, TagsOf
    <3> QED
      BY <3>1, <3>2
  <2> HIDE DEF t, n
  <2>5. o.panic = "none" /\ o.state = t
    BY <2>2
  <2> HIDE DEF o
  <2>6. Return("ok", 0)
    BY <2>1, <2>3, <2>5 DEF ReturnUnless
  <2>7. panic' = "none" /\ poll' = "idle" /\ state' = t /\ entry' # NoHeader
    BY <1>1, <2>1, <2>2, <2>5, <2>6 DEF Return, Consume, handle
  <2>8. Ended'
    <3>1. call.op = "read" => call.n > 0
      BY <2>1 DEF ReadTurn
    <3>2. ret' = [op |-> call.op, hdr |-> call.hdr, room |-> call.n,
                  res |-> "ok", n |-> 0]
      BY <2>6 DEF Return
    <3> QED
      BY <3>1, <3>2 DEF Ended
  <2> QED
    BY <2>4, <2>7, <2>8, CareMoves DEF Waits
<1>7. CASE ReadRefused
  <2>1. ReadTurn
    BY <1>7 DEF ReadRefused
  <2>2. state.tag \in {"ReceivingData", "AligningData"}
    BY <1>1, <2>1, CareFacts, ReadTurnFacts
  <2>3. AfterRead.err = "none"
    BY <2>1, <2>2, AfterReadIs DEF Result
  <2>4. AfterRead.state.tag \in {"ReceivingData", "ReceivedData", "AligningData",
                                 "AlignedData"}
    <3>1. CASE state.tag = "ReceivingData"
      BY <2>1, <3>1, AfterReadIs
    <3>2. CASE state.tag = "AligningData"
      <4> DEFINE n == AfterRead.n
      <4>1. AfterRead = IF n < state.rem
                        THEN Result(AligningData(state.rem - n), n)
                        ELSE Result(AlignedData, n)
        BY <2>1, <3>2, AfterReadIs
      <4> HIDE DEF n
      <4> QED
        BY <4>1, TagsOf DEF Result
    <3> QED
      BY <2>2, <3>1, <3>2
  <2> QED
    BY <1>7, <2>3, <2>4 DEF ReadRefused
<1>8. CASE ReadNothing
  BY <1>1, <1>8, CareStays DEF ReadNothing, Return, archive, handle
<1> QED
  BY <1>2, <1>3, <1>4, <1>5, <1>6, <1>7, <1>8 DEF ReadStep

(* next_entry goes over what is no header.                                 *)
LEMMA MovesCare ==
  ASSUME IInv, Careful, panic = "none", NextEntryMoves \/ NextEntryEnds
  PROVE  CareInv'
<1> DEFINE n == AfterNext.n
           o == Consumed(state, Ahead(n), NoHeader)
<1>1. NextEntryTurn /\ AfterNext.err = "none" /\ Consume(o, n)
      /\ (ContinueUnless(o.panic) \/ ReturnUnless(o.panic, "none", 0))
      /\ UNCHANGED <<source, fed, handle>>
  BY DEF NextEntryMoves, NextEntryEnds
<1>2. AfterNext.state.tag \in {"ReceivingHeader", "ReceivingEof", "AligningData",
                               "AlignedData", "ReceivedEof"}
  BY TagsOf DEF NextEntryMoves, NextEntryEnds
<1>3. o.panic = "none"
  BY <1>1, <1>2, NextEntryPasses
<1>4. o.state.tag # "ReceivingData"
  <2>1. state.tag \in Tags /\ state.tag \notin Markers /\ state.tag # "ReceivedEof"
    BY <1>1, NextTurnFacts DEF GoodState, StateType
  <2>2. state.tag # "ReceivingData"
    BY <1>2 DEF AfterNext, TarNext, NextReceivingData, Result, ReceivingData,
       ReceivedData, St
  <2>3. CASE state.tag = "ReceivingHeader"
    <3>1. AfterNext.state # ReceivedHeader
      BY <1>2, TagsOf
    <3>2. PICK z : o.state = AfterHeaderBytes(state.rem - n, z)
      BY <1>1, <2>3, <3>1, PartOfHeader
    <3> HIDE DEF n, o
    <3> QED
      BY <3>2, TagsOf DEF AfterHeaderBytes
  <2>4. CASE state.tag = "AligningData"
    <3>1. o.state = IF n < state.rem THEN AligningData(state.rem - n)
                    ELSE ExpectingHeader
      BY <1>1, <2>4, PartOfPadding
    <3> HIDE DEF n, o
    <3> QED
      BY <3>1, TagsOf
  <2>5. CASE state.tag = "ReceivingEof"
    <3>1. o.state = IF n < state.rem THEN ReceivingEof(state.rem - n) ELSE ReceivedEof
      BY <1>1, <2>5, PartOfEof
    <3> HIDE DEF n, o
    <3> QED
      BY <3>1, TagsOf
  <2>6. CASE state.tag = "ExpectingHeader"
    <3>1. o.state = ReceivingHeader(BlockSize, TRUE)
      BY <1>1, <2>6, BeforeHeader
    <3> HIDE DEF o
    <3> QED
      BY <3>1 DEF ReceivingHeader, St
  <2>7. state.tag \in {"ReceivingHeader", "AligningData", "ReceivingEof",
                       "ExpectingHeader"}
    BY <2>1, <2>2 DEF Tags, Markers
  <2> HIDE DEF o
  <2> QED
    BY <2>3, <2>4, <2>5, <2>6, <2>7
<1>5. entry = NoHeader
  BY <1>1, NextTurnFacts
<1> HIDE DEF n, o
<1>6. state'.tag # "ReceivingData" /\ entry' = NoHeader /\ panic' = "none"
  BY <1>1, <1>3, <1>4, <1>5
     DEF Consume, handle, ContinueUnless, Continue, control, ReturnUnless, Return
<1> QED
  BY <1>6, CareMoves DEF Waits

LEMMA OpensCare ==
  ASSUME IInv, PInv, CareInv, Careful, panic = "none", NextEntryOpens
  PROVE  CareInv'
<1> DEFINE n == AfterNext.n
           b == Ahead(BlockSize)
<1>1. /\ NextEntryTurn /\ AfterNext.state = ReceivedHeader
      /\ UNCHANGED <<source, fed, lent>> /\ poll = "running"
  BY DEF NextEntryOpens, NextEntryTurn, Filled
<1>2. /\ state.tag = "ReceivingHeader" /\ n = state.rem /\ n \in 0 .. Len(Unread)
      /\ state.rem \in 1 .. BlockSize /\ Len(Unread) \in Nat /\ BlockSize \in Nat
  BY <1>1, HeaderEnds, NowFacts, ReaderFacts
<1>3. CASE Len(Unread) < BlockSize
  <2>1. Panic("slice") /\ UNCHANGED <<archive, entry, older, found, got>>
    BY <1>3 DEF NextEntryOpens
  <2>2. state.rem < BlockSize
    BY <1>2, <1>3
  <2>3. Explained /\ panic' # "none" /\ poll' = "idle"
    BY <1>2, <2>1, <2>2 DEF Explained, Panic
  <2> QED
    BY <1>1, <2>1, <2>3, CarePanics
<1>4. CASE ~ (Len(Unread) < BlockSize) /\ HeadersIn(b) = {}
  <2>1. Return("badheader", 0) /\ UNCHANGED <<archive, entry, older, found, got>>
    BY <1>4 DEF NextEntryOpens
  <2> QED
    BY <1>1, <2>1, CareStays DEF Return, archive
<1>5. CASE ~ (Len(Unread) < BlockSize) /\ HeadersIn(b) # {}
  <2>1. PICK h \in HeadersIn(b) :
          \E o \in {Consumed(state, Ahead(n), h)} : Opens(h, o, n)
    BY <1>5 DEF NextEntryOpens
  <2> DEFINE o == Consumed(state, Ahead(n), h)
  <2>2. Opens(h, o, n)
    BY <2>1
  <2>3. h = hdrs[found + 1] /\ h \in Header \ {NoHeader}
    <3>1. BlockSize <= Len(Unread)
      BY <1>2, <1>5
    <3>2. h = hdrs[found + 1]
      BY <1>1, <3>1, HeaderFound
    <3>3. h \in Handles
      BY DEF HeadersIn, Handles
    <3> QED
      BY <3>2, <3>3, NowFacts, HandlesAreHeaders
  <2>4. IF h.size = BadSize THEN o.panic = "size"
        ELSE o = [state |-> ReceivingData(h.size), panic |-> "none"]
    BY <1>1, <2>3, HeaderEnds
  <2> HIDE DEF o, n, b
  <2>5. CASE h.size = BadSize
    <3>1. o.panic = "size"
      BY <2>4, <2>5
    <3>2. Panic("size") /\ UNCHANGED <<archive, entry, older, found, got>>
      BY <2>2, <3>1 DEF Opens, Consume, ReturnUnless
    <3>3. Explained /\ panic' # "none" /\ poll' = "idle"
      BY <2>3, <2>5, <3>2 DEF Explained, Panic
    <3> QED
      BY <1>1, <3>2, <3>3, CarePanics
  <2>6. CASE h.size # BadSize
    <3>1. o.panic = "none" /\ o.state = ReceivingData(h.size)
      BY <2>4, <2>6
    <3>2. /\ state' = ReceivingData(h.size) /\ panic' = "none"
          /\ entry' = h /\ found' = found + 1
      BY <2>2, <3>1 DEF Opens, Consume, ReturnUnless, Return
    <3>3. hdrs'[found'] = h
      BY <1>1, <2>3, <3>2 DEF source
    <3>4. state'.tag = "ReceivingData" /\ state'.rem = h.size /\ entry' # NoHeader
      BY <2>3, <3>2, TagsOf
    <3> QED
      BY <3>2, <3>3, <3>4, CareMoves DEF Waits
  <2> QED
    BY <2>5, <2>6
<1> QED
  BY <1>3, <1>4, <1>5

LEMMA NextEntryCare ==
  ASSUME IInv, IInv', PInv, CareInv, Careful, NextEntryStep
  PROVE  CareInv'
<1>1. poll = "running" /\ panic = "none"
  <2>1. poll = "running"
    BY DEF NextEntryStep, NextEntryOver, NextEntryOpens, NextEntryEnds, NextEntryMoves,
           NextEntryFails, NextEntryOverlaps, NextEntryTurn, Filled
  <2> QED
    BY <2>1, CareFacts
<1>2. CASE NextEntryOver
  BY <1>1, <1>2, CareStays DEF NextEntryOver, Return, archive, handle
<1>3. CASE NextEntryFails
  <2>1. panic' = "none"
    <3>1. panic' = panic \/ panic' = "header"
      BY <1>3 DEF NextEntryFails, Panic, Return
    <3> QED
      BY <1>1, <3>1 DEF IInv, ChecksHold
  <2> QED
    BY <1>1, <1>3, <2>1, CareStays DEF NextEntryFails, archive, handle
<1>4. CASE NextEntryOverlaps
  <2>1. /\ NextEntryTurn /\ Panic("overlap")
        /\ AfterNext.state.tag \in {"ExpectingHeader", "ReceivingData", "ReceivedData"}
        /\ UNCHANGED <<source, fed, archive, handle>>
    BY <1>4 DEF NextEntryOverlaps
  <2>2. state.tag \in Tags /\ state.tag \notin Markers /\ state.tag # "ReceivedEof"
        /\ entry = NoHeader /\ GoodState(state)
    BY <2>1, NextTurnFacts DEF GoodState, StateType
  <2>3. state.tag = "ReceivingData"
    BY <2>1, <2>2 DEF Tags, Markers, AfterNext, TarNext, NextReceivingHeader,
       NextAligningData, NextReceivingEof, Result, Failure, ReceivingHeader,
       ReceivedHeader, AligningData, AlignedData, ReceivingEof, ReceivedEof, St
  <2>4. state.rem = 0 /\ hdrs[found].size = 0
    BY <1>1, <2>2, <2>3 DEF CareInv, DataIsRead, EmptyEntry, Waits
  <2>5. state = ReceivingData(0)
    BY <2>2, <2>3, <2>4, Canonical
  <2>6. Explained /\ panic' # "none" /\ poll' = "idle"
    BY <2>1, <2>4, <2>5 DEF Explained, Panic
  <2> QED
    BY <2>1, <2>6, CarePanics DEF handle
<1> QED
  BY <1>1, <1>2, <1>3, <1>4, MovesCare, OpensCare DEF NextEntryStep

(* The entry is let go when the task was told its end, or has all of its   *)
(* data.                                                                   *)
LEMMA DropCare ==
  ASSUME IInv, CareInv, Careful, NoBytesAtTheEndOnly, SizesFit, DropEntry
  PROVE  CareInv'
<1>1. /\ entry # NoHeader /\ panic = "none"
      /\ Ended \/ Len(got) = entry.size
      /\ entry' = NoHeader /\ UNCHANGED <<source, archive, control, found>>
  BY DEF DropEntry
<1>2. Len(got) = entry.size
  BY <1>1 DEF NoBytesAtTheEndOnly
<1>3. UNCHANGED <<hdrs, state, panic, poll, found>>
  BY <1>1 DEF source, archive, control
<1>4. Waits => state.rem = 0
  <2>1. SUFFICES ASSUME Waits PROVE state.rem = 0
    OBVIOUS
  <2>2. Len(got) = entry.size - state.rem /\ entry.size \in Nat /\ state.rem \in Nat
    BY <1>1, <2>1, EntryFacts, NowFacts DEF DataLeft, Waits
  <2> QED
    BY <1>2, <2>2
<1>5. PanicStops' /\ EmptyEntry' /\ CarefulReaderPanics'
  BY <1>1, <1>3 DEF CareInv, PanicStops, EmptyEntry, Waits, CarefulReaderPanics
<1>6. ToldTheEnd' /\ DataIsRead'
  BY <1>1, <1>3, <1>4 DEF ToldTheEnd, DataIsRead, Waits
<1> QED
  BY <1>5, <1>6 DEF CareInv

LEMMA TaskCare ==
  ASSUME IInv, CareInv, Careful, NoBytesAtTheEndOnly, NoStaleHandles, SizesFit, Task
  PROVE  CareInv'
<1>1. CASE NextEntry
  <2>1. entry = NoHeader /\ Begin("next_entry", NoHeader, 0)
    BY <1>1 DEF NextEntry, NoStaleHandles
  <2> QED
    BY <2>1, CareStays DEF Begin, archive
<1>2. ASSUME NEW op, NEW n, ReadCall(op, n)
      PROVE  CareInv'
  <2>1. PICK h \in Live : ~ Ended /\ Begin(op, h, n)
    BY <1>2 DEF ReadCall
  <2> QED
    BY <2>1, CareStays DEF Begin, archive
<1>3. CASE Fill \/ Skip
  BY <1>2, <1>3 DEF Fill, Skip
<1>4. ASSUME NEW n \in ReadSizes, Read(n) PROVE CareInv'
  BY <1>2, <1>4 DEF Read
<1>5. CASE Cancel
  <2>1. poll = "parked" /\ Return("cancelled", 0)
        /\ UNCHANGED <<source, fed, archive, handle>>
    BY <1>5 DEF Cancel
  <2>2. panic = "none" /\ panic' = panic
    BY <2>1, CareFacts DEF Return
  <2> QED
    BY <2>1, <2>2, CareStays DEF archive, handle
<1>6. ASSUME NEW h \in Live, NEW amt \in 0 .. lent, ConsumeEntry(h, amt)
      PROVE  CareInv'
  <2> DEFINE o == Consumed(state, Ahead(amt), entry)
  <2>1. h = entry /\ entry # NoHeader
    BY OneHandle
  <2>2. /\ panic = "none" /\ amt > 0 /\ Consume(o, amt) /\ ContinueUnless(o.panic)
        /\ Takes(amt) /\ UNCHANGED source
    BY <1>6, <2>1 DEF ConsumeEntry
  <2>3. lent \in Nat /\ lent \in 0 .. Len(Unread) /\ amt \in Nat /\ amt <= lent
        /\ Len(Unread) \in Nat /\ state.rem \in Nat
    BY NowFacts
  <2>4. lent > 0
    BY <2>2, <2>3
  <2>5. Waits /\ lent <= state.rem
    BY <2>4 DEF IInv, LentInv, Waits
  <2>6. amt \in 0 .. Len(Unread) /\ amt <= state.rem
    BY <2>3, <2>5
  <2>7. o.panic = "none"
    BY <2>1, <2>5, <2>6, EntryConsumes DEF Waits
  <2>8. panic' = "none"
    BY <2>2, <2>7 DEF ContinueUnless, Continue, control
  <2> QED
    BY <2>1, <2>2, <2>5, <2>6, <2>8, TakeCare DEF Takes
<1> QED
  BY <1>1, <1>3, <1>4, <1>5, <1>6, DropCare DEF Task

LEMMA NextCare ==
  ASSUME IInv, IInv', PInv, CareInv, NoBytesAtTheEndOnly, NoStaleHandles, SizesFit,
         [Next]_vars
  PROVE  CareInv'
<1>1. CASE ~ Careful
  BY <1>1 DEF CareInv
<1>2. CASE Careful
  <2>1. CASE UNCHANGED vars
    BY <2>1 DEF vars, CareInv, PanicStops, EmptyEntry, ToldTheEnd, DataIsRead, Waits,
       CarefulReaderPanics, Ended
  <2>2. CASE Wake
    <3>1. poll = "parked" /\ UNCHANGED <<source, archive, panic, handle>>
      BY <2>2 DEF Wake
    <3>2. panic = "none"
      BY <1>2, <3>1, CareFacts
    <3> QED
      BY <1>2, <3>1, <3>2, CareStays DEF archive, handle
  <2> QED
    BY <1>2, <2>1, <2>2, FillCare, ReadCare, NextEntryCare, TaskCare DEF Next, Step
<1> QED
  BY <1>1, <1>2

-----------------------------------------------------------------------------
(* The theorems.                                                           *)

(* The invariant of the reader's place, which needs that of its handle.    *)
THEOREM PlaceInvariant ==
  ASSUME NoStaleHandles, SizesFit
  PROVE  Spec => []PInv
<1>1. Init => PInv
  BY InitPlace
<1>2. IInv /\ IInv' /\ PInv /\ [Next]_vars => PInv'
  BY NextPlaceInv
<1> QED
  BY <1>1, <1>2, ReaderInvariant, PTL DEF Spec

LEMMA PlaceStands ==
  ASSUME IInv, PInv
  PROVE  StandsInArchive
<1>1. /\ bytes \in Seq(Byte) /\ Len(bytes) \in Nat /\ fed \in 0 .. Len(bytes)
      /\ Len(Unread) \in Nat /\ Offset \in Nat /\ Offset + Len(Unread) = fed
      /\ Unread \in Seq(Byte) /\ fed \in Nat
  BY PlaceFacts, NowFacts
<1> DEFINE b == SubSeq(bytes, Offset + 1, fed)
<1>2. /\ b \in Seq(Byte)
      /\ Len(b) = IF Offset + 1 <= fed THEN fed - (Offset + 1) + 1 ELSE 0
      /\ \A i \in 1 .. fed - (Offset + 1) + 1 : b[i] = bytes[(Offset + 1) + i - 1]
  <2>1. \A i \in Offset + 1 .. fed : bytes[i] \in Byte
    BY <1>1, ElementOfSeq
  <2> QED
    BY <1>1, <2>1, SubSeqProperties
<1> HIDE DEF b
<1>3. Len(b) = Len(Unread) /\ \A i \in 1 .. Len(Unread) : b[i] = bytes[Offset + i]
  BY <1>1, <1>2
<1>4. Unread = b
  <2>1. \A i \in 1 .. Len(Unread) : Unread[i] = b[i]
    BY <1>3 DEF PInv, Window
  <2> QED
    BY <1>1, <1>2, <1>3, <2>1, SeqEqual
<1> QED
  BY <1>4 DEF b, PInv, Placed, StandsInArchive

(* State stands where the consumed bytes end and the buffer holds the      *)
(* bytes that follow: no byte is skipped, none of one item is taken for    *)
(* another's, whatever the object gave at a time (read/mod.rs:180).        *)
THEOREM ReaderStandsInArchive ==
  ASSUME NoStaleHandles, SizesFit
  PROVE  Spec => []StandsInArchive
<1>1. IInv /\ PInv => StandsInArchive
  BY PlaceStands
<1> QED
  BY <1>1, ReaderInvariant, PlaceInvariant, PTL

LEMMA PlaceReads ==
  ASSUME IInv, PInv
  PROVE  HandleReadsItsEntry
<1>1. entry # NoHeader => entry = hdrs[found]
  BY DEF PInv, OwnInv
<1>2. ASSUME found > 0
      PROVE  /\ got = [i \in 1 .. Len(got) |-> DataByte(hdrs[found], i)]
             /\ Len(got) = hdrs[found].size
                  - (IF state.tag = "ReceivingData" THEN state.rem ELSE 0)
  <2>1. got \in Seq(Byte) /\ \A i \in 1 .. Len(got) : got[i] = DataByte(hdrs[found], i)
    BY <1>2, NowFacts DEF PInv, GotInv
  <2>2. got = [i \in 1 .. Len(got) |-> got[i]]
    BY <2>1
  <2> QED
    BY <1>2, <2>1, <2>2 DEF PInv, GotInv, DataLeft
<1> QED
  BY <1>1, <1>2 DEF HandleReadsItsEntry

(* The handle is of the entry found last, and what was consumed through it *)
(* is the beginning of the data of that entry, all of it once State is     *)
(* past the data (poll_read_entry, read/mod.rs:94).                        *)
THEOREM ReaderReadsItsEntry ==
  ASSUME NoStaleHandles, SizesFit
  PROVE  Spec => []HandleReadsItsEntry
<1>1. IInv /\ PInv => HandleReadsItsEntry
  BY PlaceReads
<1> QED
  BY <1>1, ReaderInvariant, PlaceInvariant, PTL

(* What the calls answer has its reason in the source: the archive is over *)
(* only at its end marker and after all of its entries, the source ends    *)
(* early only where it is truncated, and a block refused as a header is    *)
(* damaged or not read whole (poll_next_entry, read/mod.rs:49).            *)
THEOREM ReaderAnswersAreReal ==
  ASSUME NoStaleHandles, SizesFit
  PROVE  Spec => []AnswersAreReal
<1>1. Init => AnsInv
  BY DEF Init, AnsInv
<1>2. IInv /\ IInv' /\ PInv /\ AnsInv /\ [Next]_vars => AnsInv'
  BY NextAnsInv
<1>3. IInv /\ PInv /\ AnsInv => AnswersAreReal
  BY AnswersHold
<1> QED
  BY <1>1, <1>2, <1>3, ReaderInvariant, PlaceInvariant, PTL DEF Spec

(* Without stale handles the bytes of an answer are of the entry found     *)
(* last, which is what the documentation asks for (lib.rs:162); with them, *)
(* as the stream yields them, this does not hold.                          *)
THEOREM HandlesDoNotInterleave ==
  ASSUME NoStaleHandles, SizesFit
  PROVE  Spec => []NotInterleaved
<1>1. Init => NotInterleaved
  BY DEF Init, NotInterleaved
<1>2. IInv /\ PInv /\ NotInterleaved /\ [Next]_vars => NotInterleaved'
  BY NextNotInterleaved
<1> QED
  BY <1>1, <1>2, ReaderInvariant, PlaceInvariant, PTL DEF Spec

(* A task that keeps to the documented use meets a panic in four cases     *)
(* only, two of the header and two of an entry without data                *)
(* (read/mod.rs:36, 141), whatever the object answers and whichever of its *)
(* calls the task cancels.                                                 *)
THEOREM PanicsOfACarefulReader ==
  ASSUME NoStaleHandles, SizesFit
  PROVE  Spec => []CarefulReaderPanics
<1>1. Init => CareInv
  <2> SUFFICES ASSUME Init PROVE CareInv
    OBVIOUS
  <2>1. state = ExpectingHeader /\ poll = "idle" /\ panic = "none" /\ entry = NoHeader
    BY DEF Init
  <2> QED
    BY <2>1, TagsOf DEF CareInv, PanicStops, EmptyEntry, ToldTheEnd, DataIsRead, Waits,
       CarefulReaderPanics
<1>2. IInv /\ IInv' /\ PInv /\ CareInv /\ NoBytesAtTheEndOnly /\ [Next]_vars => CareInv'
  BY NextCare
<1>3. CareInv => CarefulReaderPanics
  BY DEF CareInv, CarefulReaderPanics
<1> QED
  BY <1>1, <1>2, <1>3, ReaderInvariant, PlaceInvariant, NoBytesMeanTheEnd, PTL DEF Spec
=============================================================================
