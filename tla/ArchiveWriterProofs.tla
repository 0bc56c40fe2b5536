------------------------ MODULE ArchiveWriterProofs -------------------------
(***************************************************************************)
(* Theorems about ArchiveWriter: its type invariant, that State takes all  *)
(* that a call writes, and that a write takes from the arrays of slices    *)
(* and the buffer of SlicedWrites what ArchiveWriter says of its bytes.    *)
(***************************************************************************)
EXTENDS SlicedWrites, SlicesProofs, FiniteSetTheorems

-----------------------------------------------------------------------------
(* Types of the bytes that are written.                                    *)
LEMMA BlockFacts ==
  /\ BlockSize \in Nat /\ BlockSize > 0
  /\ Capacity \in Nat /\ Capacity >= BlockSize
  /\ Headers \subseteq HeaderType
  /\ Headers \cup {NoHeader} \subseteq Header
  BY BlockSizeAssumption, CapacityAssumption, HeadersAssumption DEF Header

LEMMA HeaderFields ==
  ASSUME NEW h \in Header
  PROVE  /\ h.id \in Nat /\ h.lead \in 0 .. BlockSize
         /\ h.size \in Nat \cup {BadSize}
  BY BlockSizeAssumption DEF Header, HeaderType, NoHeader

LEMMA ByteTypes ==
  ASSUME NEW h \in Header, NEW i \in Nat
  PROVE  /\ ZeroByte \in Byte
         /\ DataByte(h, i) \in Byte
         /\ HeaderByte(h, i) \in Byte
  BY HeaderFields DEF Byte, ZeroByte, DataByte, HeaderByte

LEMMA ZerosType ==
  ASSUME NEW n \in Nat
  PROVE  /\ Zeros(n) \in Seq(Byte) /\ Len(Zeros(n)) = n
         /\ \A i \in 1 .. n : Zeros(n)[i] = ZeroByte
<1>1. ZeroByte \in Byte
  BY DEF Byte, ZeroByte
<1> QED
  BY <1>1 DEF Zeros

LEMMA HeaderBytesType ==
  ASSUME NEW h \in Header
  PROVE  /\ HeaderBytes(h) \in Seq(Byte) /\ Len(HeaderBytes(h)) = BlockSize
         /\ \A i \in 1 .. BlockSize : HeaderBytes(h)[i] = HeaderByte(h, i)
<1>1. \A i \in 1 .. BlockSize : HeaderByte(h, i) \in Byte
  BY BlockFacts, ByteTypes
<1> QED
  BY <1>1, BlockFacts DEF HeaderBytes

LEMMA DataFromType ==
  ASSUME NEW h \in Header, NEW from \in Nat, NEW n \in Nat
  PROVE  /\ DataFrom(h, from, n) \in Seq(Byte) /\ Len(DataFrom(h, from, n)) = n
         /\ \A i \in 1 .. n : DataFrom(h, from, n)[i] = DataByte(h, from + i)
<1>1. \A i \in 1 .. n : DataByte(h, from + i) \in Byte
  BY ByteTypes
<1> QED
  BY <1>1 DEF DataFrom

LEMMA PrefixLenType ==
  ASSUME TypeOK, NEW bufs \in Bufs \cup {NoBufs}
  PROVE  /\ bufs.len \in Nat
         /\ PrefixLen(bufs) \in Nat
         /\ PrefixLen(bufs) <= bufs.len
         /\ PrefixLen(bufs) <= AsUsize(state.rem)
         /\ state.rem \in Nat /\ AsUsize(state.rem) \in 0 .. state.rem
<1>1. bufs.len \in Nat
  BY BufsAssumption DEF NoBufs
<1>2. state.rem \in Nat
  BY Canonical DEF TypeOK, StoreTypeOK
<1>3. AsUsize(state.rem) \in 0 .. state.rem
  BY <1>2, AsUsizeRange
<1> QED
  BY <1>1, <1>2, <1>3 DEF PrefixLen

(* A prefix of a sequence of bytes.                                        *)
LEMMA PrefixType ==
  ASSUME NEW b \in Seq(Byte), NEW n \in 0 .. Len(b)
  PROVE  /\ SubSeq(b, 1, n) \in Seq(Byte) /\ Len(SubSeq(b, 1, n)) = n
         /\ \A i \in 1 .. n : SubSeq(b, 1, n)[i] = b[i]
  BY SubSeqProperties, LenProperties

(* What a step is about to write is bytes that State lets it write, and so *)
(* is every prefix of it.                                                  *)
LEMMA OutgoingFits ==
  ASSUME TypeOK, Writes
  PROVE  Outgoing \in Seq(Byte) /\ Fits(state, Outgoing)
<1>1. /\ state.rem \in Nat /\ GoodState(state)
      /\ entry \in Header /\ told \in Nat /\ call.hdr \in Header
      /\ call.bufs \in Bufs \cup {NoBufs}
      /\ BlockSize \in Nat /\ BlockSize > 0
  BY BlockFacts, Canonical
     DEF TypeOK, StoreTypeOK, HandleTypeOK, ControlTypeOK, CallType
<1>2. CASE WritesHeader
  <2> DEFINE at == IF state.tag = "ExpectingHeader" THEN 0 ELSE BlockSize - state.rem
             b  == HeaderBytes(call.hdr)
  <2>1. Outgoing = SubSeq(b, at + 1, BlockSize)
    BY <1>2 DEF WritesHeader, Running, Outgoing
  <2>2. at \in 0 .. BlockSize
    BY <1>1, <1>2 DEF WritesHeader, GoodState
  <2>3. /\ SubSeq(b, at + 1, BlockSize) \in Seq(Byte)
        /\ Len(SubSeq(b, at + 1, BlockSize)) = BlockSize - at
    <3>1. b \in Seq(Byte) /\ Len(b) = BlockSize
      BY <1>1, HeaderBytesType
    <3> HIDE DEF b, at
    <3>2. \A i \in at + 1 .. BlockSize : b[i] \in Byte
      BY <1>1, <2>2, <3>1
    <3> QED
      BY <1>1, <2>2, <3>2, SubSeqProperties
  <2> QED
    BY <1>1, <1>2, <2>1, <2>3 DEF WritesHeader, Fits
<1>3. CASE Running("write", "body") /\ state.tag = "ReceivingData"
  <2>1. Outgoing = DataFrom(entry, told, PrefixLen(call.bufs))
    BY <1>3 DEF Running, Outgoing
  <2>2. PrefixLen(call.bufs) \in Nat /\ PrefixLen(call.bufs) <= AsUsize(state.rem)
    BY <1>1, PrefixLenType
  <2> QED
    BY <1>1, <1>3, <2>1, <2>2, DataFromType DEF Fits
<1>4. CASE Finishing /\ state.tag = "AligningData"
  <2>1. Outgoing = Zeros(state.rem)
    BY <1>4 DEF Finishing, Running, Outgoing
  <2> QED
    BY <1>1, <1>4, <2>1, ZerosType DEF Fits
<1>5. CASE WritesEnd
  <2> DEFINE m == IF state.tag = "ExpectingHeader" THEN BlockSize ELSE state.rem
  <2>1. Outgoing = Zeros(m)
    BY <1>5 DEF WritesEnd, Running, Outgoing
  <2>2. m \in Nat
    BY <1>1
  <2>3. /\ Zeros(m) \in Seq(Byte) /\ Len(Zeros(m)) = m
        /\ AllZero(Zeros(m))
    BY <2>2, ZerosType DEF AllZero
  <2> QED
    BY <1>1, <1>5, <2>1, <2>3 DEF WritesEnd, Fits
<1> QED
  BY <1>2, <1>3, <1>4, <1>5 DEF Writes

LEMMA FitsPrefix ==
  ASSUME NEW s, GoodState(s), NEW b \in Seq(Byte), Fits(s, b), NEW n \in 0 .. Len(b)
  PROVE  Fits(s, SubSeq(b, 1, n))
<1>1. /\ s.rem \in Nat /\ BlockSize \in Nat /\ AsUsize(s.rem) \in Nat
      /\ Len(b) \in Nat
  BY Canonical, AsUsizeRange, LenProperties, BlockFacts
<1>2. AllZero(b) => AllZero(SubSeq(b, 1, n))
  BY <1>1, PrefixType DEF AllZero
<1> QED
  BY <1>1, <1>2, PrefixType DEF Fits

-----------------------------------------------------------------------------
(* What the steps do to the buffer and the io object.                      *)
LEMMA UnsentType ==
  ASSUME TypeOK
  PROVE  /\ Unsent \in Seq(Byte) /\ Len(Unsent) = Len(data) - pos
         /\ Image \in Seq(Byte) /\ Len(Image) = Len(out) + Len(data) - pos
<1>1. /\ data \in Seq(Byte) /\ out \in Seq(Byte) /\ pos \in 0 .. Len(data)
      /\ Len(data) \in Nat /\ Len(out) \in Nat
  BY LenProperties DEF TypeOK, StoreTypeOK
<1>2. Unsent \in Seq(Byte) /\ Len(Unsent) = Len(data) - pos
  BY <1>1, SubSeqProperties DEF Unsent
<1> QED
  BY <1>1, <1>2, ConcatProperties DEF Image

(* Image does not change when bytes go from the buffer to the object.      *)
LEMMA FlushedFacts ==
  ASSUME TypeOK, Flushed
  PROVE  /\ data' \in Seq(Byte) /\ Len(data') <= Capacity /\ pos' \in 0 .. Len(data')
         /\ out' \in Seq(Byte) /\ Image' = Image /\ out' = Image
<1>1. Image \in Seq(Byte)
  BY UnsentType
<1>2. data' = <<>> /\ pos' = 0 /\ out' = Image
  BY DEF Flushed
<1>3. Unsent' = <<>>
  BY <1>2, SubSeqEmpty DEF Unsent
<1> QED
  BY <1>1, <1>2, <1>3, BlockFacts, EmptySeq, ConcatEmptySeq DEF Image

LEMMA FlushStopsFacts ==
  ASSUME TypeOK, NEW res, FlushStops(res)
  PROVE  /\ data' \in Seq(Byte) /\ Len(data') <= Capacity /\ pos' \in 0 .. Len(data')
         /\ out' \in Seq(Byte) /\ Image' = Image /\ res \in IoFaults
<1>1. /\ data \in Seq(Byte) /\ out \in Seq(Byte) /\ pos \in 0 .. Len(data)
      /\ Len(data) \in Nat /\ Len(data) <= Capacity
  BY LenProperties DEF TypeOK, StoreTypeOK
<1>2. PICK k \in 0 .. Len(Unsent) - 1 :
        out' = out \o SubSeq(data, pos + 1, pos + k) /\ pos' = pos + k
  BY DEF FlushStops
<1>3. k \in Nat /\ pos + k \in 0 .. Len(data) /\ data' = data
  BY <1>1, UnsentType DEF FlushStops
<1> DEFINE sent == SubSeq(data, pos + 1, pos + k)
           rest == SubSeq(data, pos + k + 1, Len(data))
<1>4. sent \in Seq(Byte) /\ rest \in Seq(Byte)
  BY <1>1, <1>3, SubSeqProperties
<1>5. sent \o rest = Unsent
  <2>1. /\ pos + 1 \in 1 .. Len(data) + 1
        /\ pos + k \in (pos + 1) - 1 .. Len(data)
        /\ Len(data) \in pos + k .. Len(data)
    BY <1>1, <1>3
  <2>2. SubSeq(data, pos + 1, pos + k) \o SubSeq(data, (pos + k) + 1, Len(data))
          = SubSeq(data, pos + 1, Len(data))
    BY <1>1, <2>1, ConcatAdjacentSubSeq
  <2> QED
    BY <2>2 DEF Unsent
<1>6. Unsent' = rest
  BY <1>2, <1>3 DEF Unsent
<1> HIDE DEF sent, rest
<1>7. out' = out \o sent
  BY <1>2 DEF sent
<1>8. out' \in Seq(Byte)
  BY <1>1, <1>4, <1>7, ConcatProperties
<1>9. Image' = (out \o sent) \o rest
  BY <1>6, <1>7 DEF Image
<1>10. (out \o sent) \o rest = out \o (sent \o rest)
  BY <1>1, <1>4, ConcatAssociative, SMTT(20)
<1>11. Image' = Image
  BY <1>5, <1>9, <1>10 DEF Image
<1>12. res \in IoFaults
  BY FlagsAssumption DEF FlushStops
<1> QED
  BY <1>1, <1>2, <1>3, <1>8, <1>11, <1>12

(* One write: `n' of the bytes offered are taken, at the end of Image, and *)
(* State moves over exactly them.                                          *)
LEMMA CountsType ==
  ASSUME NEW b \in Seq(Byte), NEW whole, NEW n \in Counts(b, whole)
  PROVE  n \in 0 .. Len(b) /\ (~ Direct(b) => n <= Capacity)
  BY LenProperties, BlockFacts DEF Counts, DirectCounts

(* Bytes appended behind a part of a sequence follow that part.            *)
LEMMA SuffixConcat ==
  ASSUME NEW d \in Seq(Byte), NEW s \in Seq(Byte), NEW p \in 0 .. Len(d)
  PROVE  SubSeq(d \o s, p + 1, Len(d \o s)) = SubSeq(d, p + 1, Len(d)) \o s
<1> DEFINE x == SubSeq(d, p + 1, Len(d))
           y == SubSeq(d \o s, p + 1, Len(d \o s))
<1>1. /\ Len(d) \in Nat /\ Len(s) \in Nat /\ p \in Nat
      /\ d \o s \in Seq(Byte) /\ Len(d \o s) = Len(d) + Len(s)
      /\ \A i \in 1 .. Len(d) : (d \o s)[i] = d[i]
      /\ \A i \in Len(d) + 1 .. Len(d) + Len(s) : (d \o s)[i] = s[i - Len(d)]
  BY LenProperties, ConcatProperties
<1>2. /\ x \in Seq(Byte) /\ Len(x) = Len(d) - p
      /\ \A i \in 1 .. Len(d) - p : x[i] = d[p + i]
  <2>1. \A i \in p + 1 .. Len(d) : d[i] \in Byte
    BY <1>1
  <2> QED
    BY <1>1, <2>1, SubSeqProperties
<1>3. /\ y \in Seq(Byte) /\ Len(y) = Len(d) + Len(s) - p
      /\ \A i \in 1 .. Len(d) + Len(s) - p : y[i] = (d \o s)[p + i]
  <2>1. \A i \in p + 1 .. Len(d) + Len(s) : (d \o s)[i] \in Byte
    BY <1>1
  <2> QED
    BY <1>1, <2>1, SubSeqProperties
<1> HIDE DEF x, y
<1>4. ASSUME NEW u \in Seq(Byte)
      PROVE  /\ u \o s \in Seq(Byte) /\ Len(u \o s) = Len(u) + Len(s)
             /\ \A i \in 1 .. Len(u) : (u \o s)[i] = u[i]
             /\ \A i \in Len(u) + 1 .. Len(u) + Len(s) : (u \o s)[i] = s[i - Len(u)]
  BY ConcatProperties
<1>5. ASSUME NEW i \in 1 .. Len(y)
      PROVE  y[i] = (x \o s)[i]
  <2>0. i \in 1 .. Len(d) + Len(s) - p
    BY <1>3
  <2>1. i \in Nat /\ 1 <= i /\ i <= Len(d) + Len(s) - p /\ y[i] = (d \o s)[p + i]
    <3>1. y[i] = (d \o s)[p + i]
      BY <1>3, <2>0
    <3>2. Len(d) + Len(s) - p \in Int
      BY <1>1
    <3> QED
      BY <2>0, <3>1, <3>2
  <2>2. CASE i <= Len(d) - p
    <3>1. i \in 1 .. Len(x) /\ p + i \in 1 .. Len(d) /\ i \in 1 .. Len(d) - p
      BY <1>1, <1>2, <2>1, <2>2
    <3> QED
      BY <1>1, <1>2, <1>4, <2>1, <3>1
  <2>3. CASE i > Len(d) - p
    <3>1. /\ p + i \in Len(d) + 1 .. Len(d) + Len(s)
          /\ i \in Len(x) + 1 .. Len(x) + Len(s)
          /\ (p + i) - Len(d) = i - Len(x)
      BY <1>1, <1>2, <2>1, <2>3
    <3>2. (d \o s)[p + i] = s[(p + i) - Len(d)] /\ (x \o s)[i] = s[i - Len(x)]
      BY <1>1, <1>4, <3>1
    <3> QED
      BY <2>1, <3>1, <3>2
  <2>4. i <= Len(d) - p \/ i > Len(d) - p
    BY <1>1, <2>1
  <2> QED
    BY <2>2, <2>3, <2>4
<1>6. x \o s \in Seq(Byte) /\ Len(y) = Len(x \o s)
  <2>1. x \o s \in Seq(Byte) /\ Len(x \o s) = Len(x) + Len(s)
    BY <1>2, <1>4
  <2>2. Len(x) + Len(s) = Len(y)
    BY <1>1, <1>2, <1>3
  <2> QED
    BY <2>1, <2>2
<1>7. y = x \o s
  BY <1>3, <1>5, <1>6, SeqEqual
<1> QED
  BY <1>7 DEF x, y

LEMMA SendFacts ==
  ASSUME TypeOK, NEW b \in Seq(Byte), NEW n \in 0 .. Len(b), Send(b, n),
         ~ Direct(b) => n <= Capacity
  PROVE  /\ data' \in Seq(Byte) /\ Len(data') <= Capacity /\ pos' \in 0 .. Len(data')
         /\ out' \in Seq(Byte) /\ Image' = Image \o SubSeq(b, 1, n)
<1> DEFINE sent == SubSeq(b, 1, n)
<1>1. sent \in Seq(Byte) /\ Len(sent) = n
  BY PrefixType
<1>2. /\ data \in Seq(Byte) /\ out \in Seq(Byte) /\ pos \in 0 .. Len(data)
      /\ Len(data) \in Nat /\ Len(data) <= Capacity /\ Len(b) \in Nat
      /\ Image \in Seq(Byte) /\ Unsent \in Seq(Byte) /\ Len(Unsent) = Len(data) - pos
      /\ Capacity \in Nat
  BY LenProperties, UnsentType, BlockFacts DEF TypeOK, StoreTypeOK
<1>3. CASE Direct(b)
  <2>1. out' = Image \o sent /\ data' = <<>> /\ pos' = 0
    BY <1>3 DEF Send
  <2>2. Unsent' = <<>>
    BY <2>1, SubSeqEmpty DEF Unsent
  <2>3. out' \in Seq(Byte)
    BY <1>1, <1>2, <2>1, ConcatProperties
  <2> HIDE DEF sent
  <2>4. Image' = Image \o sent
    BY <2>1, <2>2, <2>3, ConcatEmptySeq DEF Image
  <2> QED
    BY <1>2, <2>1, <2>3, <2>4, EmptySeq DEF sent
<1>4. CASE ~ Direct(b) /\ NeedsFlush(b)
  <2>1. out' = Image /\ data' = sent /\ pos' = 0
    BY <1>4 DEF Send
  <2> HIDE DEF sent
  <2>2. Unsent' = sent
    BY <1>1, <2>1, SubSeqFull DEF Unsent
  <2>3. Image' = Image \o sent
    BY <2>1, <2>2 DEF Image
  <2> QED
    BY <1>1, <1>2, <1>4, <2>1, <2>3 DEF sent
<1>5. CASE ~ NeedsFlush(b)
  <2>1. data' = data \o sent /\ out' = out /\ pos' = pos
    BY <1>5 DEF Send, NeedsFlush
  <2>2. Len(b) <= Capacity - Len(data)
    BY <1>2, <1>5 DEF NeedsFlush
  <2> HIDE DEF sent
  <2>3. data' \in Seq(Byte) /\ Len(data') = Len(data) + n
    BY <1>1, <1>2, <2>1, ConcatProperties
  <2>4. Unsent' = Unsent \o sent
    <3>1. Unsent' = SubSeq(data \o sent, pos + 1, Len(data \o sent))
      BY <2>1 DEF Unsent
    <3>2. SubSeq(data \o sent, pos + 1, Len(data \o sent))
            = SubSeq(data, pos + 1, Len(data)) \o sent
      BY <1>1, <1>2, SuffixConcat
    <3> QED
      BY <3>1, <3>2 DEF Unsent
  <2>5. Image' = Image \o sent
    <3>1. Image' = out \o (Unsent \o sent)
      BY <2>1, <2>4 DEF Image
    <3>2. out \in Seq(Byte) /\ Unsent \in Seq(Byte) /\ sent \in Seq(Byte)
      BY <1>1, <1>2
    <3>3. (out \o Unsent) \o sent = out \o (Unsent \o sent)
      BY <3>2, ConcatAssociative, SMTT(20)
    <3> QED
      BY <3>1, <3>3 DEF Image
  <2> QED
    BY <1>1, <1>2, <2>1, <2>2, <2>3, <2>5 DEF sent
<1> QED
  BY <1>3, <1>4, <1>5

LEMMA WriteFacts ==
  ASSUME TypeOK, NEW b \in Seq(Byte), Fits(state, b), NEW whole,
         NEW hdr \in Header, NEW n, PollWriteVectored(b, whole, hdr, n)
  PROVE  /\ n \in 0 .. Len(b)
         /\ shut' \in BOOLEAN => StoreTypeOK'
         /\ Image' = Image \o SubSeq(b, 1, n)
         /\ state' = TakeSlices(state, SubSeq(b, 1, n), hdr).state
<1>1. n \in 0 .. Len(b) /\ (~ Direct(b) => n <= Capacity) /\ Send(b, n)
  BY CountsType DEF PollWriteVectored
<1>2. state' = TakeSlices(state, SubSeq(b, 1, n), hdr).state
  BY DEF PollWriteVectored
<1>3. GoodState(state')
  <2>1. GoodState(state)
    BY DEF TypeOK, StoreTypeOK
  <2>2. Fits(state, SubSeq(b, 1, n)) /\ SubSeq(b, 1, n) \in Seq(Byte)
    BY <1>1, <2>1, FitsPrefix, PrefixType
  <2> QED
    BY <1>2, <2>1, <2>2, TakeFits
<1>4. /\ data' \in Seq(Byte) /\ Len(data') <= Capacity /\ pos' \in 0 .. Len(data')
      /\ out' \in Seq(Byte) /\ Image' = Image \o SubSeq(b, 1, n)
  BY <1>1, SendFacts
<1> QED
  BY <1>1, <1>2, <1>3, <1>4 DEF StoreTypeOK

LEMMA WriteFailsFacts ==
  ASSUME TypeOK, NEW b, NEW res, PollWriteFails(b, res)
  PROVE  /\ shut' \in BOOLEAN => StoreTypeOK'
         /\ Image' = Image /\ state' = state /\ res \in IoFaults
<1>1. state' = state /\ GoodState(state')
  BY DEF PollWriteFails, TypeOK, StoreTypeOK
<1>2. CASE FlushStops(res)
  BY <1>1, <1>2, FlushStopsFacts DEF StoreTypeOK
<1>3. CASE Flushed /\ res \in Faults
  BY <1>1, <1>3, FlushedFacts, FlagsAssumption DEF StoreTypeOK
<1> QED
  BY <1>2, <1>3 DEF PollWriteFails

-----------------------------------------------------------------------------
(* The operators that end a step keep the control variables in their types.*)
LEMMA ControlTypes ==
  ASSUME TypeOK
  PROVE  /\ Continue => ControlTypeOK'
         /\ Park => ControlTypeOK'
         /\ \A what \in {"state", "debug", "header"} : Panic(what) => ControlTypeOK'
         /\ \A res \in {"ok", "badheader", "overlap", "ioerror", "writezero",
                        "cancelled"}, n \in Nat :
              Return(res, n) => ControlTypeOK'
         /\ \A res \in IoFaults : Leave(res) => ControlTypeOK'
<1> USE DEF ControlTypeOK
<1>1. ControlTypeOK
  BY DEF TypeOK
<1>2. Continue => ControlTypeOK'
  BY <1>1 DEF Continue, control
<1>3. ASSUME Park PROVE ControlTypeOK'
  <2>1. call' \in CallType
    BY <1>1, <1>3 DEF Park, CallType
  <2> QED
    BY <1>1, <1>3, <2>1 DEF Park
<1>4. \A what \in {"state", "debug", "header"} : Panic(what) => ControlTypeOK'
  BY <1>1 DEF Panic
<1>5. ASSUME NEW res \in {"ok", "badheader", "overlap", "ioerror", "writezero",
                          "cancelled"}, NEW n \in Nat, Return(res, n)
      PROVE  ControlTypeOK'
  <2>1. NoCall \in CallType
    BY DEF NoCall, Call, CallType
  <2>2. Ret(res, n) \in RetType
    BY <1>1 DEF Ret, RetType, CallType
  <2> QED
    BY <1>1, <1>5, <2>1, <2>2 DEF Return
<1>6. \A res \in IoFaults : Leave(res) => ControlTypeOK'
  BY <1>3, <1>5 DEF Leave, IoFaults
<1> QED
  BY <1>2, <1>3, <1>4, <1>5, <1>6

(* The call of the step that runs, and the handle, have their types.       *)
LEMMA CallFacts ==
  ASSUME TypeOK
  PROVE  /\ call \in CallType /\ call.hdr \in Headers \cup {NoHeader}
         /\ call.hdr \in Header /\ entry \in Header /\ cur \in Header
         /\ call.bufs \in Bufs \cup {NoBufs} /\ call.taken \in Nat
         /\ told \in Nat /\ NoHeader \in Header
         /\ shut \in BOOLEAN /\ GoodState(state) /\ state.rem \in Nat
  BY BlockFacts, Canonical
     DEF TypeOK, StoreTypeOK, ControlTypeOK, HandleTypeOK, HistoryTypeOK, CallType

LEMMA AddEntryTypes ==
  ASSUME TypeOK, AddEntryStep
  PROVE  TypeOK'
<1>1. CASE HeaderWrite
  <2>1. Outgoing \in Seq(Byte) /\ Fits(state, Outgoing)
    BY <1>1, OutgoingFits DEF HeaderWrite, Writes
  <2>2. PICK n \in 0 .. BlockSize :
          /\ PollWriteVectored(Outgoing, Len(Outgoing), call.hdr, n)
          /\ IF n = 0 THEN Return("writezero", 0) ELSE Continue
          /\ IF n = 0 THEN UNCHANGED <<cur, head>>
             ELSE cur' = call.hdr /\ head' = call.hdr
    BY <1>1 DEF HeaderWrite
  <2>3. StoreTypeOK'
    BY <1>1, <2>1, <2>2, WriteFacts, CallFacts DEF HeaderWrite
  <2>4. ControlTypeOK'
    BY <2>2, ControlTypes
  <2>5. HandleTypeOK' /\ HistoryTypeOK'
    BY <1>1, <2>2, CallFacts
       DEF HeaderWrite, handle, TypeOK, HandleTypeOK, HistoryTypeOK
  <2> QED
    BY <2>3, <2>4, <2>5 DEF TypeOK
<1>2. CASE HeaderStalls
  <2>1. PICK res \in IoFaults : PollWriteFails(Outgoing, res) /\ Leave(res)
    BY <1>2 DEF HeaderStalls
  <2>2. StoreTypeOK' /\ ControlTypeOK'
    BY <1>2, <2>1, WriteFailsFacts, CallFacts, ControlTypes DEF HeaderStalls
  <2>3. HandleTypeOK' /\ HistoryTypeOK'
    BY <1>2 DEF HeaderStalls, handle, history, TypeOK, HandleTypeOK, HistoryTypeOK
  <2> QED
    BY <2>2, <2>3 DEF TypeOK
<1>3. CASE HeaderOpensEntry
  <2> DEFINE r == TarNext(state, <<>>, call.hdr)
  <2>1. state = ReceivedHeader /\ r = NextOfEntry(state, call.hdr, ReceivingData(call.hdr.size))
    BY <1>3 DEF HeaderOpensEntry, TarNext, ReceivedHeader, St
  <2>2. /\ state' = state \/ (call.hdr.size \in Nat /\ state' = ReceivingData(call.hdr.size))
        /\ \/ entry' = entry /\ told' = told
           \/ entry' = call.hdr /\ told' = 0
        /\ Return("badheader", 0) \/ Return("ok", 0) \/ Panic("header")
        /\ cur' \in {cur, call.hdr}
    BY <1>3, <2>1, CallFacts, HeaderFields
       DEF HeaderOpensEntry, NextOfEntry, Failure, Result, BadSize, handle
  <2>3. StoreTypeOK'
    BY <1>3, <2>2, GoodStates DEF HeaderOpensEntry, TypeOK, StoreTypeOK
  <2>4. ControlTypeOK'
    BY <2>2, ControlTypes
  <2>5. HandleTypeOK' /\ HistoryTypeOK'
    BY <1>3, <2>2, CallFacts
       DEF HeaderOpensEntry, TypeOK, HandleTypeOK, HistoryTypeOK
  <2> QED
    BY <2>3, <2>4, <2>5 DEF TypeOK
<1>4. CASE HeaderOverlaps \/ HeaderPanics
  <2>1. Return("overlap", 0) \/ Panic("state")
    BY <1>4 DEF HeaderOverlaps, HeaderPanics
  <2>2. ControlTypeOK'
    BY <2>1, ControlTypes
  <2> QED
    BY <1>4, <2>2
       DEF HeaderOverlaps, HeaderPanics, archive, handle, history,
           TypeOK, StoreTypeOK, HandleTypeOK, HistoryTypeOK
<1> QED
  BY <1>1, <1>2, <1>3, <1>4 DEF AddEntryStep

LEMMA WriteTypes ==
  ASSUME TypeOK, WriteStep
  PROVE  TypeOK'
<1>1. CASE EntryWrite
  <2>1. Outgoing \in Seq(Byte) /\ Fits(state, Outgoing)
    BY <1>1, OutgoingFits DEF EntryWrite, Writes
  <2>2. PICK n \in 0 .. PrefixLen(call.bufs) :
          /\ PollWriteVectored(Outgoing, Whole(call.bufs), entry, n)
          /\ IF n # state.rem
             THEN Return("ok", n) /\ told' = told + n
             ELSE /\ UNCHANGED told
                  /\ IF Debug /\ call.bufs.len # n
                     THEN Panic("debug")
                     ELSE /\ call' = [call EXCEPT !.phase = "align", !.taken = n]
                          /\ UNCHANGED <<poll, ret, panic>>
    BY <1>1 DEF EntryWrite
  <2>3. n \in Nat
    BY PrefixLenType, CallFacts
  <2>4. StoreTypeOK'
    BY <1>1, <2>1, <2>2, WriteFacts, CallFacts DEF EntryWrite
  <2>5. ControlTypeOK'
    <3>1. CASE Return("ok", n) \/ Panic("debug")
      BY <2>3, <3>1, ControlTypes
    <3>2. CASE /\ call' = [call EXCEPT !.phase = "align", !.taken = n]
               /\ UNCHANGED <<poll, ret, panic>>
      BY <2>3, <3>2 DEF TypeOK, ControlTypeOK, CallType
    <3> QED
      BY <2>2, <3>1, <3>2
  <2>6. HandleTypeOK' /\ HistoryTypeOK'
    BY <1>1, <2>2, <2>3, CallFacts
       DEF EntryWrite, history, TypeOK, HandleTypeOK, HistoryTypeOK
  <2> QED
    BY <2>4, <2>5, <2>6 DEF TypeOK
<1>2. CASE EntryStalls
  <2>1. PICK res \in IoFaults : PollWriteFails(Outgoing, res) /\ Leave(res)
    BY <1>2 DEF EntryStalls
  <2>2. StoreTypeOK' /\ ControlTypeOK'
    BY <1>2, <2>1, WriteFailsFacts, CallFacts, ControlTypes DEF EntryStalls
  <2> QED
    BY <1>2, <2>2
       DEF EntryStalls, handle, history, TypeOK, HandleTypeOK, HistoryTypeOK
<1>3. CASE EntryWritePanics
  <2>1. ControlTypeOK'
    BY <1>3, ControlTypes DEF EntryWritePanics
  <2> QED
    BY <1>3, <2>1
       DEF EntryWritePanics, archive, handle, history,
           TypeOK, StoreTypeOK, HandleTypeOK, HistoryTypeOK
<1> QED
  BY <1>1, <1>2, <1>3 DEF WriteStep

(* The result of poll_finish_entry for its two callers.                    *)
LEMMA FinishedTypes ==
  ASSUME TypeOK, EntryFinished
  PROVE  ControlTypeOK' /\ told' \in Nat
<1>1. CASE Return("ok", call.taken) /\ told' = told + call.taken
  BY <1>1, ControlTypes, CallFacts
<1>2. CASE /\ call' = [call EXCEPT !.phase = "flush"]
           /\ UNCHANGED <<poll, ret, panic, told>>
  <2>1. call' \in CallType
    BY <1>2, CallFacts DEF CallType
  <2> QED
    BY <1>2, <2>1, CallFacts DEF TypeOK, ControlTypeOK
<1> QED
  BY <1>1, <1>2 DEF EntryFinished

LEMMA FinishEntryTypes ==
  ASSUME TypeOK, FinishEntryStep
  PROVE  TypeOK'
<1>1. CASE AlignBegins
  <2>1. state = ReceivedData /\ state' = NextOfEntry(state, entry, AligningData(Align(entry.size))).state
    BY <1>1 DEF AlignBegins, TarNext, ReceivedData, St
  <2>2. GoodState(state')
    <3>1. CASE state' = state
      BY <3>1, CallFacts
    <3>2. CASE entry.size \in Nat /\ state' = AligningData(Align(entry.size))
      BY <3>2, AlignRange, GoodStates
    <3> QED
      BY <2>1, <3>1, <3>2, CallFacts, HeaderFields
         DEF NextOfEntry, Failure, Result, BadSize
  <2> QED
    BY <1>1, <2>2
       DEF AlignBegins, control, handle, history, TypeOK, StoreTypeOK,
           ControlTypeOK, HandleTypeOK, HistoryTypeOK
<1>2. CASE AlignWrite
  <2>1. Outgoing \in Seq(Byte) /\ Fits(state, Outgoing)
    BY <1>2, OutgoingFits DEF AlignWrite, Writes
  <2>2. StoreTypeOK'
    BY <1>2, <2>1, WriteFacts, CallFacts DEF AlignWrite
  <2> QED
    BY <1>2, <2>2
       DEF AlignWrite, control, handle, history, TypeOK,
           ControlTypeOK, HandleTypeOK, HistoryTypeOK
<1>3. CASE AlignStalls
  <2>1. PICK res \in IoFaults :
          /\ PollWriteFails(Outgoing, res)
          /\ IF call.op = "write" /\ res # "pending"
             THEN IF Debug THEN Panic("debug") /\ UNCHANGED told
                  ELSE Return("ok", call.taken) /\ told' = told + call.taken
             ELSE Leave(res) /\ UNCHANGED told
    BY <1>3 DEF AlignStalls
  <2>2. StoreTypeOK'
    BY <1>3, <2>1, WriteFailsFacts, CallFacts DEF AlignStalls
  <2>3. ControlTypeOK' /\ told' \in Nat
    BY <2>1, ControlTypes, CallFacts
  <2> QED
    BY <1>3, <2>2, <2>3
       DEF AlignStalls, history, TypeOK, HandleTypeOK, HistoryTypeOK
<1>4. CASE AlignEnds
  <2>1. state' = ExpectingHeader
    BY <1>4 DEF AlignEnds, TarNext, AlignedData, St, Result
  <2>2. StoreTypeOK'
    BY <1>4, <2>1, GoodStates DEF AlignEnds, TypeOK, StoreTypeOK
  <2>3. ControlTypeOK' /\ told' \in Nat
    BY <1>4, FinishedTypes DEF AlignEnds
  <2>4. HistoryTypeOK'
    <3>1. Len(Image) - EntryLen(cur) \in Int
      <4>1. cur.size \in Int /\ cur.size % BlockSize \in Int /\ BlockSize \in Int
        BY CallFacts, HeaderFields, BlockFacts DEF BadSize
      <4>2. Len(Image) \in Int
        BY UnsentType, LenProperties
      <4> QED
        BY <4>1, <4>2 DEF EntryLen, Align
    <3>2. [hdr |-> cur, head |-> head, base |-> Len(Image) - EntryLen(cur)]
            \in [hdr : Headers \cup {NoHeader}, head : Headers \cup {NoHeader},
                base : Int]
      BY <3>1 DEF TypeOK, HistoryTypeOK
    <3> QED
      BY <1>4, <3>2, AppendProperties DEF AlignEnds, TypeOK, HistoryTypeOK
  <2> QED
    BY <1>4, <2>2, <2>3, <2>4 DEF AlignEnds, TypeOK, HandleTypeOK
<1>5. CASE AlignedAlready
  <2>1. ControlTypeOK' /\ told' \in Nat
    BY <1>5, FinishedTypes DEF AlignedAlready
  <2> QED
    BY <1>5, <2>1
       DEF AlignedAlready, archive, history, TypeOK, StoreTypeOK,
           HandleTypeOK, HistoryTypeOK
<1>6. CASE AlignPanics
  <2>1. ControlTypeOK'
    BY <1>6, ControlTypes DEF AlignPanics
  <2> QED
    BY <1>6, <2>1
       DEF AlignPanics, archive, handle, history,
           TypeOK, StoreTypeOK, HandleTypeOK, HistoryTypeOK
<1> QED
  BY <1>1, <1>2, <1>3, <1>4, <1>5, <1>6 DEF FinishEntryStep

(* A flush of the buffer, on its own or before a shutdown.                 *)
LEMMA FlushTypes ==
  ASSUME TypeOK, FlushStep
  PROVE  TypeOK'
<1>1. StoreTypeOK'
  <2>1. state' = state /\ shut' = shut
    BY DEF FlushStep, FlushReturns, FlushStalls
  <2>2. Flushed \/ \E res : FlushStops(res)
    BY DEF FlushStep, FlushReturns, FlushStalls
  <2> QED
    BY <2>1, <2>2, FlushedFacts, FlushStopsFacts, CallFacts DEF StoreTypeOK
<1>2. ControlTypeOK'
  BY ControlTypes, FlagsAssumption DEF FlushStep, FlushReturns, FlushStalls
<1> QED
  BY <1>1, <1>2
     DEF FlushStep, FlushReturns, FlushStalls, handle, history,
         TypeOK, HandleTypeOK, HistoryTypeOK

LEMMA FinishTypes ==
  ASSUME TypeOK, FinishStep
  PROVE  TypeOK'
<1>1. CASE EndWrite
  <2>1. Outgoing \in Seq(Byte) /\ Fits(state, Outgoing)
    BY <1>1, OutgoingFits DEF EndWrite, Writes
  <2>2. StoreTypeOK'
    BY <1>1, <2>1, WriteFacts, CallFacts DEF EndWrite
  <2> QED
    BY <1>1, <2>2
       DEF EndWrite, control, handle, history, TypeOK,
           ControlTypeOK, HandleTypeOK, HistoryTypeOK
<1>2. CASE EndStalls
  <2>1. PICK res \in IoFaults : PollWriteFails(Outgoing, res) /\ Leave(res)
    BY <1>2 DEF EndStalls
  <2>2. StoreTypeOK' /\ ControlTypeOK'
    BY <1>2, <2>1, WriteFailsFacts, CallFacts, ControlTypes DEF EndStalls
  <2> QED
    BY <1>2, <2>2
       DEF EndStalls, handle, history, TypeOK, HandleTypeOK, HistoryTypeOK
<1>3. CASE Shutdown \/ ShutdownStalls
  <2>1. state' = state /\ shut' \in BOOLEAN
    BY <1>3, CallFacts DEF Shutdown, ShutdownStalls
  <2>2. Flushed \/ \E res : FlushStops(res)
    BY <1>3 DEF Shutdown, ShutdownStalls
  <2>3. StoreTypeOK'
    BY <2>1, <2>2, FlushedFacts, FlushStopsFacts, CallFacts DEF StoreTypeOK
  <2>4. ControlTypeOK'
    BY <1>3, ControlTypes, FlagsAssumption DEF Shutdown, ShutdownStalls
  <2> QED
    BY <1>3, <2>3, <2>4
       DEF Shutdown, ShutdownStalls, handle, history,
           TypeOK, HandleTypeOK, HistoryTypeOK
<1>4. CASE FinishPanics
  <2>1. ControlTypeOK'
    BY <1>4, ControlTypes DEF FinishPanics
  <2> QED
    BY <1>4, <2>1
       DEF FinishPanics, archive, handle, history,
           TypeOK, StoreTypeOK, HandleTypeOK, HistoryTypeOK
<1> QED
  BY <1>1, <1>2, <1>3, <1>4 DEF FinishStep

LEMMA TaskTypes ==
  ASSUME TypeOK, Task \/ Wake
  PROVE  TypeOK'
<1>1. ASSUME NEW op \in {"add_entry", "write", "flush", "finish_entry", "finish"},
             NEW hdr \in Headers \cup {NoHeader}, NEW bufs \in Bufs \cup {NoBufs},
             Begin(op, hdr, bufs)
      PROVE  TypeOK'
  <2>1. Call(op, hdr, bufs) \in CallType
    BY DEF Call, CallType
  <2> QED
    BY <1>1, <2>1
       DEF Begin, archive, handle, history, TypeOK, StoreTypeOK,
           ControlTypeOK, HandleTypeOK, HistoryTypeOK
<1>2. CASE DropEntry
  BY <1>2 DEF DropEntry, archive, control, history, TypeOK, StoreTypeOK,
              ControlTypeOK, HandleTypeOK, HistoryTypeOK
<1>3. CASE Wake
  BY <1>3 DEF Wake, archive, handle, history, TypeOK, StoreTypeOK,
              ControlTypeOK, HandleTypeOK, HistoryTypeOK
<1>4. CASE Cancel
  <2>1. ControlTypeOK'
    BY <1>4, ControlTypes DEF Cancel
  <2> QED
    BY <1>4, <2>1 DEF Cancel, archive, handle, history, TypeOK, StoreTypeOK,
                      HandleTypeOK, HistoryTypeOK
<1>5. CASE \E h \in Headers : AddEntry(h)
  BY <1>1, <1>5 DEF AddEntry
<1>6. CASE \E bufs \in Bufs : Write(bufs)
  BY <1>1, <1>6 DEF Write
<1>7. CASE Flush \/ FinishEntry \/ Finish
  BY <1>1, <1>7 DEF Flush, FinishEntry, Finish
<1>8. CASE IntoInner
  <2>1. data' \in Seq(Byte) /\ Len(data') = 0
    BY <1>8, EmptySeq DEF IntoInner
  <2>2. StoreTypeOK'
    BY <1>8, <2>1, BlockFacts DEF IntoInner, TypeOK, StoreTypeOK
  <2> QED
    BY <1>8, <2>2 DEF IntoInner, handle, history, TypeOK, ControlTypeOK,
                      HandleTypeOK, HistoryTypeOK
<1> QED
  BY <1>2, <1>3, <1>4, <1>5, <1>6, <1>7, <1>8 DEF Task

LEMMA InitTypes == Init => TypeOK
<1> SUFFICES ASSUME Init PROVE TypeOK
  OBVIOUS
<1>1. StoreTypeOK
  <2>1. data \in Seq(Byte) /\ out \in Seq(Byte) /\ Len(data) = 0
    BY EmptySeq DEF Init
  <2>2. GoodState(state)
    BY GoodStates DEF Init
  <2>3. Len(data) <= Capacity /\ pos \in 0 .. Len(data)
    BY <2>1, BlockFacts DEF Init
  <2>4. shut \in BOOLEAN
    BY DEF Init
  <2> QED
    BY <2>1, <2>2, <2>3, <2>4 DEF StoreTypeOK
<1>2. ControlTypeOK
  BY DEF Init, ControlTypeOK, NoCall, Call, CallType, RetType
<1>3. HandleTypeOK /\ HistoryTypeOK
  BY EmptySeq DEF Init, HandleTypeOK, HistoryTypeOK
<1> QED
  BY <1>1, <1>2, <1>3 DEF TypeOK

LEMMA NextTypes == TypeOK /\ [Next]_vars => TypeOK'
<1> SUFFICES ASSUME TypeOK, [Next]_vars PROVE TypeOK'
  OBVIOUS
<1>1. CASE UNCHANGED vars
  BY <1>1 DEF vars, TypeOK, StoreTypeOK, ControlTypeOK, HandleTypeOK, HistoryTypeOK
<1> QED
  BY <1>1, AddEntryTypes, WriteTypes, FinishEntryTypes, FlushTypes, FinishTypes,
     TaskTypes DEF Next, Step

(* Type correctness: the two pointers of Buf stay within its capacity, no  *)
(* counter of State leaves its block, and no call, result or handle takes  *)
(* a value the code has no name for (write/mod.rs, shared/state.rs:55).    *)
THEOREM TypeCorrect == Spec => []TypeOK
  BY InitTypes, NextTypes, PTL DEF Spec

-----------------------------------------------------------------------------
(* What is about to be written is always accepted by State: the checks of  *)
(* poll_write_vectored at write/mod.rs:229, 231, 279 and 280 cannot fail,  *)
(* whatever part of the bytes the io object takes.                         *)
THEOREM OutgoingAlwaysValid == Spec => []OutgoingIsValid
<1>1. TypeOK => OutgoingIsValid
  <2> SUFFICES ASSUME TypeOK, Writes, NEW n \in 0 .. Len(Outgoing)
               PROVE  Valid(SubSeq(Outgoing, 1, n), OutgoingHeader)
    BY DEF OutgoingIsValid
  <2>1. Outgoing \in Seq(Byte) /\ Fits(state, Outgoing) /\ GoodState(state)
    BY OutgoingFits, CallFacts
  <2>2. /\ SubSeq(Outgoing, 1, n) \in Seq(Byte)
        /\ Fits(state, SubSeq(Outgoing, 1, n))
    BY <2>1, PrefixType, FitsPrefix
  <2>3. OutgoingHeader \in Header
    BY CallFacts DEF OutgoingHeader
  <2> QED
    BY <2>1, <2>2, <2>3, TakeFits DEF Valid
<1> QED
  BY <1>1, TypeCorrect, PTL

-----------------------------------------------------------------------------
(* Where the slices of an offer end: as many cuts as there are ends, each  *)
(* the least of those beyond the cut before it.                            *)
NextCut(ends, x) ==
  CHOOSE e \in ends : e > x /\ \A f \in ends : f > x => e <= f

CutsUpTo(ends, x) == {f \in ends \ {0} : f <= x}

LEMMA NextCutIs ==
  ASSUME NEW len \in Nat, NEW ends, ends \subseteq 0 .. len, NEW x \in Nat,
         \E f \in ends : f > x
  PROVE  /\ NextCut(ends, x) \in ends /\ NextCut(ends, x) > x
         /\ \A f \in ends : f > x => NextCut(ends, x) <= f
<1> DEFINE T == {f \in ends : f > x}
<1>1. T \subseteq Nat /\ T # {}
  <2>1. PICK f \in ends : f > x
    OBVIOUS
  <2>2. f \in T
    BY <2>1
  <2>3. \A e \in 0 .. len : e \in Nat
    OBVIOUS
  <2> QED
    BY <2>2, <2>3
<1> HIDE DEF T
<1>2. PICK e \in T : \A f \in T : e <= f
  BY <1>1, LeastNumber
<1>3. e \in ends /\ e > x /\ \A f \in ends : f > x => e <= f
  BY <1>2 DEF T
<1> QED
  BY <1>3, Zenon DEF NextCut

LEMMA EndsFinite ==
  ASSUME NEW len \in Nat, NEW ends, ends \subseteq 0 .. len
  PROVE  /\ IsFiniteSet(ends \ {0}) /\ Cardinality(ends \ {0}) \in Nat
         /\ \A x : /\ IsFiniteSet(CutsUpTo(ends, x))
                   /\ Cardinality(CutsUpTo(ends, x)) \in Nat
                   /\ Cardinality(CutsUpTo(ends, x)) = Cardinality(ends \ {0})
                        => CutsUpTo(ends, x) = ends \ {0}
<1>1. IsFiniteSet(0 .. len)
  BY FS_Interval
<1>2. IsFiniteSet(ends \ {0})
  <2>1. ends \ {0} \in SUBSET (0 .. len)
    OBVIOUS
  <2> QED
    BY <1>1, <2>1, FS_Subset
<1>3. ASSUME NEW x
      PROVE  /\ IsFiniteSet(CutsUpTo(ends, x))
             /\ Cardinality(CutsUpTo(ends, x)) \in Nat
             /\ Cardinality(CutsUpTo(ends, x)) = Cardinality(ends \ {0})
                  => CutsUpTo(ends, x) = ends \ {0}
  <2>1. CutsUpTo(ends, x) \in SUBSET (ends \ {0})
    BY DEF CutsUpTo
  <2> QED
    BY <1>2, <2>1, FS_Subset, FS_CardinalityType
<1> QED
  BY <1>2, <1>3, FS_CardinalityType

(* Each cut adds one to the ends that are not beyond it.                   *)
LEMMA NextCutCounts ==
  ASSUME NEW len \in Nat, NEW ends, ends \subseteq 0 .. len, NEW x \in Nat,
         \E f \in ends : f > x,
         NEW y, y = NextCut(ends, x)
  PROVE  Cardinality(CutsUpTo(ends, y)) = Cardinality(CutsUpTo(ends, x)) + 1
<1>1. y \in ends /\ y > x /\ \A f \in ends : f > x => y <= f
  BY NextCutIs
<1>2. ends \subseteq Nat
  OBVIOUS
<1>3. CutsUpTo(ends, y) = CutsUpTo(ends, x) \cup {y}
  <2>1. ASSUME NEW f \in ends
        PROVE  f <= y <=> (f <= x \/ f = y)
    <3>1. f \in Nat /\ y \in Nat /\ (f > x => y <= f) /\ y > x
      BY <1>1, <1>2
    <3> QED
      BY <3>1
  <2>2. y \in ends \ {0}
    <3>1. y \in Nat /\ y > x
      BY <1>1, <1>2
    <3> QED
      BY <1>1, <3>1
  <2> QED
    BY <2>1, <2>2, Zenon DEF CutsUpTo
<1>4. y \notin CutsUpTo(ends, x)
  BY <1>1, <1>2 DEF CutsUpTo
<1> DEFINE S == CutsUpTo(ends, x)
<1>5. IsFiniteSet(S)
  BY EndsFinite
<1> HIDE DEF S
<1>6. Cardinality(S \cup {y}) = IF y \in S THEN Cardinality(S) ELSE Cardinality(S) + 1
  BY <1>5, FS_AddElement
<1>7. y \notin S
  BY <1>4 DEF S
<1> QED
  BY <1>3, <1>6, <1>7 DEF S

CutSteps(ends, n, g) ==
  /\ g[0] = 0
  /\ \A k \in 1 .. n :
       (\E f \in ends : f > g[k - 1]) => g[k] = NextCut(ends, g[k - 1])

LEMMA CutCounts ==
  ASSUME NEW len \in Nat, NEW ends, ends \subseteq 0 .. len,
         NEW n, n = Cardinality(ends \ {0}),
         NEW g, CutSteps(ends, n, g)
  PROVE  \A m \in 0 .. n :
           /\ g[m] \in 0 .. len /\ (m = 0 \/ g[m] \in ends)
           /\ Cardinality(CutsUpTo(ends, g[m])) = m
           /\ m < n => \E f \in ends : f > g[m]
<1> DEFINE Good(m) == /\ g[m] \in 0 .. len /\ (m = 0 \/ g[m] \in ends)
                      /\ Cardinality(CutsUpTo(ends, g[m])) = m
           More(m) == \E f \in ends : f > g[m]
           T == {m \in 0 .. n : Good(m)}
<1>1. n \in Nat
  BY EndsFinite
<1>2. ASSUME NEW m \in 0 .. n, m \in T, m < n PROVE More(m)
  <2>1. g[m] \in 0 .. len /\ Cardinality(CutsUpTo(ends, g[m])) # n
    BY <1>1, <1>2
  <2>2. CutsUpTo(ends, g[m]) # ends \ {0}
    BY <2>1
  <2>3. PICK f \in ends \ {0} : ~ (f <= g[m])
    BY <2>2 DEF CutsUpTo
  <2>4. f \in ends /\ f > g[m]
    BY <2>1, <2>3
  <2> QED
    BY <2>4
<1>3. 0 \in T
  <2>1. CutsUpTo(ends, 0) = {}
    <3>1. ASSUME NEW f \in ends \ {0} PROVE ~ (f <= 0)
      <4>1. f \in 0 .. len /\ f # 0
        OBVIOUS
      <4> QED
        BY <4>1
    <3> QED
      BY <3>1, Zenon DEF CutsUpTo
  <2>2. Cardinality(CutsUpTo(ends, 0)) = 0
    BY <2>1, FS_EmptySet
  <2>3. g[0] = 0 /\ g[0] \in 0 .. len /\ 0 \in 0 .. n
    BY <1>1 DEF CutSteps
  <2>4. Good(0)
    BY <2>2, <2>3
  <2> HIDE DEF Good
  <2> QED
    BY <2>3, <2>4
<1>4. ASSUME NEW m \in 0 .. n - 1, m \in T PROVE m + 1 \in T
  <2>1. /\ m \in 0 .. n /\ m < n /\ m + 1 \in 1 .. n /\ m + 1 \in 0 .. n /\ (m + 1) - 1 = m
    BY <1>1
  <2>2. More(m) /\ g[m] \in Nat /\ Cardinality(CutsUpTo(ends, g[m])) = m
    <3>1. Good(m)
      BY <1>4
    <3>2. More(m)
      <4> HIDE DEF More, T
      <4> QED
        BY <1>2, <1>4, <2>1
    <3>3. \A e \in 0 .. len : e \in Nat
      OBVIOUS
    <3> HIDE DEF More
    <3> QED
      BY <3>1, <3>2, <3>3
  <2>3. g[m + 1] = NextCut(ends, g[m])
    BY <2>1, <2>2 DEF CutSteps
  <2>4. g[m + 1] \in ends
    BY <2>2, <2>3, NextCutIs, Zenon
  <2>5. Cardinality(CutsUpTo(ends, g[m + 1])) = m + 1
    <3> DEFINE x == g[m]
               y == g[m + 1]
    <3>1. x \in Nat /\ (\E f \in ends : f > x) /\ y = NextCut(ends, x)
      BY <2>2, <2>3
    <3> HIDE DEF x, y
    <3>2. Cardinality(CutsUpTo(ends, y)) = Cardinality(CutsUpTo(ends, x)) + 1
      BY <3>1, NextCutCounts
    <3> QED
      BY <2>2, <3>2 DEF x, y
  <2>6. Good(m + 1)
    BY <2>4, <2>5
  <2> HIDE DEF Good
  <2> QED
    BY <2>1, <2>6
<1>5. 0 .. n \subseteq T
  <2> HIDE DEF T
  <2> QED
    BY <1>1, <1>3, <1>4, UpTo
<1>6. ASSUME NEW m \in 0 .. n PROVE Good(m) /\ (m < n => More(m))
  BY <1>2, <1>5
<1> QED
  BY <1>6

LEMMA CutsAre ==
  ASSUME NEW bufs, NEW len, len = bufs.len, NEW ends, ends = bufs.ends,
         len \in Nat, ends \subseteq 0 .. len, len \in ends,
         NEW n, n = Cardinality(ends \ {0}), NEW c, c = Cuts(bufs)
  PROVE  /\ n \in Nat
         /\ c[0] = 0 /\ c[n] = len
         /\ \A k \in 0 .. n : c[k] \in 0 .. len /\ (k = 0 \/ c[k] \in ends)
         /\ \A k \in 1 .. n : /\ c[k - 1] < c[k]
                              /\ \A f \in ends : f > c[k - 1] => c[k] <= f
<1> DEFINE F == [k \in 1 .. n |->
                   [x \in Nat |-> IF \E f \in ends : f > x THEN NextCut(ends, x) ELSE 0]]
           Rhs(g) == [k \in 0 .. n |-> IF k = 0 THEN 0 ELSE NextCut(ends, g[k - 1])]
           Is(g) == g = Rhs(g)
           More(x) == \E f \in ends : f > x
<1>1. n \in Nat /\ \A e \in ends : e \in Nat
  <2>1. \A e \in 0 .. len : e \in Nat
    OBVIOUS
  <2> QED
    BY <2>1, EndsFinite
<1>2. IsStep(F, n, Nat)
  <2>1. ASSUME NEW x \in Nat
        PROVE  (IF More(x) THEN NextCut(ends, x) ELSE 0) \in Nat
    <3>1. CASE More(x)
      BY <1>1, <3>1, NextCutIs
    <3>2. CASE ~ More(x)
      BY <3>2
    <3> QED
      BY <3>1, <3>2
  <2> QED
    BY <2>1 DEF IsStep
<1>3. \A k \in 1 .. n : \A x \in Nat : More(x) => F[k][x] = NextCut(ends, x)
  OBVIOUS
<1>4. c = CHOOSE g : Is(g)
  BY DEF Cuts, NextCut
<1> HIDE DEF F
<1>5. PICK g : Follows(g, n, Nat, 0, F)
  BY <1>1, <1>2, RecursionExists
<1>6. ASSUME NEW h, CutSteps(ends, n, h)
      PROVE  \A m \in 0 .. n : /\ h[m] \in 0 .. len /\ (m = 0 \/ h[m] \in ends)
                               /\ Cardinality(CutsUpTo(ends, h[m])) = m
                               /\ m < n => More(h[m])
  BY <1>6, CutCounts
<1>7. Is(g)
  <2>1. /\ g = [k \in 0 .. n |-> g[k]] /\ g[0] = 0
        /\ \A k \in 1 .. n : g[k - 1] \in Nat /\ g[k] = F[k][g[k - 1]]
    <3>1. \A k \in 1 .. n : k - 1 \in 0 .. n
      BY <1>1
    <3> QED
      BY <1>5, <3>1 DEF Follows
  <2>2. CutSteps(ends, n, g)
    BY <1>3, <2>1 DEF CutSteps
  <2>3. ASSUME NEW k \in 0 .. n
        PROVE  g[k] = IF k = 0 THEN 0 ELSE NextCut(ends, g[k - 1])
    <3>1. CASE k = 0
      BY <2>1, <3>1
    <3>2. CASE k # 0
      <4>1. k \in 1 .. n /\ k - 1 \in 0 .. n /\ k - 1 < n
        BY <1>1, <3>2
      <4> HIDE DEF More
      <4>2. More(g[k - 1])
        BY <1>6, <2>2, <4>1
      <4> USE DEF More
      <4> QED
        BY <2>2, <3>2, <4>1, <4>2 DEF CutSteps
    <3> QED
      BY <3>1, <3>2
  <2>4. \A k \in 0 .. n : Rhs(g)[k] = IF k = 0 THEN 0 ELSE NextCut(ends, g[k - 1])
    OBVIOUS
  <2>5. Rhs(g) = [k \in 0 .. n |-> Rhs(g)[k]]
    OBVIOUS
  <2> HIDE DEF Rhs
  <2>6. \A k \in 0 .. n : g[k] = Rhs(g)[k]
    BY <2>3, <2>4
  <2> QED
    BY <2>1, <2>5, <2>6
<1>8. c = Rhs(c)
  <2>1. Is(c)
    <3> HIDE DEF Is
    <3> QED
      BY <1>4, <1>7
  <2> QED
    BY <2>1
<1>9. c[0] = 0 /\ \A k \in 1 .. n : c[k] = NextCut(ends, c[k - 1])
  <2>1. Rhs(c)[0] = 0
    BY <1>1
  <2>2. \A k \in 1 .. n : Rhs(c)[k] = NextCut(ends, c[k - 1])
    BY <1>1
  <2> HIDE DEF Rhs
  <2> QED
    BY <1>8, <2>1, <2>2, Zenon
<1> HIDE DEF More
<1>10. \A m \in 0 .. n : /\ c[m] \in 0 .. len /\ (m = 0 \/ c[m] \in ends)
                         /\ Cardinality(CutsUpTo(ends, c[m])) = m
                         /\ m < n => More(c[m])
  <2>1. CutSteps(ends, n, c)
    BY <1>9 DEF CutSteps
  <2> QED
    BY <1>6, <2>1
<1>11. ASSUME NEW k \in 1 .. n
       PROVE  /\ c[k - 1] < c[k]
              /\ \A f \in ends : f > c[k - 1] => c[k] <= f
  <2>1. k - 1 \in 0 .. n /\ k - 1 < n
    BY <1>1
  <2> DEFINE x == c[k - 1]
  <2>2. x \in Nat /\ More(x) /\ c[k] = NextCut(ends, x)
    <3>1. c[k - 1] \in 0 .. len
      BY <1>10, <2>1
    <3>2. \A e \in 0 .. len : e \in Nat
      OBVIOUS
    <3>3. More(c[k - 1]) /\ c[k] = NextCut(ends, c[k - 1])
      BY <1>9, <1>10, <2>1
    <3> QED
      BY <3>1, <3>2, <3>3
  <2> HIDE DEF x
  <2>3. NextCut(ends, x) > x /\ NextCut(ends, x) \in ends
        /\ \A f \in ends : f > x => NextCut(ends, x) <= f
    BY <2>2, NextCutIs DEF More
  <2>4. x < c[k] /\ \A f \in ends : f > x => c[k] <= f
    BY <1>1, <2>2, <2>3
  <2> QED
    BY <2>4 DEF x
<1>12. c[n] = len
  <2>1. c[n] \in 0 .. len /\ Cardinality(CutsUpTo(ends, c[n])) = n
    BY <1>1, <1>10
  <2>2. CutsUpTo(ends, c[n]) = ends \ {0}
    BY <2>1, EndsFinite
  <2>3. CASE len = 0
    BY <2>1, <2>3
  <2>4. CASE len # 0
    <3>1. len \in CutsUpTo(ends, c[n])
      BY <2>2, <2>4
    <3>2. len <= c[n]
      BY <3>1 DEF CutsUpTo
    <3> QED
      BY <2>1, <3>2
  <2> QED
    BY <2>3, <2>4
<1> QED
  BY <1>1, <1>9, <1>10, <1>11, <1>12

-----------------------------------------------------------------------------
(* What a step offers: slices that hold the bytes of the offer in order,   *)
(* of which Outgoing are the first.                                        *)
LEMMA DataParts ==
  ASSUME NEW h \in Header, NEW from \in Nat, NEW len \in Nat,
         NEW i \in 0 .. len, NEW j \in i .. len
  PROVE  DataFrom(h, from + i, j - i) = Part(DataFrom(h, from, len), i, j)
<1> DEFINE d == DataFrom(h, from, len)
           x == DataFrom(h, from + i, j - i)
           y == Part(d, i, j)
<1>1. d \in Seq(Byte) /\ Len(d) = len /\ \A k \in 1 .. len : d[k] = DataByte(h, from + k)
  BY DataFromType
<1>2. from + i \in Nat /\ j - i \in Nat
  OBVIOUS
<1>3. /\ x \in Seq(Byte) /\ Len(x) = j - i
      /\ \A k \in 1 .. j - i : x[k] = DataByte(h, (from + i) + k)
  BY <1>2, DataFromType
<1> HIDE DEF d, x
<1>4. /\ y \in Seq(Byte) /\ Len(y) = j - i
      /\ \A k \in 1 .. j - i : y[k] = d[i + k]
  BY <1>1, PartFacts
<1> HIDE DEF y
<1>5. ASSUME NEW k \in 1 .. Len(x) PROVE x[k] = y[k]
  <2>1. /\ k \in 1 .. j - i /\ i + k \in 1 .. len /\ (from + i) + k = from + (i + k)
    BY <1>2, <1>3
  <2> QED
    BY <1>1, <1>3, <1>4, <2>1
<1>6. x = y
  BY <1>3, <1>4, <1>5, SeqEqual
<1> QED
  BY <1>6 DEF d, x, y

LEMMA FunctionIsSeq ==
  ASSUME NEW S, NEW n \in Nat, NEW b \in [1 .. n -> S]
  PROVE  b \in Seq(S) /\ Len(b) = n
  OBVIOUS

LEMMA OfferIs ==
  ASSUME NEW bufs \in Bufs \cup {NoBufs}, entry \in Header, told \in Nat,
         NEW d, d = DataFrom(entry, told, bufs.len),
         NEW b, b = SlicesOffered(bufs),
         NEW c, c = Cuts(bufs), NEW n, n = Cardinality(bufs.ends \ {0})
  PROVE  /\ d \in Seq(Byte) /\ Len(d) = bufs.len /\ bufs.len \in Nat
         /\ bufs.ends \subseteq 0 .. bufs.len
         /\ n \in Nat
         /\ c[0] = 0 /\ c[n] = bufs.len
         /\ \A k \in 0 .. n : c[k] \in 0 .. bufs.len /\ (k = 0 \/ c[k] \in bufs.ends)
         /\ \A k \in 1 .. n : /\ c[k - 1] < c[k]
                              /\ \A f \in bufs.ends : f > c[k - 1] => c[k] <= f
         /\ b \in Array /\ Len(b) = n
         /\ Concat(b) = d
         /\ \A k \in 0 .. n : Ends(b)[k] = c[k]
<1> DEFINE len == bufs.len
           ends == bufs.ends
           S(k) == DataFrom(entry, told + c[k - 1], c[k] - c[k - 1])
<1>1. len \in Nat /\ ends \subseteq 0 .. len /\ len \in ends
  BY BufsAssumption DEF NoBufs
<1>2. d \in Seq(Byte) /\ Len(d) = len
  BY <1>1, DataFromType
<1>3. /\ n \in Nat
      /\ c[0] = 0 /\ c[n] = len
      /\ \A k \in 0 .. n : c[k] \in 0 .. len /\ (k = 0 \/ c[k] \in ends)
      /\ \A k \in 1 .. n : /\ c[k - 1] < c[k]
                           /\ \A f \in ends : f > c[k - 1] => c[k] <= f
  <2> HIDE DEF len, ends
  <2>1. len = bufs.len /\ ends = bufs.ends
    BY DEF len, ends
  <2>2. n = Cardinality(ends \ {0})
    BY <2>1
  <2> QED
    BY <1>1, <2>1, <2>2, CutsAre
<1>4. b = [k \in 1 .. n |-> S(k)]
  BY DEF SlicesOffered
<1>5. ASSUME NEW k \in 1 .. n
      PROVE  /\ c[k - 1] \in 0 .. len /\ c[k] \in c[k - 1] .. len
             /\ S(k) = Part(d, c[k - 1], c[k]) /\ S(k) \in Seq(Byte)
  <2>1. k - 1 \in 0 .. n /\ k \in 0 .. n
    BY <1>3
  <2>2. c[k - 1] \in 0 .. len /\ c[k] \in 0 .. len /\ c[k - 1] < c[k]
    BY <1>3, <2>1
  <2> DEFINE x == c[k - 1]
             y == c[k]
  <2> HIDE DEF len
  <2>3. x \in 0 .. len /\ y \in x .. len
    BY <1>1, <2>2
  <2> HIDE DEF x, y
  <2>4. DataFrom(entry, told + x, y - x) = Part(DataFrom(entry, told, len), x, y)
    BY <1>1, <2>3, DataParts
  <2>5. d = DataFrom(entry, told, len)
    BY DEF len
  <2>6. Part(d, x, y) \in Seq(Byte)
    BY <1>2, <2>3, PartFacts DEF len
  <2>7. DataFrom(entry, told + x, y - x) = Part(d, x, y)
    BY <2>4, <2>5
  <2> QED
    BY <2>3, <2>6, <2>7 DEF x, y
<1> HIDE DEF S
<1>6. b \in Array /\ Len(b) = n /\ \A k \in 1 .. n : b[k] = S(k)
  <2>1. n \in Nat /\ \A k \in 1 .. n : S(k) \in Seq(Byte)
    BY <1>3, <1>5
  <2>2. b \in [1 .. n -> Seq(Byte)]
    BY <1>4, <2>1, Zenon
  <2>3. b \in Seq(Seq(Byte)) /\ Len(b) = n
    BY <2>1, <2>2, FunctionIsSeq, Zenon
  <2>4. \A k \in 1 .. n : b[k] = S(k)
    BY <1>4
  <2> QED
    BY <2>3, <2>4 DEF Array
<1>7. Pieces(b, d, c)
  <2>1. c[0] \in 0 .. Len(d)
    BY <1>1, <1>2, <1>3
  <2>2. ASSUME NEW k \in 1 .. Len(b)
        PROVE  /\ c[k - 1] \in 0 .. Len(d) /\ c[k] \in c[k - 1] .. Len(d)
               /\ b[k] = Part(d, c[k - 1], c[k])
    <3>1. k \in 1 .. n
      BY <1>6
    <3> HIDE DEF len
    <3>2. /\ c[k - 1] \in 0 .. len /\ c[k] \in c[k - 1] .. len
          /\ b[k] = Part(d, c[k - 1], c[k])
      BY <1>5, <1>6, <3>1
    <3>3. Len(d) = len
      BY <1>2
    <3> QED
      BY <3>2, <3>3
  <2> QED
    BY <2>1, <2>2, Zenon DEF Pieces
<1>8. Concat(b) = Part(d, c[0], c[Len(b)])
  BY <1>2, <1>6, <1>7, ConcatPieces
<1>9. Concat(b) = d
  BY <1>2, <1>3, <1>6, <1>8, PartWhole
<1>10. \A k \in 0 .. Len(b) : Ends(b)[k] = c[k]
  BY <1>2, <1>3, <1>6, <1>7, PiecesEnd
<1> QED
  BY <1>1, <1>2, <1>3, <1>6, <1>9, <1>10

LEMMA OutgoingIsShort ==
  ASSUME TypeOK, Writes
  PROVE  Len(Outgoing) \in Nat /\ Len(Outgoing) < UsizeMod
<1>1. Outgoing \in Seq(Byte) /\ Fits(state, Outgoing) /\ GoodState(state)
  BY OutgoingFits, CallFacts
<1>2. Len(Outgoing) \in Nat /\ state.rem \in Nat
  BY <1>1, LenProperties, CallFacts
<1>3. AsUsize(state.rem) \in Nat /\ AsUsize(state.rem) < UsizeMod
  <2>1. UsizeMod \in Nat \ {0}
    BY BlockSizeAssumption, UsizeAssumption
  <2>2. state.rem % UsizeMod \in 0 .. UsizeMod - 1
    BY <1>2, <2>1
  <2> QED
    BY <1>2, <2>1, <2>2 DEF AsUsize
<1>4. Len(Outgoing) <= BlockSize \/ Len(Outgoing) <= AsUsize(state.rem)
  BY <1>1, <1>2, BlockSizeAssumption DEF Fits, GoodState
<1> QED
  BY <1>2, <1>3, <1>4, BlockSizeAssumption, UsizeAssumption

LEMMA OfferedIs ==
  ASSUME TypeOK, Writes, NEW c, c = Concat(Offered), NEW b, b = Outgoing
  PROVE  /\ Offered \in Array /\ Limit \in Nat /\ c \in Seq(Byte)
         /\ b = Part(c, 0, Advance(c, Limit)) /\ Len(b) = Advance(c, Limit)
<1>1. Outgoing \in Seq(Byte) /\ Len(Outgoing) \in Nat
  BY OutgoingFits, LenProperties
<1>2. CASE Running("write", "body")
  <2> DEFINE bufs == call.bufs
             d == DataFrom(entry, told, bufs.len)
             m == PrefixLen(bufs)
  <2>1. bufs \in Bufs \cup {NoBufs} /\ entry \in Header /\ told \in Nat
    BY CallFacts
  <2>2. Offered = SlicesOffered(bufs) /\ Limit = AsUsize(state.rem)
    BY <1>2 DEF Offered, Limit
  <2>3. Outgoing = DataFrom(entry, told, m)
    BY <1>2 DEF Outgoing, Running
  <2> HIDE DEF bufs
  <2>4. /\ d \in Seq(Byte) /\ Len(d) = bufs.len /\ bufs.len \in Nat
        /\ SlicesOffered(bufs) \in Array /\ Concat(SlicesOffered(bufs)) = d
    <3> DEFINE o == SlicesOffered(bufs)
               cs == Cuts(bufs)
               n == Cardinality(bufs.ends \ {0})
    <3>1. /\ d = DataFrom(entry, told, bufs.len) /\ o = SlicesOffered(bufs)
          /\ cs = Cuts(bufs) /\ n = Cardinality(bufs.ends \ {0})
      OBVIOUS
    <3> HIDE DEF d, o, cs, n
    <3>2. d \in Seq(Byte) /\ Len(d) = bufs.len /\ bufs.len \in Nat
      BY <2>1, <3>1, OfferIs
    <3>3. o \in Array /\ Concat(o) = d
      BY <2>1, <3>1, OfferIs
    <3> QED
      BY <3>2, <3>3 DEF o
  <2>5. m \in 0 .. bufs.len /\ state.rem \in Nat /\ AsUsize(state.rem) \in Nat
    BY <2>1, PrefixLenType
  <2>6. m = Advance(d, AsUsize(state.rem))
    BY <2>4, <2>5 DEF PrefixLen, Advance
  <2> HIDE DEF m
  <2>7. DataFrom(entry, told + 0, m - 0) = Part(DataFrom(entry, told, bufs.len), 0, m)
    <3>1. 0 \in 0 .. bufs.len /\ m \in 0 .. bufs.len
      BY <2>4, <2>5
    <3> QED
      BY <2>1, <2>4, <3>1, DataParts
  <2>8. told + 0 = told /\ m - 0 = m
    BY <2>1, <2>5
  <2>9. Outgoing = Part(d, 0, m)
    BY <2>3, <2>7, <2>8
  <2>10. Len(Outgoing) = m
    <3>1. Len(DataFrom(entry, told, m)) = m
      BY <2>1, <2>4, <2>5, DataFromType
    <3> QED
      BY <2>3, <3>1
  <2> HIDE DEF d
  <2> QED
    BY <2>2, <2>4, <2>5, <2>6, <2>9, <2>10
<1>3. CASE ~ Running("write", "body")
  <2>1. Offered = <<Outgoing>> /\ Limit = Len(Outgoing)
    BY <1>3 DEF Offered, Limit
  <2>2. <<b>> \in Seq(Seq(Byte)) /\ Concat(<<b>>) = b
    BY <1>1, ConcatOne
  <2>3. Offered \in Array /\ c = b
    BY <2>1, <2>2 DEF Array
  <2>4. Advance(b, Len(b)) = Len(b)
    BY <1>1 DEF Advance
  <2>5. Part(b, 0, Len(b)) = b
    BY <1>1, PartWhole
  <2> QED
    BY <1>1, <2>1, <2>3, <2>4, <2>5
<1> QED
  BY <1>2, <1>3

(* The last of the ends up to which a prefix of the offer reaches.         *)
LEMMA WholeIs ==
  ASSUME TypeOK, Writes, Running("write", "body"),
         NEW i \in 0 .. Len(Offered),
         NEW e, e = Ends(Offered), NEW m, m = Limit,
         e[i] <= m, i < Len(Offered) => m < e[i + 1]
  PROVE  Whole(call.bufs) = e[i]
<1> DEFINE bufs == call.bufs
           len == bufs.len
           ends == bufs.ends
           c == Cuts(bufs)
           n == Cardinality(ends \ {0})
           w == e[i]
           x == PrefixLen(bufs)
           Is(y) == y <= x /\ \A f \in ends : f <= x => f <= y
<1>1. bufs \in Bufs \cup {NoBufs} /\ entry \in Header /\ told \in Nat
  BY CallFacts
<1>2. Offered = SlicesOffered(bufs) /\ m = AsUsize(state.rem)
  BY DEF Offered, Limit
<1>3. x = IF len < m THEN len ELSE m
  BY <1>2 DEF PrefixLen
<1>4. /\ len \in Nat /\ ends \subseteq 0 .. len /\ n \in Nat
      /\ c[n] = len
      /\ \A k \in 0 .. n : c[k] \in 0 .. len /\ (k = 0 \/ c[k] \in ends)
      /\ c[0] = 0
      /\ \A k \in 1 .. n : \A f \in ends : f > c[k - 1] => c[k] <= f
      /\ Len(Offered) = n /\ \A k \in 0 .. n : e[k] = c[k]
  <2> DEFINE d == DataFrom(entry, told, len)
             o == SlicesOffered(bufs)
  <2>1. /\ d = DataFrom(entry, told, bufs.len) /\ o = SlicesOffered(bufs)
        /\ c = Cuts(bufs) /\ n = Cardinality(bufs.ends \ {0})
        /\ len = bufs.len /\ ends = bufs.ends
    OBVIOUS
  <2> HIDE DEF bufs, len, ends, c, n, d, o
  <2>2. /\ len \in Nat /\ ends \subseteq 0 .. len /\ n \in Nat
        /\ c[n] = len /\ c[0] = 0
    BY <1>1, <2>1, OfferIs
  <2>3. \A k \in 0 .. n : c[k] \in 0 .. len /\ (k = 0 \/ c[k] \in ends)
    BY <1>1, <2>1, OfferIs
  <2>4. \A k \in 1 .. n : \A f \in ends : f > c[k - 1] => c[k] <= f
    BY <1>1, <2>1, OfferIs
  <2>5. Len(o) = n /\ \A k \in 0 .. n : Ends(o)[k] = c[k]
    <3>1. Len(o) = n
      BY <1>1, <2>1, OfferIs
    <3>2. ASSUME NEW k \in 0 .. n PROVE Ends(o)[k] = c[k]
      BY <1>1, <2>1, OfferIs
    <3> QED
      BY <3>1, <3>2
  <2> QED
    BY <1>2, <2>1, <2>2, <2>3, <2>4, <2>5
<1>5. m \in Nat
  BY <1>2, CallFacts, AsUsizeRange
<1> HIDE DEF bufs, len, ends, c, n, x
<1>6. i \in 0 .. n /\ w = c[i] /\ w \in 0 .. len /\ (i = 0 \/ w \in ends) /\ w <= m
  BY <1>4
<1>7. w \in ends \cup {0}
  BY <1>4, <1>6
<1> DEFINE v == e[i]
<1>8. Is(w)
  <2>1. w <= x
    BY <1>3, <1>4, <1>5, <1>6
  <2>2. ASSUME NEW f \in ends, f <= x PROVE f <= w
    <3>1. f \in Nat /\ f <= len /\ f <= m /\ w \in Nat
      <4>1. f \in 0 .. len /\ x \in Nat /\ x <= len /\ x <= m
        BY <1>3, <1>4, <1>5
      <4> QED
        BY <1>4, <1>5, <1>6, <2>2, <4>1
    <3>2. CASE i = n
      BY <1>4, <1>6, <3>1, <3>2
    <3>3. CASE i # n
      <4>1. i < n /\ i + 1 \in 1 .. n /\ i + 1 \in 0 .. n /\ (i + 1) - 1 = i
        BY <1>4, <1>6, <3>3
      <4>2. m < c[i + 1] /\ c[i + 1] \in 0 .. len
        BY <1>4, <4>1
      <4>3. f > c[i] => c[i + 1] <= f
        BY <1>4, <4>1
      <4>4. c[i + 1] \in Nat /\ c[i] \in Nat
        BY <1>4, <1>6, <4>2
      <4>5. ~ (c[i + 1] <= f)
        BY <1>5, <3>1, <4>2, <4>4
      <4> QED
        BY <1>6, <3>1, <4>3, <4>4, <4>5
    <3> QED
      BY <3>2, <3>3
  <2> QED
    BY <2>1, <2>2
<1>9. ASSUME NEW y \in ends \cup {0}, Is(y) PROVE y = w
  <2>1. y \in Nat /\ w \in Nat /\ w <= x /\ y <= x
    BY <1>4, <1>6, <1>8, <1>9
  <2>2. y <= w
    BY <1>8, <1>9, <2>1
  <2>3. w <= y
    BY <1>7, <1>9, <2>1
  <2> QED
    BY <2>1, <2>2, <2>3
<1>10. Whole(bufs) = CHOOSE y \in ends \cup {0} : Is(y)
  BY DEF Whole, ends, x
<1> HIDE DEF Is, w
<1>11. (CHOOSE y \in ends \cup {0} : Is(y)) = w
  BY <1>7, <1>8, <1>9, Zenon
<1> QED
  BY <1>10, <1>11 DEF bufs, w

-----------------------------------------------------------------------------
(* The prefix that is written: it has the bytes of Outgoing, and its whole *)
(* slices end where ArchiveWriter says.                                    *)
LEMMA PrefixIs ==
  ASSUME TypeOK, Writes, NEW p, p = OfferedPrefix, NEW b, b = Outgoing
  PROVE  /\ b \in Seq(Byte) /\ Len(b) \in Nat
         /\ p.slices \in Array /\ p.remainder \in Seq(Byte)
         /\ PrefixBuffers(p) \in Array /\ Concat(PrefixBuffers(p)) = b
         /\ BytesLen(PrefixBuffers(p)) = Len(b)
         /\ SlicesLen(p) \in Nat /\ Len(p.remainder) \in Nat
         /\ SlicesLen(p) + Len(p.remainder) = Len(b)
         /\ Running("write", "body") => SlicesLen(p) = Whole(call.bufs)
<1> DEFINE o == Offered
           m == Limit
           c == Concat(o)
           k == Advance(c, m)
           s == SplitArray(o, m)
           e == Ends(o)
           bufs == PrefixBuffers(p)
<1>1. c = Concat(Offered) /\ k = Advance(c, m) /\ s = SplitArray(o, m) /\ p = s.prefix
  BY DEF OfferedPrefix, TakePrefix
<1>2. /\ o \in Array /\ m \in Nat /\ c \in Seq(Byte) /\ b = Part(c, 0, k) /\ Len(b) = k
  BY OfferedIs
<1>3. /\ Len(b) \in Nat /\ Len(b) < UsizeMod /\ b \in Seq(Byte)
  BY OutgoingIsShort, OutgoingFits
<1>4. c = Concat(o)
  OBVIOUS
<1> HIDE DEF c, k, s
<1>5. Covers(bufs, c, 0, k) /\ p.remainder \in Seq(Byte)
  <2> HIDE DEF o, m, bufs
  <2>1. Covers(PrefixBuffers(s.prefix), c, 0, k) /\ s.prefix.remainder \in Seq(Byte)
    BY <1>1, <1>2, <1>4, SplitArrayIs
  <2> QED
    BY <1>1, <2>1 DEF bufs
<1>6. PICK i \in 0 .. Len(o) :
        /\ Covers(p.slices, c, 0, e[i])
        /\ e[i] <= m
        /\ i < Len(o) => m < e[i + 1]
        /\ Len(p.remainder) = k - e[i]
  <2> HIDE DEF o, m, bufs
  <2>1. \E i \in 0 .. Len(o) :
              /\ Covers(s.prefix.slices, c, 0, Ends(o)[i])
              /\ Ends(o)[i] <= m
              /\ i < Len(o) => m < Ends(o)[i + 1]
              /\ Len(s.prefix.remainder) = k - Ends(o)[i]
    BY <1>1, <1>2, <1>4, SplitArrayIs
  <2> QED
    BY <1>1, <2>1
<1>7. p.slices \in Array
  BY <1>2, <1>6, CoversIs
<1>8. bufs \in Array /\ Concat(bufs) = b
  BY <1>2, <1>5, CoversIs
<1> HIDE DEF bufs
<1>9. BytesLen(bufs) = Len(b)
  BY <1>3, <1>8, OwnPieces DEF BytesLen
<1>10. Len(p.remainder) \in Nat
  BY <1>5, LenProperties
<1>11. e[i] \in Nat
  <2> HIDE DEF o
  <2>1. Len(o) \in Nat /\ Ends(o) \in [0 .. Len(o) -> Nat]
    BY <1>2, SliceType, EndsAre
  <2> QED
    BY <2>1
<1>12. SlicesLen(p) = Len(b) - Len(p.remainder)
  BY <1>9 DEF SlicesLen, bufs
<1> DEFINE w == e[i]
<1>13. w \in Nat /\ Len(p.remainder) = k - w /\ SlicesLen(p) = k - Len(p.remainder) /\ k \in Nat
  BY <1>2, <1>3, <1>6, <1>11, <1>12
<1> HIDE DEF w
<1>14. SlicesLen(p) = w /\ SlicesLen(p) + Len(p.remainder) = k
  BY <1>10, <1>13
<1>15. Running("write", "body") => SlicesLen(p) = Whole(call.bufs)
  BY <1>6, <1>14, WholeIs DEF w
<1> QED
  BY <1>2, <1>3, <1>5, <1>7, <1>8, <1>9, <1>10, <1>13, <1>14, <1>15 DEF bufs

(* What may be passed through of whole slices and a remainder.             *)
LEMMA DirectCountsAre ==
  ASSUME NEW p, NEW b, NEW w, w = SlicesLen(p), w \in Nat,
         NEW r, r = Len(p.remainder), r \in Nat,
         Len(b) = w + r, w + r > 0
  PROVE  DirectCounts(b, w) = PassedThrough(p)
<1> DEFINE wz == "writezero" \in Faults
           any == Faults # {}
           Zero == IF wz THEN {0} ELSE {}
           T == (IF r = 0 THEN {0} ELSE 1 .. r \cup Zero) \cup (IF any THEN {0} ELSE {})
           X == {n \in (IF w = 0 THEN {0} ELSE 1 .. w \cup Zero) : n < w}
           Y == {w + x : x \in T}
           D == {n \in 0 .. w + r :
                  \/ 0 < n /\ n < w
                  \/ w < n
                  \/ n = w /\ (w = w + r \/ any)
                  \/ n = 0 /\ wz}
<1>1. DirectCounts(b, w) = D
  BY DEF DirectCounts
<1>2. PassedThrough(p) = X \cup Y
  BY Zenon DEF PassedThrough, MayTake
<1>3. wz => any
  OBVIOUS
<1> HIDE DEF wz, any
<1>4. ASSUME NEW n PROVE n \in Y <=> n \in w + 1 .. w + r \/ (n = w /\ (r = 0 \/ any))
  <2>1. ASSUME NEW x \in T PROVE x \in 1 .. r \/ (x = 0 /\ (r = 0 \/ any))
    BY <1>3
  <2>2. ASSUME NEW x, x \in 1 .. r \/ (x = 0 /\ (r = 0 \/ any)) PROVE x \in T
    BY <2>2
  <2> HIDE DEF T
  <2>3. ASSUME n \in Y PROVE n \in w + 1 .. w + r \/ (n = w /\ (r = 0 \/ any))
    <3>1. PICK x \in T : n = w + x
      BY <2>3
    <3>2. x \in 1 .. r \/ (x = 0 /\ (r = 0 \/ any))
      BY <2>1
    <3> QED
      BY <3>1, <3>2
  <2>4. ASSUME n \in w + 1 .. w + r \/ (n = w /\ (r = 0 \/ any)) PROVE n \in Y
    <3>1. n - w \in T /\ n = w + (n - w)
      BY <2>2, <2>4
    <3> QED
      BY <3>1
  <2> QED
    BY <2>3, <2>4
<1>5. ASSUME NEW n PROVE n \in X <=> n \in Nat /\ n < w /\ (n > 0 \/ wz)
  OBVIOUS
<1>6. ASSUME NEW n
      PROVE  n \in D <=> /\ n \in 0 .. w + r
                         /\ \/ 0 < n /\ n < w
                            \/ w < n
                            \/ n = w /\ (w = w + r \/ any)
                            \/ n = 0 /\ wz
  OBVIOUS
<1> HIDE DEF X, Y, D
<1>7. ASSUME NEW n PROVE n \in D <=> n \in X \cup Y
  BY <1>3, <1>4, <1>5, <1>6
<1> QED
  BY <1>1, <1>2, <1>7

LEMMA PrefixesAgree ==
  ASSUME TypeOK, Writes, NEW p, p = OfferedPrefix
  PROVE  PrefixAgrees(p)
<1> DEFINE b == Outgoing
<1>1. b = Outgoing
  OBVIOUS
<1> HIDE DEF b
<1>2. /\ b \in Seq(Byte) /\ Len(b) \in Nat
      /\ p.slices \in Array /\ p.remainder \in Seq(Byte)
      /\ Concat(PrefixBuffers(p)) = b
      /\ BytesLen(PrefixBuffers(p)) = Len(b)
      /\ SlicesLen(p) \in Nat /\ Len(p.remainder) \in Nat
      /\ SlicesLen(p) + Len(p.remainder) = Len(b)
      /\ Running("write", "body") => SlicesLen(p) = Whole(call.bufs)
  BY <1>1, PrefixIs
<1>3. ASSUME Direct(b) PROVE Counts(b, SlicesLen(p)) = PassedThrough(p)
  <2>1. Len(b) > 0
    BY <1>2, <1>3, BlockFacts DEF Direct
  <2> DEFINE w == SlicesLen(p)
             r == Len(p.remainder)
  <2>2. w = SlicesLen(p) /\ r = Len(p.remainder) /\ w \in Nat /\ r \in Nat
        /\ Len(b) = w + r /\ w + r > 0
    BY <1>2, <2>1
  <2> HIDE DEF w, r
  <2>3. DirectCounts(b, w) = PassedThrough(p)
    BY <2>2, DirectCountsAre
  <2> QED
    BY <1>3, <2>3 DEF Counts, w
<1>4. ASSUME NEW n \in 0 .. Len(b)
      PROVE  Concat(PrefixBuffers(TakePrefixOf(p, n))) = SubSeq(b, 1, n)
  <2> DEFINE s == SplitPrefix(p, n)
  <2>1. n \in Nat /\ Advance(b, n) = n
    BY <1>2 DEF Advance
  <2>2. s = SplitPrefix(p, n) /\ TakePrefixOf(p, n) = s.prefix
    BY DEF TakePrefixOf
  <2> HIDE DEF s
  <2>3. Covers(PrefixBuffers(s.prefix), b, 0, n)
    BY <1>2, <2>1, <2>2, SplitPrefixIs
  <2>4. Concat(PrefixBuffers(s.prefix)) = Part(b, 0, n)
    BY <1>2, <2>3, CoversIs
  <2>5. SubSeq(b, 1, n) = Part(b, 0, n)
    BY <1>2, PrefixOf
  <2> QED
    BY <2>2, <2>4, <2>5
<1> QED
  BY <1>1, <1>2, <1>3, <1>4 DEF PrefixAgrees

-----------------------------------------------------------------------------
(* The buffer: its memory begins with `data', and nothing behind the write *)
(* pointer is ever sent.                                                   *)
LEMMA BufferedIs ==
  ASSUME NEW buf \in BufType, NEW x \in 0 .. buf.cap, x = buf.pos
  PROVE  BufferedBytes(buf) = Part(Written(buf), x, buf.cap)
<1>1. /\ buf.mem \in Seq(Byte) /\ buf.cap \in Nat /\ buf.cap <= Len(buf.mem)
      /\ Len(buf.mem) \in Nat
  BY LenProperties DEF BufType
<1> DEFINE c == buf.mem
           j == buf.cap
<1> HIDE DEF c, j
<1>2. /\ c \in Seq(Byte) /\ 0 \in 0 .. Len(c) /\ j \in 0 .. Len(c)
      /\ x \in 0 .. j - 0 /\ j \in x .. j - 0 /\ 0 + x = x /\ 0 + j = j
  BY <1>1 DEF c, j
<1>3. Part(Part(c, 0, j), x, j) = Part(c, 0 + x, 0 + j)
  BY <1>2, PartOfPart
<1> QED
  BY <1>2, <1>3 DEF c, j, Written, Part, BufferedBytes

LEMMA TheBufIs ==
  ASSUME TypeOK
  PROVE  /\ TheBuf \in BufType /\ TheBuf.cap = Len(data) /\ TheBuf.pos = pos
         /\ Remaining(TheBuf) = Capacity - Len(data)
         /\ Len(TheBuf.mem) = Capacity
         /\ Written(TheBuf) = data
         /\ TheBuf = [mem |-> TheBuf.mem, cap |-> Len(data), pos |-> pos]
<1>1. /\ data \in Seq(Byte) /\ Len(data) \in Nat /\ Len(data) <= Capacity
      /\ pos \in 0 .. Len(data) /\ Capacity \in Nat
  BY LenProperties, BlockFacts DEF TypeOK, StoreTypeOK
<1> DEFINE l == Capacity - Len(data)
           old == [i \in 1 .. l |-> OldByte]
           mem == data \o old
<1>2. l \in Nat
  BY <1>1
<1>3. old \in Seq(Byte) /\ Len(old) = l
  <2>1. OldByte \in Byte
    BY DEF OldByte, Byte
  <2> HIDE DEF l
  <2>2. old \in [1 .. l -> Byte]
    BY <2>1
  <2> HIDE DEF old
  <2> QED
    BY <1>2, <2>2, FunctionIsSeq
<1> HIDE DEF old
<1>4. /\ mem \in Seq(Byte) /\ Len(mem) = Capacity
      /\ \A i \in 0 .. Len(data) : \A j \in i .. Len(data) : Part(mem, i, j) = Part(data, i, j)
  <2>1. /\ mem \in Seq(Byte) /\ Len(mem) = Len(data) + Len(old)
        /\ \A i \in 0 .. Len(data) : \A j \in i .. Len(data) : Part(mem, i, j) = Part(data, i, j)
    BY <1>1, <1>3, PartsOfJoin
  <2>2. Len(data) + l = Capacity
    BY <1>1
  <2> HIDE DEF mem, l
  <2> QED
    BY <1>3, <2>1, <2>2
<1>5. TheBuf = [mem |-> mem, cap |-> Len(data), pos |-> pos]
  <2>1. TheBuf = [NewBuf(Capacity) EXCEPT !.mem = mem, !.cap = Len(data), !.pos = pos]
    BY DEF TheBuf, old
  <2> HIDE DEF mem
  <2>2. NewBuf(Capacity) = [mem |-> Zeros(Capacity), cap |-> 0, pos |-> 0]
    BY DEF NewBuf
  <2> QED
    BY <2>1, <2>2
<1> HIDE DEF mem
<1>6. TheBuf.mem = mem /\ TheBuf.cap = Len(data) /\ TheBuf.pos = pos
  BY <1>5
<1>7. TheBuf \in BufType
  <2>1. pos \in Nat /\ Len(data) <= Len(mem)
    BY <1>1, <1>4
  <2>2. mem \in Seq(Byte) /\ Len(data) \in Nat
    BY <1>1, <1>4
  <2> QED
    BY <1>5, <2>1, <2>2 DEF BufType
<1>8. Part(mem, 0, Len(data)) = data
  <2>1. 0 \in 0 .. Len(data) /\ Len(data) \in 0 .. Len(data)
    BY <1>1
  <2> QED
    BY <1>1, <1>4, <2>1, PartWhole
<1> QED
  BY <1>4, <1>5, <1>6, <1>7, <1>8 DEF Written, Remaining

(* Both views of the bytes that wait, however many of them are sent.       *)
LEMMA UnsentAgrees ==
  ASSUME TypeOK
  PROVE  /\ BufferedBytes(TheBuf) = Unsent
         /\ \A k \in 0 .. Len(Unsent) :
              BufferedBytes(CommitRead(TheBuf, k)) = SubSeq(Unsent, k + 1, Len(Unsent))
<1>1. /\ data \in Seq(Byte) /\ Len(data) \in Nat
      /\ pos \in 0 .. Len(data) /\ Len(data) \in pos .. Len(data)
      /\ Unsent = Part(data, pos, Len(data)) /\ Len(Unsent) = Len(data) - pos
  BY LenProperties, UnsentType DEF TypeOK, StoreTypeOK, Unsent, Part
<1>2. BufferedBytes(TheBuf) = Unsent
  <2> DEFINE buf == TheBuf
  <2>1. buf \in BufType /\ buf.cap = Len(data) /\ buf.pos = pos /\ Written(buf) = data
    BY TheBufIs
  <2> HIDE DEF buf
  <2>2. BufferedBytes(buf) = Part(Written(buf), pos, buf.cap)
    BY <1>1, <2>1, BufferedIs
  <2> QED
    BY <1>1, <2>1, <2>2 DEF buf
<1>3. ASSUME NEW k \in 0 .. Len(Unsent)
      PROVE  BufferedBytes(CommitRead(TheBuf, k)) = SubSeq(Unsent, k + 1, Len(Unsent))
  <2> DEFINE mem == TheBuf.mem
             buf == CommitRead(TheBuf, k)
             l == Len(data)
             u == Len(Unsent)
  <2>1. /\ TheBuf = [mem |-> mem, cap |-> l, pos |-> pos]
        /\ TheBuf \in BufType /\ Written(TheBuf) = data /\ TheBuf.cap = l
    BY TheBufIs
  <2> HIDE DEF mem
  <2>2. buf = [mem |-> mem, cap |-> l, pos |-> pos + k]
    BY <2>1 DEF CommitRead
  <2> HIDE DEF buf
  <2>3. /\ k \in 0 .. u /\ u = l - pos /\ pos \in 0 .. l /\ l \in Nat
    BY <1>1
  <2>4. /\ pos + k \in 0 .. l /\ k \in 0 .. l - pos /\ u \in k .. l - pos /\ pos + u = l
    <3> HIDE DEF l, u
    <3> QED
      BY <2>3
  <2>5. buf \in BufType /\ buf.cap = l /\ buf.pos = pos + k /\ Written(buf) = data
    <3>1. TheBuf.mem = mem /\ l <= Len(mem) /\ mem \in Seq(Byte)
      BY <2>1 DEF BufType, mem
    <3>2. buf.mem = mem /\ buf.cap = l /\ buf.pos = pos + k
      BY <2>2
    <3>3. buf \in BufType
      <4>1. pos + k \in Nat /\ l \in Nat
        BY <2>3
      <4> HIDE DEF l
      <4> QED
        BY <2>2, <3>1, <3>2, <4>1 DEF BufType
    <3>4. Written(buf) = Written(TheBuf)
      BY <2>1, <3>1, <3>2 DEF Written
    <3> QED
      BY <2>1, <3>2, <3>3, <3>4
  <2> DEFINE x == pos + k
  <2>6. BufferedBytes(buf) = Part(Written(buf), x, buf.cap)
    <3>1. x \in 0 .. buf.cap /\ x = buf.pos
      BY <2>4, <2>5
    <3> HIDE DEF x
    <3> QED
      BY <2>5, <3>1, BufferedIs
  <2>7. Part(Part(data, pos, l), k, u) = Part(data, pos + k, pos + u)
    <3> HIDE DEF l, u
    <3>1. l \in pos .. Len(data)
      BY <1>1 DEF l
    <3> QED
      BY <1>1, <2>4, <3>1, PartOfPart
  <2>8. BufferedBytes(buf) = Part(Unsent, k, u)
    BY <1>1, <2>4, <2>5, <2>6, <2>7
  <2> QED
    BY <2>8 DEF Part, buf
<1> QED
  BY <1>2, <1>3

LEMMA BuffersAgree ==
  ASSUME TypeOK, Writes, NEW p, p = OfferedPrefix
  PROVE  BufferAgrees(p)
<1> DEFINE b == Outgoing
           bufs == PrefixBuffers(p)
           f == FilledBuf(p)
           s == SubSeq(b, 1, f.n)
           old == IF NeedsFlush(b) THEN <<>> ELSE Unsent
<1>1. b \in Seq(Byte) /\ Len(b) \in Nat /\ bufs \in Array /\ Concat(bufs) = b
  BY PrefixIs
<1>2. /\ data \in Seq(Byte) /\ Len(data) \in Nat /\ Len(data) <= Capacity
      /\ pos \in 0 .. Len(data) /\ Capacity \in Nat
  BY LenProperties, BlockFacts DEF TypeOK, StoreTypeOK
<1>3. /\ TheBuf \in BufType /\ TheBuf.cap = Len(data) /\ TheBuf.pos = pos
      /\ Remaining(TheBuf) = Capacity - Len(data)
      /\ Len(TheBuf.mem) = Capacity
      /\ Written(TheBuf) = data
      /\ TheBuf = [mem |-> TheBuf.mem, cap |-> Len(data), pos |-> pos]
  BY TheBufIs
<1>4. NeedsFlush(b) = (Direct(b) \/ Len(b) > Remaining(TheBuf))
  BY <1>3 DEF NeedsFlush
<1>5. ASSUME ~ Direct(b)
      PROVE  /\ Counts(b, SlicesLen(p)) = {f.n}
             /\ BufferedBytes(f.buf) = old \o s
  <2> DEFINE buf == IF NeedsFlush(b) THEN Clear(TheBuf) ELSE TheBuf
             q == Advance(b, Remaining(buf))
  <2>1. f = FillFromSlices(buf, bufs)
    BY DEF FilledBuf
  <2>2. Counts(b, SlicesLen(p)) = {IF Len(b) <= Capacity THEN Len(b) ELSE Capacity}
    BY <1>5 DEF Counts
  <2> HIDE DEF b, bufs, f
  <2>3. CASE NeedsFlush(b)
    <3> DEFINE mem == TheBuf.mem
    <3>1. mem \in Seq(Byte) /\ Len(mem) = Capacity
      BY <1>3 DEF BufType
    <3>2. TheBuf = [mem |-> mem, cap |-> Len(data), pos |-> pos]
      BY <1>3
    <3> HIDE DEF mem
    <3>3. buf = [mem |-> mem, cap |-> 0, pos |-> 0]
      BY <2>3, <3>2 DEF Clear
    <3> HIDE DEF buf
    <3>4. /\ buf \in BufType /\ buf.cap = 0 /\ buf.pos = 0 /\ buf.mem = mem
      BY <1>2, <3>1, <3>3 DEF BufType
    <3>5. Remaining(buf) = Capacity /\ Written(buf) = <<>>
      <4>1. Part(mem, 0, 0) = <<>>
        BY PartEmpty
      <4> QED
        BY <1>2, <3>1, <3>4, <4>1 DEF Remaining, Written
    <3>6. q = Advance(b, Remaining(buf)) /\ b = Concat(bufs)
      BY <1>1
    <3>7. q = IF Len(b) <= Capacity THEN Len(b) ELSE Capacity
      BY <1>1, <1>2, <3>5 DEF Advance
    <3> HIDE DEF q
    <3>8. /\ q \in 0 .. Len(b) /\ f.n = q
          /\ f.buf \in BufType /\ f.buf.cap = buf.cap + q /\ f.buf.pos = buf.pos
          /\ Written(f.buf) = Written(buf) \o Part(b, 0, q)
      <4>1. /\ buf \in BufType /\ bufs \in Array /\ b = Concat(bufs)
            /\ q = Advance(b, Remaining(buf)) /\ f = FillFromSlices(buf, bufs)
        BY <1>1, <2>1, <3>4, <3>6
      <4>2. q \in 0 .. Len(b) /\ f.n = q
        BY <4>1, FillsFromSlices
      <4>3. f.buf \in BufType
        BY <4>1, FillsFromSlices
      <4>4. f.buf.cap = buf.cap + q /\ f.buf.pos = buf.pos
        BY <4>1, FillsFromSlices
      <4>5. Appended(f.buf, buf, Part(b, 0, q))
        BY <4>1, FillsFromSlices
      <4> QED
        BY <4>2, <4>3, <4>4, <4>5 DEF Appended
    <3>9. s = Part(b, 0, q) /\ s \in Seq(Byte) /\ Len(s) = q
      BY <1>1, <3>8, PrefixOf
    <3> HIDE DEF s
    <3>10. Written(f.buf) = s
      BY <3>5, <3>8, <3>9, ConcatEmptySeq
    <3>11. f.buf.cap = q /\ f.buf.pos = 0 /\ 0 \in 0 .. q /\ q \in Nat
      BY <1>1, <3>4, <3>8
    <3>12. BufferedBytes(f.buf) = Part(Written(f.buf), 0, q)
      BY <3>8, <3>11, BufferedIs
    <3>13. Part(s, 0, q) = s
      BY <3>9, PartWhole
    <3>14. <<>> \o s = s
      BY <3>9, ConcatEmptySeq
    <3> QED
      BY <2>2, <2>3, <3>7, <3>8, <3>10, <3>12, <3>13, <3>14
  <2>4. CASE ~ NeedsFlush(b)
    <3>1. buf = TheBuf
      BY <2>4
    <3> HIDE DEF buf
    <3>2. Remaining(buf) = Capacity - Len(data) /\ Len(b) <= Capacity - Len(data)
      BY <1>1, <1>2, <1>3, <1>4, <2>4, <3>1 DEF NeedsFlush
    <3>3. q = Len(b) /\ Len(b) <= Capacity
      BY <1>1, <1>2, <3>2 DEF Advance
    <3>4. q = Advance(b, Remaining(buf)) /\ b = Concat(bufs)
      BY <1>1
    <3> HIDE DEF q
    <3>5. /\ q \in 0 .. Len(b) /\ f.n = q
          /\ f.buf \in BufType /\ f.buf.cap = buf.cap + q /\ f.buf.pos = buf.pos
          /\ Written(f.buf) = Written(buf) \o Part(b, 0, q)
      <4>1. /\ buf \in BufType /\ bufs \in Array /\ b = Concat(bufs)
            /\ q = Advance(b, Remaining(buf)) /\ f = FillFromSlices(buf, bufs)
        BY <1>1, <1>3, <2>1, <3>1, <3>4
      <4>2. q \in 0 .. Len(b) /\ f.n = q
        BY <4>1, FillsFromSlices
      <4>3. f.buf \in BufType
        BY <4>1, FillsFromSlices
      <4>4. f.buf.cap = buf.cap + q /\ f.buf.pos = buf.pos
        BY <4>1, FillsFromSlices
      <4>5. Appended(f.buf, buf, Part(b, 0, q))
        BY <4>1, FillsFromSlices
      <4> QED
        BY <4>2, <4>3, <4>4, <4>5 DEF Appended
    <3>6. s = Part(b, 0, q) /\ s \in Seq(Byte) /\ Len(s) = q
      BY <1>1, <3>5, PrefixOf
    <3> HIDE DEF s
    <3>7. /\ f.buf.cap = Len(data) + q /\ f.buf.pos = pos
          /\ Written(f.buf) = data \o s
      BY <1>3, <3>1, <3>5, <3>6
    <3>8. pos \in 0 .. f.buf.cap
      BY <1>1, <1>2, <3>3, <3>7
    <3>9. BufferedBytes(f.buf) = Part(Written(f.buf), pos, f.buf.cap)
      BY <3>5, <3>7, <3>8, BufferedIs
    <3>10. Len(data \o s) = Len(data) + q
      BY <1>2, <3>6, ConcatProperties
    <3>11. SubSeq(data \o s, pos + 1, Len(data \o s)) = SubSeq(data, pos + 1, Len(data)) \o s
      BY <1>2, <3>6, SuffixConcat
    <3>12. BufferedBytes(f.buf) = Unsent \o s
      <4>1. BufferedBytes(f.buf) = SubSeq(data \o s, pos + 1, Len(data \o s))
        BY <3>7, <3>9, <3>10 DEF Part
      <4> QED
        BY <3>11, <4>1 DEF Unsent
    <3> QED
      BY <2>2, <2>4, <3>3, <3>5, <3>12
  <2> QED
    BY <2>3, <2>4
<1>6. \/ Direct(b)
      \/ /\ Counts(b, SlicesLen(p)) = {f.n}
         /\ BufferedBytes(f.buf) = old \o s
  BY <1>5
<1> HIDE DEF f
<1>7. f = FilledBuf(p)
  BY DEF f
<1> QED
  BY <1>4, <1>6, <1>7, UnsentAgrees DEF BufferAgrees

(* A write takes from an array of slices, as poll_write_vectored cuts it   *)
(* up (write/mod.rs:223, 241, 251, 267), exactly what ArchiveWriter says   *)
(* of its bytes: for every offer, every capacity of the buffer and every   *)
(* place at which an earlier write or flush stopped.                       *)
THEOREM SlicesAlwaysWritten == Spec => []SlicesAreWritten
<1>1. TypeOK => SlicesAreWritten
  <2> SUFFICES ASSUME TypeOK, Writes
               PROVE  \E p \in {OfferedPrefix} : PrefixAgrees(p) /\ BufferAgrees(p)
    BY DEF SlicesAreWritten
  <2> DEFINE p == OfferedPrefix
  <2>1. p = OfferedPrefix
    OBVIOUS
  <2> HIDE DEF p
  <2>2. PrefixAgrees(p) /\ BufferAgrees(p)
    BY <2>1, PrefixesAgree, BuffersAgree
  <2> QED
    BY <2>1, <2>2
<1> QED
  BY <1>1, TypeCorrect, PTL
=============================================================================
