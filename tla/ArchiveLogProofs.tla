--------------------------- MODULE ArchiveLogProofs --------------------------
(***************************************************************************)
(* The writer implements ArchiveLog, for all headers, offers, capacities,  *)
(* faults and callers: its first state is a first state of the log, and    *)
(* each of its steps is a step of the log or leaves the log alone.         *)
(* From this, what finish leaves in the object is an archive.              *)
(***************************************************************************)
EXTENDS ArchiveImageProofs
LOCAL INSTANCE SequencesExt

-----------------------------------------------------------------------------
(* The log is of the format that the writer is proved to write.            *)
LEMMA SameFormat ==
  /\ Log!NoHeader = NoHeader /\ Log!BadSize = BadSize /\ Log!ZeroByte = ZeroByte
  /\ Log!EofLen = EofLen
  /\ \A h : Log!EntryLen(h) = EntryLen(h)
  /\ \A head0, h, i : Log!EntryByteUnder(head0, h, i) = EntryByteUnder(head0, h, i)
<1>1. /\ Log!NoHeader = NoHeader /\ Log!BadSize = BadSize /\ Log!ZeroByte = ZeroByte
      /\ Log!EofLen = EofLen
  BY DEF Log!NoHeader, NoHeader, Log!BadSize, BadSize, Log!ZeroByte, ZeroByte,
         Log!EofLen, EofLen
<1>2. \A n : Log!Align(n) = Align(n)
  BY DEF Log!Align, Align
<1>3. \A h : Log!EntryLen(h) = EntryLen(h)
  BY <1>2 DEF Log!EntryLen, EntryLen
<1>4. \A h, i : /\ Log!HeaderByte(h, i) = HeaderByte(h, i)
                /\ Log!DataByte(h, i) = DataByte(h, i)
  BY <1>1 DEF Log!HeaderByte, HeaderByte, Log!DataByte, DataByte, Log!ZeroByte,
              ZeroByte
<1>5. \A h, i : Log!EntryByte(h, i) = EntryByte(h, i)
  BY <1>1, <1>4 DEF Log!EntryByte, EntryByte
<1>6. \A head0, h, i :
        Log!EntryByteUnder(head0, h, i) = EntryByteUnder(head0, h, i)
  BY <1>4, <1>5 DEF Log!EntryByteUnder, EntryByteUnder
<1> QED
  BY <1>1, <1>3, <1>6

(* What the mapping makes of the writer's state.                           *)
LEMMA LogFacts ==
  ASSUME TypeOK, StateInv, DoneInv
  PROVE  /\ Log!End = Base /\ Log!LogLen = Total
         /\ Log!NoEntry = [head |-> NoHeader, hdr |-> NoHeader]
         /\ \A h, c : Log!Entry(h, c) = [head |-> h, hdr |-> c]
<1>1. Log!End = Base
  BY SameFormat DEF Log!End, Base, EndOf
<1> QED
  BY <1>1, SameFormat DEF Log!LogLen, Total, Log!NoEntry, Log!Entry

-----------------------------------------------------------------------------
(* What the object has, and that it is a part of the log.                  *)
ImageParts ==
  /\ Len(out) \in Nat /\ Len(Unsent) \in Nat /\ Len(Unsent) <= Capacity
  /\ Len(Image) = Len(out) + Len(Unsent)
  /\ \A i \in 1 .. Len(out) : Image[i] = out[i]

LEMMA ImageIsParts == TypeOK => ImageParts
<1> SUFFICES ASSUME TypeOK PROVE ImageParts
  OBVIOUS
<1>1. /\ out \in Seq(Byte) /\ Unsent \in Seq(Byte) /\ Len(Unsent) = Len(data) - pos
      /\ data \in Seq(Byte) /\ Len(data) <= Capacity /\ pos \in 0 .. Len(data)
  BY UnsentType DEF TypeOK, StoreTypeOK
<1>2. Len(data) \in Nat /\ Len(out) \in Nat
  BY <1>1, LenProperties
<1>3. Len(Unsent) \in Nat /\ Len(Unsent) <= Capacity
  BY <1>1, <1>2, BlockFacts
<1>4. /\ Len(Image) = Len(out) + Len(Unsent)
      /\ \A i \in 1 .. Len(out) : Image[i] = out[i]
  BY <1>1, ConcatProperties DEF Image
<1> QED
  BY <1>2, <1>3, <1>4 DEF ImageParts

(* An entry is open exactly if its header was written.                     *)
LEMMA OpenHasHeader ==
  ASSUME IInv
  PROVE  cur = NoHeader <=> head = NoHeader
<1>1. GoodState(state) /\ StateInv
  BY CallFacts DEF IInv
<1>2. CASE state.tag \in {"ReceivingData", "ReceivedData", "AligningData", "AlignedData"}
  <2>1. cur # NoHeader /\ (head # cur => head.size = BadSize)
    BY <1>1, <1>2 DEF StateInv, InData, Behind
  <2>2. NoHeader.size # BadSize
    BY DEF NoHeader, BadSize
  <2> QED
    BY <2>1, <2>2
<1>3. CASE state.tag \in {"ExpectingHeader", "ReceivingHeader", "ReceivedHeader",
                          "ReceivingEof", "ReceivedEof"}
  BY <1>1, <1>3 DEF StateInv, BetweenEntries, InHeader, AtHeader, InEnd
<1> QED
  BY <1>1, <1>2, <1>3 DEF GoodState, StateType, Tags

(* The object has a part of the log and is at most a buffer behind.        *)
PartOfLog == Log!SentIsPart /\ Log!LogLen - Len(out) <= Capacity

LEMMA ObjectHasPart == IInv /\ poll # "gone" => PartOfLog
<1> SUFFICES ASSUME IInv, poll # "gone" PROVE PartOfLog
  OBVIOUS
<1>1. /\ TypeOK /\ StateInv /\ DoneInv /\ ArchiveImage /\ ImageParts
      /\ Log!End = Base /\ Log!LogLen = Total /\ Len(Image) = Total
      /\ Capacity \in Nat /\ Base \in Nat
  BY ImageIsParts, LogFacts, BlockFacts, DoneFacts DEF IInv, ArchiveImage
<1>2. Len(out) <= Log!LogLen /\ Log!LogLen - Len(out) <= Capacity
  BY <1>1 DEF ImageParts
<1>3. ASSUME NEW i \in Nat \ {0}, NEW byte, Holds(i, byte), i <= Len(out)
      PROVE  out[i] = byte
  BY <1>1, <1>3 DEF Holds, ImageParts
<1>4. ASSUME NEW k \in 1 .. Len(done), NEW i \in 1 .. EntryLen(done[k].hdr),
             done[k].base + i <= Len(out)
      PROVE  out[done[k].base + i] = EntryByteUnder(done[k].head, done[k].hdr, i)
  <2>1. done[k].base + i \in Nat \ {0}
    BY <1>1, DoneFacts
  <2>2. Holds(done[k].base + i, EntryByteUnder(done[k].head, done[k].hdr, i))
    BY <1>1 DEF ArchiveImage, FinishedEntries
  <2> QED
    BY <1>3, <1>4, <2>1, <2>2
<1>5. ASSUME NEW i \in 1 .. ItemOffset(state, cur), Base + i <= Len(out)
      PROVE  out[Base + i] = Log!OpenByte(i)
  <2>1. Base + i \in Nat \ {0}
    BY <1>1, OffsetType
  <2>2. Holds(Base + i, OpenByte(i))
    BY <1>1 DEF ArchiveImage, OpenItem
  <2>3. Log!OpenByte(i) = OpenByte(i)
    BY <1>1, SameFormat, LogFacts, OpenHasHeader DEF Log!OpenByte, OpenByte
  <2> QED
    BY <1>3, <1>5, <2>1, <2>2, <2>3
<1>6. Log!SentIsPart
  BY <1>1, <1>2, <1>4, <1>5, SameFormat DEF Log!SentIsPart
<1> QED
  BY <1>2, <1>6 DEF PartOfLog

-----------------------------------------------------------------------------
(* What the object has stays and more may follow it.                       *)
OutGrows == Len(out') >= Len(out) /\ \A i \in 1 .. Len(out) : out'[i] = out[i]

LEMMA Growth ==
  ASSUME TypeOK
  PROVE  /\ out' = out => OutGrows
         /\ \A s \in Seq(Byte) : out' = out \o s => OutGrows
<1>1. out \in Seq(Byte) /\ Len(out) \in Nat
  BY LenProperties DEF TypeOK, StoreTypeOK
<1>2. ASSUME NEW s \in Seq(Byte), out' = out \o s PROVE OutGrows
  BY <1>1, <1>2, ConcatProperties, LenProperties DEF OutGrows
<1> QED
  BY <1>1, <1>2 DEF OutGrows

LEMMA FlushGrows ==
  ASSUME TypeOK
  PROVE  /\ Flushed => OutGrows
         /\ \A res : FlushStops(res) => OutGrows
<1>1. Flushed => OutGrows
  BY Growth, UnsentType DEF Flushed, Image
<1>2. ASSUME NEW res, FlushStops(res) PROVE OutGrows
  <2>1. PICK k \in 0 .. Len(Unsent) - 1 : out' = out \o SubSeq(data, pos + 1, pos + k)
    BY <1>2 DEF FlushStops
  <2>2. /\ data \in Seq(Byte) /\ pos \in 0 .. Len(data) /\ Len(data) \in Nat
        /\ Len(Unsent) = Len(data) - pos
    BY UnsentType, LenProperties DEF TypeOK, StoreTypeOK
  <2>3. SubSeq(data, pos + 1, pos + k) \in Seq(Byte)
    BY <2>2, SubSeqProperties
  <2> QED
    BY <2>1, <2>3, Growth
<1> QED
  BY <1>1, <1>2

LEMMA WriteGrows ==
  ASSUME TypeOK, Writes, NEW whole, NEW hdr, NEW n,
         PollWriteVectored(Outgoing, whole, hdr, n)
  PROVE  OutGrows
<1>1. Outgoing \in Seq(Byte) /\ n \in 0 .. Len(Outgoing) /\ Send(Outgoing, n)
  BY OutgoingFits, CountsType DEF PollWriteVectored
<1> DEFINE sent == SubSeq(Outgoing, 1, n)
<1>2. sent \in Seq(Byte) /\ Unsent \in Seq(Byte) /\ out \in Seq(Byte)
  BY <1>1, PrefixType, UnsentType DEF TypeOK, StoreTypeOK
<1>3. out' = Image \o sent \/ out' = Image \/ out' = out
  BY <1>1 DEF Send
<1> HIDE DEF sent
<1>4. (out \o Unsent) \o sent = out \o (Unsent \o sent) /\ Unsent \o sent \in Seq(Byte)
  BY <1>2, ConcatAssociative, ConcatProperties
<1> QED
  BY <1>2, <1>3, <1>4, Growth DEF Image

LEMMA FailureGrows ==
  ASSUME TypeOK, NEW b, NEW res, PollWriteFails(b, res)
  PROVE  OutGrows
  BY FlushGrows DEF PollWriteFails

-----------------------------------------------------------------------------
(* The object that has been shut down gets nothing more: finish left the   *)
(* buffer empty and State at its end, where every call panics.             *)
ClosedInv == shut => state = ReceivedEof /\ data = <<>> /\ pos = 0

LogInv == IInv /\ ClosedInv

(* What the log is before and after a step, and whether it is delivered.   *)
OffsetIsNat == ItemOffset(state, cur) \in Nat

LEMMA InvOffset == IInv => OffsetIsNat
  BY OffsetType DEF IInv, OffsetIsNat

LEMMA DeliverHolds == IInv' /\ poll' # "gone" /\ OutGrows => Log!Deliver
<1> DEFINE HasPart == poll # "gone" => PartOfLog
<1>1. IInv => HasPart
  BY ObjectHasPart
<1>2. IInv' => HasPart'
  <2> HIDE DEF HasPart
  <2> QED
    BY <1>1, PTL
<1> QED
  BY <1>2 DEF PartOfLog, OutGrows, Log!Deliver

LogMove ==
  \/ \E h \in Headers : Log!TakeHeader(h) \/ Log!TakeOver(h)
  \/ Log!TakeBody \/ Log!Seal \/ Log!TakeEnd
  \/ UNCHANGED Log!log

LEMMA MoveIsWrite ==
  ASSUME IInv', ~ shut, shut' = shut, poll # "gone", poll' # "gone", OutGrows,
         LogMove
  PROVE  Log!Next
<1>1. Log!Deliver
  BY DeliverHolds
<1>2. Log!Write
  BY <1>1 DEF Log!Write, LogMove
<1> QED
  BY <1>2 DEF Log!Next

LEMMA NothingMoves ==
  ASSUME state' = state, UNCHANGED history
  PROVE  LogMove
  BY DEF LogMove, Log!log, history

(* Bytes that are written move the open item on by their number.           *)
LEMMA Moves ==
  ASSUME IInv, IInv', Writes, poll # "gone", poll' # "gone", done' = done,
         NEW whole, NEW hdr \in Header, NEW n,
         PollWriteVectored(Outgoing, whole, hdr, n)
  PROVE  /\ n \in 0 .. Len(Outgoing) /\ Len(Outgoing) \in Nat
         /\ ItemOffset(state', cur') = ItemOffset(state, cur) + n
<1>1. /\ TypeOK /\ StateInv /\ DoneInv /\ ArchiveImage /\ ArchiveImage'
  BY DEF IInv
<1>2. /\ Outgoing \in Seq(Byte) /\ n \in 0 .. Len(Outgoing)
      /\ Image' = Image \o SubSeq(Outgoing, 1, n)
  BY <1>1, OutgoingFits, WriteFacts
<1>3. Len(Outgoing) \in Nat
  BY <1>2, LenProperties
<1>4. Len(Image') = Len(Image) + n /\ Len(Image) \in Nat
  <2>1. /\ SubSeq(Outgoing, 1, n) \in Seq(Byte) /\ Len(SubSeq(Outgoing, 1, n)) = n
        /\ Image \in Seq(Byte)
    BY <1>1, <1>2, PrefixType, UnsentType
  <2> QED
    BY <1>2, <2>1, ConcatProperties, LenProperties
<1>5. ItemOffset(state, cur) \in Nat /\ ItemOffset(state', cur') \in Nat
  <2>1. IInv' => OffsetIsNat'
    BY InvOffset, PTL
  <2> QED
    BY <2>1, InvOffset DEF OffsetIsNat
<1>6. /\ Len(Image) = Base + ItemOffset(state, cur)
      /\ Len(Image') = Base + ItemOffset(state', cur') /\ Base \in Nat
  <2>1. Base' = Base
    BY DEF Base, EndOf
  <2> QED
    BY <1>1, <2>1, DoneFacts DEF ArchiveImage, Total
<1>7. ItemOffset(state', cur') = ItemOffset(state, cur) + n
  <2> DEFINE o1 == ItemOffset(state, cur)
             o2 == ItemOffset(state', cur')
             l1 == Len(Image)
             l2 == Len(Image')
  <2>1. /\ o1 \in Nat /\ o2 \in Nat /\ l1 \in Nat /\ Base \in Nat /\ n \in Nat
        /\ l2 = l1 + n /\ l1 = Base + o1 /\ l2 = Base + o2
    BY <1>2, <1>3, <1>4, <1>5, <1>6
  <2> HIDE DEF o1, o2, l1, l2
  <2>2. o2 = o1 + n
    BY <2>1
  <2> QED
    BY <2>2 DEF o1, o2
<1> QED
  BY <1>2, <1>3, <1>7

(* What any step of a call that writes does to the object.                 *)
LEMMA StepGrows == TypeOK /\ Step => OutGrows
<1> SUFFICES ASSUME TypeOK, Step PROVE OutGrows
  OBVIOUS
<1> USE DEF archive, handle, history
<1>1. CASE AddEntryStep
  <2>1. Writes \/ ~ WritesHeader
    BY DEF Writes
  <2> QED
    BY <1>1, <2>1, WriteGrows, FailureGrows, Growth
       DEF AddEntryStep, HeaderWrite, HeaderStalls, HeaderOpensEntry,
           HeaderOverlaps, HeaderPanics
<1>2. CASE WriteStep
  <2>1. Running("write", "body") /\ state.tag = "ReceivingData" => Writes
    BY DEF Writes
  <2> QED
    BY <1>2, <2>1, WriteGrows, FailureGrows, Growth
       DEF WriteStep, EntryWrite, EntryStalls, EntryWritePanics
<1>3. CASE FinishEntryStep
  <2>1. Finishing /\ state.tag = "AligningData" => Writes
    BY DEF Writes
  <2> QED
    BY <1>3, <2>1, WriteGrows, FailureGrows, Growth
       DEF FinishEntryStep, AlignBegins, AlignWrite, AlignStalls, AlignEnds,
           AlignedAlready, AlignPanics
<1>4. CASE FlushStep
  BY <1>4, FlushGrows DEF FlushStep, FlushReturns, FlushStalls
<1>5. CASE FinishStep
  <2>1. WritesEnd => Writes
    BY DEF Writes
  <2> QED
    BY <1>5, <2>1, WriteGrows, FailureGrows, FlushGrows, Growth
       DEF FinishStep, EndWrite, EndStalls, Shutdown, ShutdownStalls, FinishPanics
<1> QED
  BY <1>1, <1>2, <1>3, <1>4, <1>5 DEF Step

-----------------------------------------------------------------------------
(* The steps of a call, while the object is not shut down.                 *)
LEMMA HeaderWriteMoves ==
  ASSUME IInv, IInv', poll' # "gone", HeaderWrite
  PROVE  LogMove
<1> DEFINE at == ItemOffset(state, cur)
           h  == call.hdr
<1>1. /\ WritesHeader /\ poll # "gone" /\ done' = done /\ Writes /\ h \in Headers
      /\ TypeOK /\ StateInv /\ DoneInv /\ BlockSize \in Nat
  BY BusyFacts, BlockFacts DEF IInv, HeaderWrite, WritesHeader, Running, Writes
<1>2. /\ h \in Header /\ at \in 0 .. BlockSize /\ Len(Outgoing) = BlockSize - at
      /\ \/ at = 0 /\ cur = NoHeader /\ head = NoHeader
         \/ at < BlockSize /\ cur = h /\ head = h
  <2>1. state.rem \in 1 .. BlockSize - 1 => BlockSize - state.rem < BlockSize
    BY <1>1
  <2> QED
    BY <1>1, <2>1, HeaderOutgoing
<1>3. PICK n \in 0 .. BlockSize :
        /\ PollWriteVectored(Outgoing, Len(Outgoing), h, n)
        /\ IF n = 0 THEN UNCHANGED <<cur, head>> ELSE cur' = h /\ head' = h
  BY DEF HeaderWrite
<1>4. n \in 0 .. BlockSize - at /\ ItemOffset(state', cur') = at + n
  BY <1>1, <1>2, <1>3, Moves
<1>5. CASE n = 0
  <2>1. ItemOffset(state', cur') = at
    <3> HIDE DEF at
    <3> QED
      BY <1>2, <1>4, <1>5
  <2> QED
    BY <1>1, <1>3, <1>5, <2>1 DEF LogMove, Log!log
<1>6. CASE n # 0
  <2>1. ItemOffset(state', cur') \in at + 1 .. BlockSize
    <3> HIDE DEF at
    <3> QED
      BY <1>1, <1>2, <1>4, <1>6
  <2>2. Log!TakeHeader(h)
    BY <1>1, <1>2, <1>3, <1>6, <2>1, LogFacts DEF Log!TakeHeader
  <2> QED
    BY <1>1, <2>2 DEF LogMove
<1> QED
  BY <1>5, <1>6

LEMMA HeaderOpensMoves ==
  ASSUME IInv, IInv', HeaderOpensEntry
  PROVE  LogMove
<1> DEFINE r == TarNext(state, <<>>, call.hdr)
           h == call.hdr
<1>1. /\ TypeOK /\ CallInv /\ StateInv /\ DoneInv
      /\ poll = "running" /\ call.op = "add_entry" /\ call.phase = "body"
      /\ state = ReceivedHeader /\ state.tag = "ReceivedHeader"
      /\ panic = "none" /\ BlockSize \in Nat
      /\ h \in Headers /\ h # NoHeader /\ h.size \in Nat \cup {BadSize}
      /\ done' = done /\ head' = head
  BY BusyFacts, BlockFacts, CallFacts, HeaderFields
     DEF IInv, HeaderOpensEntry, Running, ReceivedHeader, St
<1>2. /\ cur # NoHeader /\ head = cur /\ (cur = h \/ cur.size = BadSize)
  BY <1>1 DEF StateInv, AtHeader, Opening
<1>3. r = IF h.size = BadSize THEN Failure(state, "BadSize")
          ELSE Result(ReceivingData(h.size), 0)
  BY <1>1 DEF TarNext, NextOfEntry
<1>4. CASE h.size = BadSize
  <2>1. UNCHANGED <<state, cur>>
    BY <1>3, <1>4 DEF HeaderOpensEntry, Failure
  <2> QED
    BY <1>1, <2>1, NothingMoves DEF history
<1>5. CASE h.size # BadSize
  <2>1. state' = ReceivingData(h.size) /\ cur' = h /\ h.size \in Nat
    BY <1>1, <1>3, <1>5 DEF HeaderOpensEntry, Result
  <2>2. ItemOffset(state, cur) = BlockSize /\ ItemOffset(state', cur') = BlockSize
    <3>1. ItemOffset(state', cur') = BlockSize + h.size - h.size
      BY <2>1, Offsets
    <3>2. BlockSize + h.size - h.size = BlockSize
      BY <1>1, <2>1
    <3> QED
      BY <1>1, <3>1, <3>2, Offsets
  <2>3. CASE cur = h
    BY <1>1, <2>1, <2>2, <2>3 DEF LogMove, Log!log
  <2>4. CASE cur.size = BadSize
    <3>1. [head |-> head, hdr |-> cur] # [head |-> NoHeader, hdr |-> NoHeader]
      BY <1>2
    <3>2. Log!TakeOver(h)
      BY <1>1, <1>2, <2>1, <2>2, <2>4, <3>1, LogFacts, SameFormat DEF Log!TakeOver
    <3> QED
      BY <1>1, <3>2 DEF LogMove
  <2> QED
    BY <1>2, <2>3, <2>4
<1> QED
  BY <1>4, <1>5

(* Bytes that belong to the open entry, behind its header.                 *)
LEMMA BodyMoves ==
  ASSUME IInv, cur # NoHeader, cur.size # BadSize,
         UNCHANGED history,
         NEW n \in Nat, ItemOffset(state', cur') = ItemOffset(state, cur) + n,
         ItemOffset(state, cur) >= BlockSize,
         ItemOffset(state, cur) + n <= EntryLen(cur), EntryLen(cur) \in Nat
  PROVE  LogMove
<1> DEFINE at == ItemOffset(state, cur)
<1>1. /\ TypeOK /\ StateInv /\ DoneInv /\ cur' = cur /\ head' = head /\ done' = done
      /\ at \in Nat
  BY InvOffset DEF IInv, history, OffsetIsNat
<1>2. CASE n = 0
  <2>1. ItemOffset(state', cur') = at
    <3> HIDE DEF at
    <3> QED
      BY <1>1, <1>2 DEF at
  <2> QED
    BY <1>1, <2>1 DEF LogMove, Log!log
<1>3. CASE n # 0
  <2>1. ItemOffset(state', cur') \in at + 1 .. EntryLen(cur)
    <3>1. at + n \in at + 1 .. EntryLen(cur)
      <4> HIDE DEF at
      <4> QED
        BY <1>1, <1>3 DEF at
    <3> QED
      BY <3>1
  <2>2. [head |-> head, hdr |-> cur] # [head |-> NoHeader, hdr |-> NoHeader]
    OBVIOUS
  <2>3. Log!TakeBody
    BY <1>1, <2>1, <2>2, LogFacts, SameFormat DEF Log!TakeBody
  <2> QED
    BY <2>3 DEF LogMove
<1> QED
  BY <1>2, <1>3

LEMMA EntryWriteMoves ==
  ASSUME IInv, IInv', poll' # "gone", EntryWrite
  PROVE  LogMove
<1> DEFINE rem == state.rem
<1>1. /\ poll = "running" /\ call.op = "write" /\ call.phase = "body"
      /\ state.tag = "ReceivingData" /\ poll # "gone" /\ Writes
      /\ Running("write", "body") /\ UNCHANGED history /\ done' = done
  BY DEF EntryWrite, Running, Writes, history
<1>2. /\ TypeOK /\ StateInv /\ entry = cur /\ cur # NoHeader /\ cur \in Header
      /\ cur.size \in Nat /\ BlockSize \in Nat /\ call.bufs \in Bufs \cup {NoBufs}
      /\ Align(cur.size) \in 0 .. BlockSize - 1
      /\ EntryLen(cur) = BlockSize + cur.size + Align(cur.size)
      /\ cur.size # BadSize
  BY <1>1, HandleFacts, CallFacts DEF StateInv, InData
<1>3. PICK n \in 0 .. PrefixLen(call.bufs) :
        PollWriteVectored(Outgoing, Whole(call.bufs), entry, n)
  BY DEF EntryWrite
<1>4. /\ state = ReceivingData(rem) /\ rem \in Nat /\ rem <= cur.size
      /\ ItemOffset(state, cur) = BlockSize + cur.size - rem
  <2>1. state = ReceivingData(rem) /\ rem \in Nat /\ rem <= cur.size
    BY <1>1, <1>2, CallFacts, Canonical DEF StateInv, InData
  <2> QED
    BY <2>1, Offsets
<1>5. n \in Nat /\ n <= rem
  <2>1. PrefixLen(call.bufs) \in Nat /\ PrefixLen(call.bufs) <= AsUsize(rem)
        /\ AsUsize(rem) \in 0 .. rem
    BY <1>2, PrefixLenType
  <2> HIDE DEF rem
  <2> QED
    BY <1>4, <2>1
<1>6. ItemOffset(state', cur') = ItemOffset(state, cur) + n
  BY <1>1, <1>2, <1>3, Moves
<1>7. /\ ItemOffset(state, cur) >= BlockSize /\ EntryLen(cur) \in Nat
      /\ ItemOffset(state, cur) + n <= EntryLen(cur)
  <2> HIDE DEF rem
  <2> QED
    BY <1>2, <1>4, <1>5
<1> QED
  BY <1>1, <1>2, <1>5, <1>6, <1>7, BodyMoves

LEMMA AlignWriteMoves ==
  ASSUME IInv, IInv', poll' # "gone", AlignWrite
  PROVE  LogMove
<1> DEFINE rem == state.rem
<1>1. /\ poll = "running" /\ call.op \in {"write", "finish_entry"}
      /\ state.tag = "AligningData" /\ poll # "gone" /\ Writes
      /\ UNCHANGED history /\ done' = done
  BY DEF AlignWrite, Finishing, Running, Writes, history
<1>2. /\ TypeOK /\ StateInv /\ entry = cur /\ cur # NoHeader /\ cur \in Header
      /\ cur.size \in Nat /\ BlockSize \in Nat
      /\ Align(cur.size) \in 0 .. BlockSize - 1
      /\ EntryLen(cur) = BlockSize + cur.size + Align(cur.size)
      /\ cur.size # BadSize
  BY <1>1, HandleFacts DEF StateInv, InData
<1>3. PICK n \in 0 .. rem : PollWriteVectored(Outgoing, rem, entry, n)
  BY DEF AlignWrite
<1>4. /\ state = AligningData(rem) /\ rem \in Nat /\ rem <= Align(cur.size)
      /\ ItemOffset(state, cur) = EntryLen(cur) - rem
  <2>1. state = AligningData(rem) /\ rem \in Nat /\ rem <= Align(cur.size)
    BY <1>1, <1>2, CallFacts, Canonical DEF StateInv, InData
  <2> QED
    BY <2>1, Offsets
<1>5. ItemOffset(state', cur') = ItemOffset(state, cur) + n
  BY <1>1, <1>2, <1>3, Moves
<1>6. /\ ItemOffset(state, cur) >= BlockSize /\ EntryLen(cur) \in Nat /\ n \in Nat
      /\ ItemOffset(state, cur) + n <= EntryLen(cur)
  <2> HIDE DEF rem
  <2> QED
    BY <1>2, <1>3, <1>4
<1> QED
  BY <1>1, <1>2, <1>5, <1>6, BodyMoves

LEMMA AlignBeginsMoves ==
  ASSUME IInv, AlignBegins
  PROVE  LogMove
<1>1. /\ poll = "running" /\ call.op \in {"write", "finish_entry"}
      /\ state = ReceivedData /\ state.tag = "ReceivedData" /\ UNCHANGED history
  BY DEF AlignBegins, Finishing, Running, ReceivedData, St
<1>2. /\ entry = cur /\ cur # NoHeader /\ cur.size \in Nat /\ BlockSize \in Nat
      /\ Align(cur.size) \in 0 .. BlockSize - 1
      /\ EntryLen(cur) = BlockSize + cur.size + Align(cur.size)
  BY <1>1, HandleFacts
<1>3. state' = AligningData(Align(cur.size)) /\ cur' = cur
  BY <1>1, <1>2 DEF AlignBegins, TarNext, NextOfEntry, Result, BadSize, history
<1>4. ItemOffset(state', cur') = ItemOffset(state, cur)
  <2>1. /\ ItemOffset(state', cur') = EntryLen(cur) - Align(cur.size)
        /\ ItemOffset(state, cur) = BlockSize + cur.size
    BY <1>1, <1>3, Offsets
  <2> QED
    BY <1>2, <2>1
<1> QED
  BY <1>1, <1>4 DEF LogMove, Log!log, history

LEMMA AlignEndsMoves ==
  ASSUME IInv, AlignEnds
  PROVE  LogMove
<1>1. /\ poll = "running" /\ call.op \in {"write", "finish_entry"}
      /\ state = AlignedData /\ state.tag = "AlignedData"
  BY DEF AlignEnds, Finishing, Running, AlignedData, St
<1>2. /\ TypeOK /\ StateInv /\ DoneInv /\ ArchiveImage
      /\ entry = cur /\ cur # NoHeader /\ EntryLen(cur) \in Nat
  <2>1. /\ TypeOK /\ StateInv /\ DoneInv /\ ArchiveImage
        /\ entry = cur /\ entry # NoHeader /\ cur.size # BadSize /\ cur \in Header
    BY <1>1, HandleFacts DEF StateInv, InData
  <2> QED
    BY <2>1, EntryLenType
<1>3. ItemOffset(state, cur) = EntryLen(cur)
  BY <1>1, Offsets
<1>4. Len(Image) - EntryLen(cur) = Base
  <2>1. Len(Image) = Base + EntryLen(cur) /\ Base \in Nat
    BY <1>1, <1>2, <1>3, DoneFacts DEF ArchiveImage, Total
  <2> QED
    BY <1>2, <2>1
<1>5. /\ state' = ExpectingHeader /\ cur' = NoHeader /\ head' = NoHeader
      /\ done' = Append(done, [hdr |-> cur, head |-> head, base |-> Base])
  BY <1>1, <1>4 DEF AlignEnds, TarNext, Result
<1>6. ItemOffset(state', cur') = 0
  BY <1>5, Offsets
<1>7. [head |-> head, hdr |-> cur] # [head |-> NoHeader, hdr |-> NoHeader]
  BY <1>2
<1>8. Log!Seal
  BY <1>2, <1>3, <1>5, <1>6, <1>7, LogFacts, SameFormat DEF Log!Seal
<1> QED
  BY <1>8 DEF LogMove

LEMMA EndWriteMoves ==
  ASSUME IInv, IInv', poll' # "gone", EndWrite
  PROVE  LogMove
<1> DEFINE rem == IF state.tag = "ExpectingHeader" THEN BlockSize ELSE state.rem
           at  == ItemOffset(state, cur)
<1>1. /\ TypeOK /\ StateInv /\ DoneInv /\ poll # "gone" /\ WritesEnd /\ Writes
      /\ cur = NoHeader /\ head = NoHeader /\ call.op = "finish"
      /\ BlockSize \in Nat /\ BlockSize > 0 /\ NoHeader \in Header
      /\ done' = done /\ cur' = NoHeader /\ head' = NoHeader
  BY EndFacts, CallFacts DEF EndWrite, Writes, history
<1>2. \/ state = ExpectingHeader /\ rem = BlockSize
      \/ state = ReceivingHeader(rem, TRUE) /\ rem \in 1 .. BlockSize
      \/ state = ReceivingEof(rem) /\ rem \in 1 .. BlockSize
  BY <1>1, EndFacts DEF ExpectingHeader, ReceivingHeader, ReceivingEof, St
<1>3. PICK n \in 0 .. BlockSize :
        PollWriteVectored(Outgoing, Len(Outgoing), NoHeader, n)
  BY DEF EndWrite
<1>4. Outgoing = Zeros(rem)
  BY <1>1 DEF Outgoing, Running
<1> HIDE DEF rem
<1>5. rem \in 0 .. BlockSize
  <2>1. BlockSize \in 0 .. BlockSize /\ \A i \in 1 .. BlockSize : i \in 0 .. BlockSize
    BY <1>1
  <2> QED
    BY <1>2, <2>1, Zenon
<1>6. Len(Outgoing) = rem
  BY <1>1, <1>4, <1>5, ZerosType
<1>7. n \in 0 .. rem /\ ItemOffset(state', cur') = at + n
  BY <1>1, <1>3, <1>6, Moves
<1>8. at \in Nat /\ at + rem <= EofLen /\ EofLen \in Nat
  <2>1. (at = 0 /\ rem = BlockSize) \/ at = BlockSize - rem \/ at = EofLen - rem
    <3>1. /\ state = ExpectingHeader => at = 0
          /\ state = ReceivingHeader(rem, TRUE) => at = BlockSize - rem
          /\ state = ReceivingEof(rem) => at = EofLen - rem
      BY ZenonT(30), Offsets
    <3> QED
      BY ZenonT(30), <1>2, <3>1
  <2>2. EofLen = 2 * BlockSize
    BY DEF EofLen
  <2> HIDE DEF at
  <2> QED
    BY <1>1, <1>5, <2>1, <2>2
<1>9. CASE n = 0
  <2>1. ItemOffset(state', cur') = at
    <3> HIDE DEF at
    <3> QED
      BY <1>7, <1>8, <1>9
  <2> QED
    BY <1>1, <2>1 DEF LogMove, Log!log
<1>10. CASE n # 0
  <2>1. ItemOffset(state', cur') \in at + 1 .. EofLen
    <3>1. at + n \in at + 1 .. EofLen
      <4> HIDE DEF at
      <4> QED
        BY <1>1, <1>5, <1>7, <1>8, <1>10
    <3> QED
      BY <1>7, <3>1
  <2>2. Log!TakeEnd
    BY <1>1, <2>1, LogFacts, SameFormat DEF Log!TakeEnd
  <2> QED
    BY <2>2 DEF LogMove
<1> QED
  BY <1>9, <1>10

-----------------------------------------------------------------------------
(* A step of a call that does not shut the object down adds to the log, or *)
(* leaves it as it is.                                                     *)
LEMMA StepMoves ==
  ASSUME IInv, IInv', poll' # "gone", Step
  PROVE  LogMove \/ Shutdown
<1>1. CASE AddEntryStep
  BY <1>1, HeaderWriteMoves, HeaderOpensMoves, NothingMoves, WriteFailsFacts
     DEF AddEntryStep, HeaderStalls, HeaderOverlaps, HeaderPanics, archive, IInv
<1>2. CASE WriteStep
  BY <1>2, EntryWriteMoves, NothingMoves, WriteFailsFacts
     DEF WriteStep, EntryStalls, EntryWritePanics, archive, IInv
<1>3. CASE FinishEntryStep
  BY <1>3, AlignBeginsMoves, AlignWriteMoves, AlignEndsMoves, NothingMoves,
     WriteFailsFacts
     DEF FinishEntryStep, AlignStalls, AlignedAlready, AlignPanics, archive, IInv
<1>4. CASE FlushStep
  BY <1>4, NothingMoves DEF FlushStep, FlushReturns, FlushStalls
<1>5. CASE FinishStep
  BY <1>5, EndWriteMoves, NothingMoves, WriteFailsFacts
     DEF FinishStep, EndStalls, ShutdownStalls, FinishPanics, archive, IInv
<1> QED
  BY <1>1, <1>2, <1>3, <1>4, <1>5 DEF Step

(* After finish no step changes what is written, sent or buffered.         *)
LEMMA ClosedStays ==
  ASSUME LogInv, shut, Next
  PROVE  /\ shut' /\ UNCHANGED <<state, out, history>>
         /\ data' = <<>> /\ pos' = 0
         /\ poll' = "gone" => IntoInner
<1> USE DEF archive, handle, history, control
<1>1. /\ TypeOK /\ state = ReceivedEof /\ state.tag = "ReceivedEof"
      /\ data = <<>> /\ pos = 0 /\ entry = NoHeader
  BY DEF LogInv, IInv, ClosedInv, StateInv, InEnd, ReceivedEof, St
<1>2. CASE AddEntryStep
  BY <1>1, <1>2
     DEF AddEntryStep, HeaderWrite, HeaderStalls, WritesHeader, HeaderOpensEntry,
         HeaderOverlaps, HeaderPanics, ReceivedHeader, ReceivedEof, St, Panic
<1>3. ~ WriteStep /\ ~ FinishEntryStep /\ ~ FlushStep
  BY <1>1, HandleFacts
     DEF LogInv, WriteStep, EntryWrite, EntryStalls, EntryWritePanics, FinishEntryStep,
         AlignBegins, AlignWrite, AlignStalls, AlignEnds, AlignedAlready, AlignPanics,
         FlushStep, FlushReturns, FlushStalls, Finishing, Flushing, Running
<1>4. ASSUME Flushed PROVE out' = out /\ data' = <<>> /\ pos' = 0
  <2>1. Len(Unsent) = 0 /\ Unsent \in Seq(Byte) /\ out \in Seq(Byte)
    BY <1>1, UnsentType, EmptySeq DEF TypeOK, StoreTypeOK
  <2> QED
    BY <1>4, <2>1, EmptySeq, ConcatEmptySeq DEF Flushed, Image
<1>5. ASSUME NEW res PROVE ~ FlushStops(res)
  <2>1. Len(Unsent) = 0
    BY <1>1, UnsentType, EmptySeq
  <2> QED
    BY <2>1 DEF FlushStops
<1>6. \A res : Leave(res) => poll' # "gone"
  BY DEF Leave, Park, Return
<1>7. CASE FinishStep
  BY <1>1, <1>4, <1>5, <1>6, <1>7
     DEF FinishStep, EndWrite, EndStalls, WritesEnd, Shutdown, ShutdownStalls,
         FinishPanics, Return, Panic
<1>8. CASE Task \/ Wake
  BY <1>1, <1>8
     DEF Task, AddEntry, Write, Flush, FinishEntry, Finish, Begin, DropEntry,
         Cancel, Return, IntoInner, Wake
<1> QED
  BY <1>2, <1>3, <1>7, <1>8 DEF Next, Step

-----------------------------------------------------------------------------
(* The log is closed once, with all of it delivered: the object that is    *)
(* shut down has every byte, and the state it leaves is ClosedInv.         *)
LEMMA ShutdownCloses ==
  ASSUME LogInv, IInv', ~ shut, Shutdown
  PROVE  Log!Next /\ ClosedInv'
<1>1. /\ state = ReceivedEof /\ state.tag = "ReceivedEof" /\ state' = state
      /\ Flushed /\ shut' = TRUE /\ poll = "running" /\ poll' = "idle"
      /\ UNCHANGED history /\ cur' = cur /\ head' = head /\ done' = done
  BY DEF Shutdown, Return, Running, ReceivedEof, St, history
<1>2. /\ TypeOK /\ StateInv /\ DoneInv /\ ArchiveImage
      /\ TypeOK' /\ StateInv' /\ DoneInv' /\ ArchiveImage'
  BY DEF LogInv, IInv
<1>3. cur = NoHeader /\ head = NoHeader
  <2>1. state # ReceivingEof(BlockSize)
    BY <1>1 DEF ReceivingEof, ReceivedEof, St
  <2> QED
    BY <1>1, <1>2, <2>1 DEF StateInv, InEnd
<1>4. ItemOffset(state, cur) = EofLen
  BY <1>1, Offsets
<1>5. OutGrows
  BY <1>1, <1>2, FlushGrows
<1>6. Log!Deliver
  BY <1>1, <1>5, DeliverHolds
<1>7. Len(out') = Log!LogLen
  <2>1. out' = Image
    BY <1>1, <1>2, FlushedFacts
  <2> QED
    BY <1>1, <1>2, <2>1, LogFacts DEF ArchiveImage
<1>8. Log!Close
  <2>1. Log!NoEntry = [head |-> NoHeader, hdr |-> NoHeader]
    BY <1>2, LogFacts
  <2> QED
    BY <1>1, <1>3, <1>4, <1>6, <1>7, <2>1, SameFormat
       DEF Log!Close, Log!log
<1>9. ClosedInv'
  BY <1>1 DEF ClosedInv, Flushed
<1> QED
  BY <1>8, <1>9 DEF Log!Next

LEMMA InitOfLog == Init => Log!Init /\ LogInv
<1> SUFFICES ASSUME Init PROVE Log!Init /\ LogInv
  OBVIOUS
<1>1. ItemOffset(state, cur) = 0
  BY Offsets DEF Init
<1>2. Log!NoEntry = [head |-> NoHeader, hdr |-> NoHeader]
  BY SameFormat DEF Log!NoEntry, Log!Entry
<1>3. Log!Init
  BY <1>1, <1>2 DEF Init, Log!Init
<1> QED
  BY <1>3, InitInv DEF Init, LogInv, ClosedInv

LEMMA NextOfLog == LogInv /\ IInv' /\ [Next]_vars => [Log!Next]_(Log!vars) /\ ClosedInv'
<1> SUFFICES ASSUME LogInv, IInv', [Next]_vars
             PROVE  [Log!Next]_(Log!vars) /\ ClosedInv'
  OBVIOUS
<1>1. IInv /\ TypeOK
  BY DEF LogInv, IInv
<1>2. CASE UNCHANGED vars
  BY <1>2 DEF vars, Log!vars, LogInv, ClosedInv
<1>3. CASE Next /\ shut
  <2>1. /\ shut' /\ UNCHANGED <<state, out, history>>
        /\ data' = <<>> /\ pos' = 0
        /\ poll' = "gone" => IntoInner
    BY <1>3, ClosedStays
  <2>2. ClosedInv'
    BY <1>3, <2>1 DEF LogInv, ClosedInv
  <2>3. /\ state' = state /\ cur' = cur /\ head' = head /\ done' = done
        /\ out' = out /\ shut' /\ shut' = shut
    <3>1. shut \in BOOLEAN /\ shut' \in BOOLEAN
      <4>1. TypeOK'
        BY DEF IInv
      <4> QED
        BY <1>1, <4>1 DEF TypeOK, StoreTypeOK
    <3> QED
      BY <1>3, <2>1, <3>1 DEF history
  <2>4. ItemOffset(state', cur') = ItemOffset(state, cur)
    BY <2>3
  <2>5. CASE poll' = "gone"
    <3>1. poll = "idle"
      BY <2>1, <2>5 DEF IntoInner
    <3>2. Log!Release
      BY <2>3, <2>4, <2>5, <3>1 DEF Log!Release
    <3> QED
      BY <2>2, <3>2 DEF Log!Next
  <2>6. CASE poll' # "gone"
    <3>1. poll # "gone"
      BY <1>3, <2>6
         DEF Next, Step, AddEntryStep, HeaderWrite, HeaderStalls, WritesHeader,
             HeaderOpensEntry, HeaderOverlaps, HeaderPanics,
             WriteStep, EntryWrite, EntryStalls, EntryWritePanics,
             FinishEntryStep, AlignBegins, AlignWrite, AlignStalls, AlignEnds,
             AlignedAlready, AlignPanics, Finishing,
             FlushStep, FlushReturns, FlushStalls, Flushing,
             FinishStep, EndWrite, EndStalls, WritesEnd, Shutdown, ShutdownStalls,
             FinishPanics, Running, Task, AddEntry, Write, Flush, FinishEntry,
             Finish, Begin, DropEntry, Cancel, IntoInner, Wake
    <3> QED
      BY <2>2, <2>3, <2>4, <2>6, <3>1 DEF Log!vars
  <2> QED
    BY <2>5, <2>6
<1>4. CASE Step /\ ~ shut
  <2>1. poll = "running" /\ (Shutdown \/ shut' = shut)
    <3>1. poll = "running"
      BY <1>4
         DEF Step, AddEntryStep, HeaderWrite, HeaderStalls, WritesHeader,
             HeaderOpensEntry, HeaderOverlaps, HeaderPanics,
             WriteStep, EntryWrite, EntryStalls, EntryWritePanics,
             FinishEntryStep, AlignBegins, AlignWrite, AlignStalls, AlignEnds,
             AlignedAlready, AlignPanics, Finishing,
             FlushStep, FlushReturns, FlushStalls, Flushing,
             FinishStep, EndWrite, EndStalls, WritesEnd, Shutdown, ShutdownStalls,
             FinishPanics, Running
    <3>2. Shutdown \/ shut' = shut
      BY <1>4
         DEF Step, AddEntryStep, HeaderWrite, HeaderStalls, WritesHeader,
             HeaderOpensEntry, HeaderOverlaps, HeaderPanics,
             WriteStep, EntryWrite, EntryStalls, EntryWritePanics,
             FinishEntryStep, AlignBegins, AlignWrite, AlignStalls, AlignEnds,
             AlignedAlready, AlignPanics, Finishing,
             FlushStep, FlushReturns, FlushStalls, Flushing,
             FinishStep, EndWrite, EndStalls, WritesEnd, ShutdownStalls,
             FinishPanics
    <3> QED
      BY <3>1, <3>2
  <2>2. CASE Shutdown
    BY <1>4, <2>2, ShutdownCloses
  <2>3. CASE ~ Shutdown
    <3>1. poll' # "gone" /\ OutGrows
      <4>1. poll' # "gone"
        BY <1>4, <2>1
           DEF Step, AddEntryStep, HeaderWrite, HeaderStalls, HeaderOpensEntry,
               HeaderOverlaps, HeaderPanics,
               WriteStep, EntryWrite, EntryStalls, EntryWritePanics,
               FinishEntryStep, AlignBegins, AlignWrite, AlignStalls, AlignEnds,
               AlignedAlready, AlignPanics, EntryFinished,
               FlushStep, FlushReturns, FlushStalls,
               FinishStep, EndWrite, EndStalls, Shutdown, ShutdownStalls,
               FinishPanics, Leave, Park, Return, Panic, Continue, control
      <4> QED
        BY <1>1, <1>4, <4>1, StepGrows
    <3>2. LogMove
      BY <1>1, <1>4, <2>3, <3>1, StepMoves
    <3> QED
      BY <1>4, <2>1, <2>3, <3>1, <3>2, MoveIsWrite DEF ClosedInv
  <2> QED
    BY <2>2, <2>3
<1>5. CASE (Task \/ Wake) /\ ~ shut
  <2>1. CASE IntoInner
    BY <1>5, <2>1 DEF IntoInner, history, ClosedInv, Log!Next, Log!Release
  <2>2. CASE ~ IntoInner
    <3>1. /\ UNCHANGED <<archive, out, shut, history>> /\ poll' # "gone"
          /\ poll # "gone"
      BY <1>5, <2>2
         DEF Task, AddEntry, Write, Flush, FinishEntry, Finish, Begin, DropEntry,
             Cancel, Return, Wake, control
    <3> QED
      BY <1>5, <3>1 DEF archive, history, Log!vars, ClosedInv
  <2> QED
    BY <2>1, <2>2
<1> QED
  BY <1>2, <1>3, <1>4, <1>5 DEF Next

(* The writer implements the log: at every step of every call, whatever    *)
(* the object takes, refuses or holds up and whichever calls are given up, *)
(* the object has a prefix of the archive that is being written, at most   *)
(* the buffer behind it; no byte it has changes; finish shuts it down once *)
(* and only with the whole of a complete archive (write/mod.rs:181, 216).  *)
THEOREM WriterImplementsLog == Spec => ImplementsLog
<1>1. Init => Log!Init /\ LogInv
  BY InitOfLog
<1>2. LogInv /\ IInv' /\ [Next]_vars => [Log!Next]_(Log!vars) /\ LogInv'
  BY NextOfLog DEF LogInv
<1> QED
  BY <1>1, <1>2, InvariantHolds, PTL DEF Spec, ImplementsLog, Log!Spec

-----------------------------------------------------------------------------
(* What the object has after a finish that returned Ok.  Once it is shut   *)
(* down it has the whole of the archive, also when the Archive is then     *)
(* taken apart.                                                            *)
CompleteInv == shut => Len(out) = Total

LEMMA ClosedIsComplete == IInv /\ ClosedInv /\ poll # "gone" => CompleteInv
<1> SUFFICES ASSUME IInv, ClosedInv, poll # "gone", shut PROVE Len(out) = Total
  BY DEF CompleteInv
<1>1. Len(Image) = Total /\ TypeOK
  BY DEF IInv, ArchiveImage
<1>2. Len(Image) = Len(out) + Len(data) - pos
  BY <1>1, UnsentType
<1>3. Len(data) = 0 /\ pos = 0 /\ Len(out) \in Nat
  BY <1>1, EmptySeq, LenProperties DEF ClosedInv, TypeOK, StoreTypeOK
<1> QED
  BY <1>1, <1>2, <1>3

LEMMA CompleteNext ==
  LogInv /\ CompleteInv /\ IInv' /\ ClosedInv' /\ [Next]_vars => CompleteInv'
<1> DEFINE Closed == ClosedInv /\ poll # "gone"
<1>1. IInv /\ Closed => CompleteInv
  BY ClosedIsComplete
<1>2. IInv' /\ Closed' => CompleteInv'
  <2> HIDE DEF Closed
  <2> QED
    BY <1>1, PTL
<1> SUFFICES ASSUME LogInv, CompleteInv, IInv', ClosedInv', [Next]_vars PROVE CompleteInv'
  OBVIOUS
<1>3. CASE UNCHANGED vars
  BY <1>3 DEF vars, CompleteInv, Total, Base
<1>4. CASE Next /\ shut
  <2>1. UNCHANGED <<state, out, cur, done>>
    BY <1>4, ClosedStays DEF history
  <2> QED
    BY <1>4, <2>1 DEF CompleteInv, Total, Base
<1>5. CASE Next /\ ~ shut /\ shut'
  <2>1. shut' # shut
    BY <1>5
  <2>2. Shutdown
    BY <1>5, <2>1
       DEF Next, Step, AddEntryStep, HeaderWrite, HeaderStalls, HeaderOpensEntry,
           HeaderOverlaps, HeaderPanics,
           WriteStep, EntryWrite, EntryStalls, EntryWritePanics,
           FinishEntryStep, AlignBegins, AlignWrite, AlignStalls, AlignEnds,
           AlignedAlready, AlignPanics,
           FlushStep, FlushReturns, FlushStalls,
           FinishStep, EndWrite, EndStalls, ShutdownStalls, FinishPanics,
           Task, AddEntry, Write, Flush, FinishEntry, Finish, Begin, DropEntry,
           Cancel, IntoInner, Wake
  <2>3. poll' # "gone"
    BY <2>2 DEF Shutdown, Return
  <2> QED
    BY <1>2, <2>3
<1>6. CASE ~ shut'
  BY <1>6 DEF CompleteInv
<1> QED
  BY <1>3, <1>4, <1>5, <1>6

LEMMA DoneBytesType ==
  ASSUME TypeOK, DoneInv, NEW k \in 1 .. Len(done)
  PROVE  /\ DoneBytes(k) \in Seq(Byte) /\ Len(DoneBytes(k)) = EntryLen(done[k].hdr)
         /\ \A i \in 1 .. EntryLen(done[k].hdr) :
              DoneBytes(k)[i] = EntryByteUnder(done[k].head, done[k].hdr, i)
<1> DEFINE h == done[k].hdr
           under == done[k].head
           n == EntryLen(h)
<1>1. n \in Nat
  BY DoneFacts
<1>2. h \in Header /\ under \in Header
  <2>1. done \in Seq([hdr : Headers \cup {NoHeader}, head : Headers \cup {NoHeader},
                      base : Int])
    BY DEF TypeOK, HistoryTypeOK
  <2>2. done[k] \in [hdr : Headers \cup {NoHeader}, head : Headers \cup {NoHeader},
                      base : Int]
    BY <2>1, ElementOfSeq
  <2> QED
    BY <2>2, HeadersAssumption DEF Header
<1>3. h.id \in Nat /\ under.id \in Nat
  BY <1>2 DEF Header, HeaderType, NoHeader
<1> HIDE DEF h, under, n
<1>4. ASSUME NEW i \in 1 .. n PROVE EntryByteUnder(under, h, i) \in Byte
  <2>1. i \in Nat
    BY <1>1
  <2>2. ZeroByte \in Byte /\ <<"hdr", under.id, i>> \in Byte /\ <<"hdr", h.id, i>> \in Byte
    BY <1>3, <2>1 DEF ZeroByte, Byte
  <2>3. i > BlockSize => DataByte(h, i - BlockSize) \in Byte
    BY <1>3, <2>1, BlockFacts DEF DataByte, Byte
  <2> QED
    BY <2>1, <2>2, <2>3, BlockFacts DEF EntryByteUnder, HeaderByte, EntryByte
<1>5. DoneBytes(k) = [i \in 1 .. n |-> EntryByteUnder(under, h, i)]
  BY DEF DoneBytes, EntryBytesUnder, n, h, under
<1>6. DoneBytes(k) \in Seq(Byte) /\ Len(DoneBytes(k)) = n
      /\ \A i \in 1 .. n : DoneBytes(k)[i] = EntryByteUnder(under, h, i)
  BY <1>1, <1>4, <1>5
<1> QED
  BY <1>6 DEF n, h, under

(* Once finish returned Ok the object has the entries, one behind the      *)
(* other, and the two empty blocks, whatever the object took at a time,    *)
(* refused or held up before (write/mod.rs:181; lib.rs:195).               *)
LEMMA CompleteIsDelivered == LogInv /\ CompleteInv => FinishDelivers
<1> SUFFICES ASSUME LogInv, CompleteInv, shut
             PROVE  out = FlattenSeq([k \in 1 .. Len(done) |-> DoneBytes(k)]) \o Zeros(EofLen)
  BY DEF FinishDelivers
<1> DEFINE n == Len(done)
           slices == [k \in 1 .. n |-> DoneBytes(k)]
           place(k) == IF k = 0 THEN 0 ELSE EndOf(done[k])
<1>1. /\ TypeOK /\ DoneInv /\ FinishedEntries /\ OpenItem
      /\ state = ReceivedEof /\ cur = NoHeader /\ data = <<>> /\ pos = 0
      /\ Len(out) = Total
  <2>1. /\ TypeOK /\ DoneInv /\ FinishedEntries /\ OpenItem /\ StateInv
        /\ state = ReceivedEof /\ data = <<>> /\ pos = 0 /\ Len(out) = Total
    BY DEF LogInv, IInv, ArchiveImage, ClosedInv, CompleteInv
  <2>2. cur = NoHeader
    <3>1. ReceivedEof.tag = "ReceivedEof" /\ ReceivedEof # ReceivingEof(BlockSize)
      BY DEF ReceivedEof, ReceivingEof, St
    <3> QED
      BY <2>1, <3>1 DEF StateInv, InEnd
  <2> QED
    BY <2>1, <2>2
<1>2. /\ out \in Seq(Byte) /\ Len(out) \in Nat
      /\ Len(Image) = Len(out) /\ \A i \in 1 .. Len(out) : Image[i] = out[i]
  <2>1. ImageParts /\ out \in Seq(Byte)
    BY <1>1, ImageIsParts DEF TypeOK, StoreTypeOK
  <2>2. Len(Image) = Len(out) + Len(data) - pos /\ Len(data) = 0
    BY <1>1, UnsentType, EmptySeq
  <2> QED
    BY <1>1, <2>1, <2>2 DEF ImageParts
<1>3. /\ n \in Nat /\ Base \in Nat /\ EofLen \in Nat /\ Total = Base + EofLen
      /\ place(n) = Base
  <2>1. n \in Nat /\ Base \in Nat /\ EofLen \in Nat
    BY <1>1, DoneFacts, BlockFacts DEF EofLen
  <2>2. Total = Base + EofLen
    BY <1>1, Offsets DEF Total
  <2>3. place(n) = Base
    <3>1. done = <<>> <=> Len(done) = 0
      <4>1. done \in Seq([hdr : Headers \cup {NoHeader}, head : Headers \cup {NoHeader},
                          base : Int])
        BY <1>1 DEF TypeOK, HistoryTypeOK
      <4> QED
        BY <4>1, EmptySeq
    <3> QED
      BY <3>1 DEF Base
  <2> QED
    BY <2>1, <2>2, <2>3
<1>4. ASSUME NEW k \in 1 .. n
      PROVE  /\ place(k - 1) \in Nat /\ done[k].base = place(k - 1)
             /\ EntryLen(done[k].hdr) \in Nat
             /\ place(k) = place(k - 1) + EntryLen(done[k].hdr)
             /\ place(k) <= Base
             /\ \A i \in 1 .. EntryLen(done[k].hdr) :
                  Holds(place(k - 1) + i, EntryByteUnder(done[k].head, done[k].hdr, i))
  <2>1. /\ done[k].base \in Nat /\ EntryLen(done[k].hdr) \in Nat
        /\ EndOf(done[k]) = done[k].base + EntryLen(done[k].hdr)
        /\ EndOf(done[k]) <= Base
    BY <1>1, DoneFacts
  <2>2. done[k].base = IF k = 1 THEN 0 ELSE EndOf(done[k - 1])
    BY <1>1 DEF FinishedEntries
  <2>3. place(k - 1) = done[k].base /\ place(k) = EndOf(done[k])
    BY <2>2
  <2>4. \A i \in 1 .. EntryLen(done[k].hdr) :
          Holds(done[k].base + i, EntryByteUnder(done[k].head, done[k].hdr, i))
    BY <1>1 DEF FinishedEntries
  <2> HIDE DEF place
  <2> QED
    BY <2>1, <2>3, <2>4
<1>5. slices \in Seq(Seq(Byte)) /\ Len(slices) = n /\ \A k \in 1 .. n : slices[k] = DoneBytes(k)
  <2>1. \A k \in 1 .. n : DoneBytes(k) \in Seq(Byte)
    BY <1>1, DoneBytesType
  <2> QED
    BY <1>3, <2>1
<1> HIDE DEF slices
<1>6. PICK g \in [0 .. n -> Seq(Byte)] :
        /\ g[0] = <<>>
        /\ \A k \in 1 .. n : g[k] = g[k - 1] \o slices[k]
        /\ FlattenSeq(slices) = g[n]
  <2>1. \E g \in [0 .. Len(slices) -> Seq(Byte)] :
           /\ g[0] = <<>>
           /\ \A k \in 1 .. Len(slices) : g[k] = g[k - 1] \o slices[k]
           /\ FlattenSeq(slices) = g[Len(slices)]
    BY <1>5, FlattenSteps, Zenon
  <2>2. Len(slices) = n
    BY <1>5
  <2> HIDE DEF n
  <2> QED
    BY <2>1, <2>2, Zenon
<1> DEFINE T == {m \in 0 .. n : Len(g[m]) = place(m)
                                /\ \A i \in 1 .. place(m) : g[m][i] = out[i]}
<1>7. 0 \in T
  BY <1>3, <1>6, EmptySeq
<1>8. ASSUME NEW m \in 0 .. n - 1, m \in T PROVE m + 1 \in T
  <2> DEFINE k == m + 1
             len == EntryLen(done[k].hdr)
             b == DoneBytes(k)
  <2>1. k \in 1 .. n /\ k \in 0 .. n /\ k - 1 = m /\ m \in 0 .. n
    BY <1>3
  <2>2. /\ place(m) \in Nat /\ len \in Nat /\ place(k) = place(m) + len
        /\ place(k) <= Base
        /\ \A i \in 1 .. len :
             Holds(place(m) + i, EntryByteUnder(done[k].head, done[k].hdr, i))
    <3> HIDE DEF place, k
    <3> QED
      BY <1>4, <2>1
  <2>3. b \in Seq(Byte) /\ Len(b) = len
        /\ \A i \in 1 .. len : b[i] = EntryByteUnder(done[k].head, done[k].hdr, i)
    <3> HIDE DEF k
    <3> QED
      BY <1>1, <2>1, DoneBytesType
  <2>4. g[k] = g[m] \o b /\ g[m] \in Seq(Byte) /\ Len(g[m]) = place(m)
        /\ \A i \in 1 .. place(m) : g[m][i] = out[i]
    <3> HIDE DEF k, b
    <3>1. g[k] = g[k - 1] \o slices[k] /\ slices[k] = b
      BY <1>5, <1>6, <2>1 DEF b
    <3> QED
      BY <1>6, <1>8, <2>1, <3>1
  <2> DEFINE p == place(m)
  <2> HIDE DEF place, k, len, b, p
  <2>5. /\ Len(g[k]) = p + len
        /\ \A i \in 1 .. p + len : g[k][i] = IF i <= p THEN g[m][i] ELSE b[i - p]
    <3> DEFINE a == g[m]
               c == a \o b
    <3>1. a \in Seq(Byte) /\ b \in Seq(Byte) /\ Len(a) = p /\ Len(b) = len
          /\ p \in Nat /\ len \in Nat
      BY <2>2, <2>3, <2>4 DEF p
    <3>2. g[k] = c
      BY <2>4
    <3> HIDE DEF a
    <3>3. Len(c) = p + len
          /\ \A i \in 1 .. p + len : c[i] = IF i <= p THEN a[i] ELSE b[i - p]
      BY <3>1, ConcatProperties
    <3> HIDE DEF c
    <3> QED
      BY <3>2, <3>3 DEF a
  <2>6. ASSUME NEW i \in 1 .. p + len PROVE g[k][i] = out[i]
    <3>1. CASE i <= p
      <4>1. i \in 1 .. p
        BY <2>2, <3>1 DEF p
      <4> QED
        BY <2>4, <2>5, <3>1, <4>1 DEF p
    <3>2. CASE ~ (i <= p)
      <4>1. i - p \in 1 .. len /\ p + (i - p) = i /\ i <= Base /\ i \in Nat
        BY <1>3, <2>2, <3>2 DEF p
      <4>2. i \in 1 .. Len(out)
        BY <1>1, <1>2, <1>3, <4>1
      <4>3. Holds(i, EntryByteUnder(done[k].head, done[k].hdr, i - p))
        BY <2>2, <4>1 DEF p
      <4>4. out[i] = EntryByteUnder(done[k].head, done[k].hdr, i - p)
        BY <1>2, <4>2, <4>3 DEF Holds
      <4> QED
        BY <2>3, <2>5, <3>2, <4>1, <4>4
    <3> QED
      BY <3>1, <3>2
  <2>7. k \in T
    BY <2>1, <2>2, <2>5, <2>6 DEF p
  <2> QED
    BY <2>7 DEF k
<1>9. 0 .. n \subseteq T
  <2> HIDE DEF T
  <2> QED
    BY <1>3, <1>7, <1>8, UpTo
<1>10. Len(g[n]) = Base /\ (\A i \in 1 .. Base : g[n][i] = out[i]) /\ g[n] \in Seq(Byte)
  <2>1. n \in 0 .. n
    BY <1>3
  <2>2. n \in T
    BY <1>9, <2>1
  <2> QED
    BY <1>3, <1>6, <2>1, <2>2
<1> DEFINE z == Zeros(EofLen)
           f == g[n]
<1>11. z \in Seq(Byte) /\ Len(z) = EofLen /\ \A i \in 1 .. EofLen : z[i] = ZeroByte
  BY <1>3 DEF Zeros, ZeroByte, Byte
<1>12. ASSUME NEW i \in 1 .. EofLen PROVE out[Base + i] = ZeroByte
  <2>1. ItemOffset(state, cur) = EofLen
    BY <1>1, Offsets
  <2>2. Holds(Base + i, ZeroByte)
    BY <1>1, <2>1 DEF OpenItem, OpenByte
  <2>3. Base + i \in 1 .. Len(out)
    BY <1>1, <1>2, <1>3
  <2> QED
    BY <1>2, <2>2, <2>3 DEF Holds
<1> HIDE DEF z, T, f
<1>13. /\ f \o z \in Seq(Byte) /\ Len(f \o z) = Base + EofLen
       /\ \A i \in 1 .. Base + EofLen :
            (f \o z)[i] = IF i <= Base THEN f[i] ELSE z[i - Base]
  BY <1>10, <1>11, ConcatProperties DEF f
<1>14. Len(out) = Len(f \o z) /\ Len(out) = Base + EofLen
  BY <1>1, <1>3, <1>13
<1>15. ASSUME NEW i \in 1 .. Len(out) PROVE out[i] = (f \o z)[i]
  <2>1. CASE i <= Base
    <3>1. i \in 1 .. Base /\ i \in 1 .. Base + EofLen
      BY <1>3, <1>14, <2>1
    <3> QED
      BY <1>10, <1>13, <2>1, <3>1 DEF f
  <2>2. CASE ~ (i <= Base)
    <3>1. i - Base \in 1 .. EofLen /\ Base + (i - Base) = i /\ i \in 1 .. Base + EofLen
      BY <1>3, <1>14, <2>2
    <3>2. out[Base + (i - Base)] = ZeroByte
      BY <1>12, <3>1
    <3> QED
      BY <1>11, <1>13, <2>2, <3>1, <3>2
  <2> QED
    BY <2>1, <2>2
<1>16. out = f \o z
  BY <1>2, <1>13, <1>14, <1>15, SeqEqual
<1> QED
  BY <1>6, <1>16 DEF f, z, slices

(* Once finish returned Ok the object has the whole archive: each entry    *)
(* behind its header, its data and its padding, and the two empty blocks   *)
(* (lib.rs:195, poll_finish in write/mod.rs).                              *)
THEOREM FinishIsComplete == Spec => []FinishDelivers
<1>1. Init => LogInv /\ CompleteInv
  BY InitOfLog DEF Init, CompleteInv
<1>2. LogInv /\ IInv' /\ [Next]_vars => LogInv'
  BY NextOfLog DEF LogInv
<1>3. LogInv /\ CompleteInv /\ IInv' /\ LogInv' /\ [Next]_vars => CompleteInv'
  BY CompleteNext DEF LogInv
<1> QED
  BY <1>1, <1>2, <1>3, InvariantHolds, CompleteIsDelivered, PTL DEF Spec

-----------------------------------------------------------------------------
(* The archive a reader is given.  A finished entry has its own header     *)
(* before it, unless add_entry had refused the one that was written.       *)
SealedEntries ==
  \A k \in 1 .. Len(done) :
    /\ done[k].hdr \in Headers
    /\ Behind(done[k].hdr, done[k].hdr, done[k].head)

FinishedHeaders == [k \in 1 .. Len(done) |-> done[k].hdr]

FinishedArchive ==
  shut /\ (\A k \in 1 .. Len(done) : done[k].head.size # BadSize) =>
    /\ FinishedHeaders \in Seq(Headers)
    /\ out = ArchiveBytes(FinishedHeaders)

LEMMA SealedNext == IInv /\ SealedEntries /\ [Next]_vars => SealedEntries'
<1> SUFFICES ASSUME IInv, SealedEntries, [Next]_vars PROVE SealedEntries'
  OBVIOUS
<1>1. CASE done' = done
  BY <1>1 DEF SealedEntries
<1>2. CASE AlignEnds
  <2> DEFINE d == [hdr |-> cur, head |-> head, base |-> Len(Image) - EntryLen(cur)]
  <2>1. done \in Seq([hdr : Headers \cup {NoHeader}, head : Headers \cup {NoHeader},
                      base : Int])
    BY DEF IInv, TypeOK, HistoryTypeOK
  <2>2. done' = Append(done, d) /\ d.hdr = cur /\ d.head = head
    BY <1>2 DEF AlignEnds
  <2>3. AlignedData.tag = "AlignedData" /\ state = AlignedData
    BY <1>2 DEF AlignEnds, AlignedData, St
  <2>4. cur # NoHeader /\ Behind(cur, cur, head)
    BY <2>3 DEF IInv, StateInv, InData
  <2>5. cur \in Headers
    BY <2>4 DEF IInv, TypeOK, HistoryTypeOK
  <2>6. Len(done) \in Nat /\ Len(done') = Len(done) + 1
        /\ \A k \in 1 .. Len(done) : done'[k] = done[k]
        /\ done'[Len(done) + 1] = d
    <3> HIDE DEF d
    <3> QED
      BY <2>1, <2>2
  <2> HIDE DEF d
  <2>7. ASSUME NEW k \in 1 .. Len(done')
        PROVE  /\ done'[k].hdr \in Headers
               /\ Behind(done'[k].hdr, done'[k].hdr, done'[k].head)
    <3>1. CASE k \in 1 .. Len(done)
      BY <2>6, <3>1 DEF SealedEntries
    <3>2. CASE k = Len(done) + 1
      <4>1. done'[k] = d /\ d.hdr = cur /\ d.head = head
        BY <2>2, <2>6, <3>2
      <4> QED
        BY <2>4, <2>5, <4>1
    <3> QED
      BY <2>6, <2>7, <3>1, <3>2
  <2>8. Headers' = Headers
    OBVIOUS
  <2> QED
    BY <2>7 DEF SealedEntries, Behind
<1>3. CASE UNCHANGED vars
  BY <1>1, <1>3 DEF vars, history
<1>4. CASE Next /\ ~ AlignEnds
  <2>1. done' = done
    BY <1>4
       DEF Next, Step, AddEntryStep, HeaderWrite, HeaderStalls, HeaderOpensEntry,
           HeaderOverlaps, HeaderPanics,
           WriteStep, EntryWrite, EntryStalls, EntryWritePanics,
           FinishEntryStep, AlignBegins, AlignWrite, AlignStalls,
           AlignedAlready, AlignPanics,
           FlushStep, FlushReturns, FlushStalls,
           FinishStep, EndWrite, EndStalls, Shutdown, ShutdownStalls, FinishPanics,
           Task, AddEntry, Write, Flush, FinishEntry, Finish, Begin, DropEntry,
           Cancel, IntoInner, Wake, history
  <2> QED
    BY <1>1, <2>1
<1> QED
  BY <1>2, <1>3, <1>4

LEMMA DeliveredIsArchive ==
  IInv /\ SealedEntries /\ FinishDelivers => FinishedArchive
<1> SUFFICES ASSUME IInv, SealedEntries, FinishDelivers, shut,
                    \A k \in 1 .. Len(done) : done[k].head.size # BadSize
             PROVE  /\ FinishedHeaders \in Seq(Headers)
                    /\ out = ArchiveBytes(FinishedHeaders)
  BY DEF FinishedArchive
<1> DEFINE n == Len(done)
           hs == FinishedHeaders
           slices == [k \in 1 .. n |-> DoneBytes(k)]
<1>1. TypeOK /\ DoneInv /\ n \in Nat
  BY DoneFacts DEF IInv
<1>2. hs \in Seq(Headers) /\ Len(hs) = n /\ \A k \in 1 .. n : hs[k] = done[k].hdr
  BY <1>1 DEF SealedEntries, FinishedHeaders
<1>3. ASSUME NEW k \in 1 .. n PROVE DoneBytes(k) = EntryBytes(hs[k])
  <2>1. done[k].head = done[k].hdr /\ hs[k] = done[k].hdr
    BY <1>2 DEF SealedEntries, Behind
  <2> DEFINE h == hs[k]
  <2>2. DoneBytes(k) = [i \in 1 .. EntryLen(h) |-> EntryByteUnder(h, h, i)]
    BY <2>1 DEF DoneBytes, EntryBytesUnder
  <2> HIDE DEF h
  <2>3. \A i \in 1 .. EntryLen(h) : EntryByteUnder(h, h, i) = EntryByte(h, i)
    BY DEF EntryByteUnder, EntryByte
  <2> QED
    BY <2>2, <2>3 DEF EntryBytes, h
<1>4. slices \in Seq(Seq(Byte)) /\ Len(slices) = n /\ \A k \in 1 .. n : slices[k] = EntryBytes(hs[k])
  <2>1. \A k \in 1 .. n : DoneBytes(k) \in Seq(Byte)
    BY <1>1, DoneBytesType
  <2> HIDE DEF hs
  <2> QED
    BY <1>1, <1>3, <2>1
<1>5. out = FlattenSeq(slices) \o Zeros(EofLen)
  BY DEF FinishDelivers
<1> HIDE DEF slices, hs
<1>6. PICK g \in [0 .. Len(slices) -> Seq(Byte)] :
        /\ g[0] = <<>>
        /\ \A k \in 1 .. Len(slices) : g[k] = g[k - 1] \o slices[k]
        /\ FlattenSeq(slices) = g[Len(slices)]
  BY <1>4, FlattenSteps, Zenon
<1>7. /\ Laid(hs)[0] = <<>>
      /\ \A m \in 0 .. n - 1 : Laid(hs)[m + 1] = Laid(hs)[m] \o EntryBytes(hs[m + 1])
  <2>1. Len(hs) \in Nat
    BY <1>1, <1>2
  <2> QED
    BY <1>2, <2>1, LaidSteps
<1> DEFINE T == {m \in 0 .. n : g[m] = Laid(hs)[m]}
<1>8. 0 \in T
  BY <1>1, <1>6, <1>7
<1>9. ASSUME NEW m \in 0 .. n - 1, m \in T PROVE m + 1 \in T
  <2>1. m + 1 \in 1 .. n /\ m + 1 \in 0 .. n /\ (m + 1) - 1 = m
    BY <1>1
  <2>2. g[m + 1] = g[m] \o slices[m + 1] /\ slices[m + 1] = EntryBytes(hs[m + 1])
    BY <1>4, <1>6, <2>1
  <2>3. g[m + 1] = Laid(hs)[m + 1]
    BY <1>7, <1>9, <2>2
  <2> QED
    BY <2>1, <2>3
<1> HIDE DEF T
<1>10. 0 .. n \subseteq T
  BY <1>1, <1>8, <1>9, UpTo
<1>11. n \in T
  BY <1>1, <1>10
<1>12. FlattenSeq(slices) = Laid(hs)[Len(hs)]
  BY <1>2, <1>4, <1>6, <1>11 DEF T
<1> QED
  BY <1>2, <1>5, <1>12 DEF hs, ArchiveBytes, EntriesBytes

(* What finish leaves in the object is an archive of the entries that were *)
(* added, the bytes the reader is specified on, whatever was refused, held *)
(* up or given up; an entry that follows a header add_entry had refused is *)
(* excepted, since it stands behind that one (lib.rs:195, write/mod.rs:49).*)
THEOREM FinishLeavesArchive == Spec => []FinishedArchive
<1>1. Init => SealedEntries
  BY EmptySeq DEF Init, SealedEntries
<1>2. IInv /\ SealedEntries /\ [Next]_vars => SealedEntries'
  BY SealedNext
<1>3. IInv /\ SealedEntries /\ FinishDelivers => FinishedArchive
  BY DeliveredIsArchive
<1> QED
  BY <1>1, <1>2, <1>3, InvariantHolds, FinishIsComplete, PTL DEF Spec
=============================================================================
