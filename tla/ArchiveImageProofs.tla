------------------------- MODULE ArchiveImageProofs -------------------------
(***************************************************************************)
(* The writer's safety, for all headers, offers, capacities, faults and    *)
(* callers: what the archive holds, whose entry a handle is of, and what a *)
(* task was told.  None of these is inductive: they follow from IInv, which*)
(* adds what State, the call in progress and the handle say of each other. *)
(* The last part is about careful tasks and the panics that are left them. *)
(***************************************************************************)
EXTENDS ArchiveWriterProofs

-----------------------------------------------------------------------------
(* What the call in progress and the handle say of each other.  A task     *)
(* that has a handle cannot call add_entry or finish, which borrow Archive.*)
CallInv ==
  /\ ~ Busy /\ panic = "none" => call = NoCall
  /\ panic # "none" => poll = "idle"
  /\ Busy => (entry = NoHeader <=> call.op \in {"add_entry", "finish"})
  /\ call.op = "add_entry" => call.hdr \in Headers
  /\ call.phase = "flush" => call.op = "finish_entry" /\ state = ExpectingHeader
  /\ entry # NoHeader => told + call.taken <= entry.size

(* add_entry goes on with the header that is open.                         *)
Opening == panic # "none" \/ (Running("add_entry", "body") /\ cur = call.hdr)

(* What State says of the entry that is open.                              *)
BetweenEntries ==
  state.tag = "ExpectingHeader" =>
    /\ cur = NoHeader /\ head = NoHeader
    /\ entry # NoHeader =>
         done # <<>> /\ Behind(entry, done[Len(done)].hdr, done[Len(done)].head)

InHeader ==
  state.tag = "ReceivingHeader" =>
    /\ entry = NoHeader /\ head = cur
    /\ cur # NoHeader => Opening
    /\ ~ state.empty => cur # NoHeader /\ state.rem < BlockSize
    /\ state.rem < BlockSize =>
         /\ panic = "none" => poll = "running"
         /\ Len(data) = 0

AtHeader ==
  state.tag = "ReceivedHeader" =>
    /\ entry = NoHeader /\ cur # NoHeader /\ head = cur
    /\ Opening \/ cur.size = BadSize

InData ==
  state.tag \in {"ReceivingData", "ReceivedData", "AligningData", "AlignedData"} =>
    /\ cur # NoHeader /\ cur.size # BadSize
    /\ Behind(cur, cur, head)
    /\ entry # NoHeader => entry = cur
    /\ state.tag = "ReceivingData" =>
         /\ state.rem <= cur.size
         /\ entry # NoHeader => told = cur.size - state.rem
    /\ state.tag = "AligningData" => state.rem <= Align(cur.size)

InEnd ==
  state.tag \in {"ReceivingEof", "ReceivedEof"} =>
    /\ entry = NoHeader /\ head = cur
    /\ cur # NoHeader =>
         Opening /\ state = ReceivingEof(BlockSize) /\ cur.lead = BlockSize

StateInv == BetweenEntries /\ InHeader /\ AtHeader /\ InData /\ InEnd

(* The finished entries end where the open item begins, or before.         *)
DoneInv ==
  \A k \in 1 .. Len(done) :
    /\ done[k].base \in Nat /\ done[k].hdr.size # BadSize
    /\ EndOf(done[k]) <= Base

IInv == TypeOK /\ CallInv /\ StateInv /\ DoneInv /\ ArchiveImage

-----------------------------------------------------------------------------
(* Lengths and offsets are natural numbers.                                *)
LEMMA EntryLenType ==
  ASSUME NEW h \in Header, h.size # BadSize
  PROVE  /\ h.size \in Nat /\ Align(h.size) \in 0 .. BlockSize - 1
         /\ EntryLen(h) \in Nat /\ EntryLen(h) = BlockSize + h.size + Align(h.size)
<1>1. h.size \in Nat
  BY HeaderFields
<1> QED
  BY <1>1, AlignRange, BlockFacts DEF EntryLen

LEMMA Offsets ==
  ASSUME NEW h
  PROVE  /\ ItemOffset(ExpectingHeader, h) = 0
         /\ \A r, e : ItemOffset(ReceivingHeader(r, e), h) = BlockSize - r
         /\ ItemOffset(ReceivedHeader, h) = BlockSize
         /\ \A r : ItemOffset(ReceivingData(r), h) = BlockSize + h.size - r
         /\ ItemOffset(ReceivedData, h) = BlockSize + h.size
         /\ \A r : ItemOffset(AligningData(r), h) = EntryLen(h) - r
         /\ ItemOffset(AlignedData, h) = EntryLen(h)
         /\ \A r : ItemOffset(ReceivingEof(r), h) = EofLen - r
         /\ ItemOffset(ReceivedEof, h) = EofLen
  BY DEF ItemOffset, ExpectingHeader, ReceivingHeader, ReceivedHeader,
     ReceivingData, ReceivedData, AligningData, AlignedData, ReceivingEof,
     ReceivedEof, St

LEMMA OffsetAfterHeaderBytes ==
  ASSUME NEW rem \in 0 .. BlockSize, NEW z \in BOOLEAN, NEW h
  PROVE  ItemOffset(AfterHeaderBytes(rem, z), h) = BlockSize - rem
<1>1. CASE rem > 0
  BY <1>1, Offsets DEF AfterHeaderBytes
<1>2. CASE rem = 0 /\ z
  <2>1. AfterHeaderBytes(rem, z) = ReceivingEof(BlockSize)
    BY <1>2 DEF AfterHeaderBytes
  <2>2. ItemOffset(ReceivingEof(BlockSize), h) = EofLen - BlockSize
    BY Offsets
  <2>3. EofLen - BlockSize = BlockSize - 0
    BY BlockFacts DEF EofLen
  <2> QED
    BY <1>2, <2>1, <2>2, <2>3
<1>3. CASE rem = 0 /\ ~ z
  BY <1>3, Offsets, BlockFacts DEF AfterHeaderBytes
<1> QED
  BY <1>1, <1>2, <1>3, BlockFacts

LEMMA OffsetType ==
  ASSUME TypeOK, StateInv
  PROVE  ItemOffset(state, cur) \in Nat
<1>1. GoodState(state) /\ cur \in Header /\ BlockSize \in Nat /\ BlockSize > 0
  BY CallFacts, BlockFacts
<1>2. CASE state.tag \in {"ReceivingData", "ReceivedData", "AligningData", "AlignedData"}
  <2>1. /\ cur.size # BadSize
        /\ state.tag = "ReceivingData" => state.rem <= cur.size
        /\ state.tag = "AligningData" => state.rem <= Align(cur.size)
    BY <1>2 DEF StateInv, InData
  <2>2. /\ cur.size \in Nat /\ Align(cur.size) \in Nat /\ EntryLen(cur) \in Nat
        /\ EntryLen(cur) = BlockSize + cur.size + Align(cur.size)
    BY <1>1, <2>1, EntryLenType
  <2>3. state.rem \in Nat
    BY <1>1, Canonical
  <2> QED
    BY <1>1, <1>2, <2>1, <2>2, <2>3 DEF ItemOffset
<1>3. CASE state.tag \in {"ExpectingHeader", "ReceivingHeader", "ReceivedHeader",
                          "ReceivingEof", "ReceivedEof"}
  BY <1>1, <1>3 DEF ItemOffset, EofLen, GoodState
<1> QED
  BY <1>1, <1>2, <1>3 DEF GoodState, StateType, Tags

(* The finished entries lie one behind the other, below Base.              *)
LEMMA DoneFacts ==
  ASSUME TypeOK, DoneInv
  PROVE  /\ Len(done) \in Nat /\ Base \in Nat
         /\ \A k \in 1 .. Len(done) :
              /\ done[k].base \in Nat /\ EntryLen(done[k].hdr) \in Nat
              /\ EndOf(done[k]) = done[k].base + EntryLen(done[k].hdr)
              /\ EndOf(done[k]) <= Base
<1>1. /\ Len(done) \in Nat
      /\ done = <<>> \/ Len(done) \in 1 .. Len(done)
      /\ \A k \in 1 .. Len(done) :
           done[k] \in [hdr : Headers \cup {NoHeader}, head : Headers \cup {NoHeader},
                        base : Int]
  <2>1. done \in Seq([hdr : Headers \cup {NoHeader}, head : Headers \cup {NoHeader},
                      base : Int])
    BY DEF TypeOK, HistoryTypeOK
  <2>2. Len(done) \in Nat /\ (Len(done) = 0 => done = <<>>)
    BY <2>1, LenProperties, EmptySeq
  <2>3. \A k \in 1 .. Len(done) :
          done[k] \in [hdr : Headers \cup {NoHeader}, head : Headers \cup {NoHeader},
                       base : Int]
    BY <2>1, ElementOfSeq
  <2> QED
    BY <2>2, <2>3
<1>2. ASSUME NEW k \in 1 .. Len(done)
      PROVE  /\ done[k].base \in Nat /\ EntryLen(done[k].hdr) \in Nat
             /\ EndOf(done[k]) = done[k].base + EntryLen(done[k].hdr)
             /\ EndOf(done[k]) <= Base /\ EndOf(done[k]) \in Nat
  <2>1. done[k].hdr \in Header /\ done[k].hdr.size # BadSize
    BY <1>1, <1>2, BlockFacts DEF DoneInv
  <2> QED
    BY <1>2, <2>1, EntryLenType DEF DoneInv, EndOf
<1>3. Base \in Nat
  BY <1>1, <1>2 DEF Base
<1> QED
  BY <1>1, <1>2, <1>3

-----------------------------------------------------------------------------
(* OpenByte of the header `h' written and the entry `c'.                   *)
ByteOf(c, h, i) == IF c = NoHeader THEN ZeroByte ELSE EntryByteUnder(h, c, i)

(* The archive grows at its end: when bytes are appended that are the next *)
(* ones of the open item, and State moves over them, it is still right.    *)
LEMMA Extends ==
  ASSUME TypeOK, StateInv, DoneInv, ArchiveImage, poll # "gone", poll' # "gone",
         NEW s \in Seq(Byte), Image' = Image \o s, done' = done,
         ItemOffset(state', cur') = ItemOffset(state, cur) + Len(s),
         \A i \in 1 .. ItemOffset(state, cur) :
           ByteOf(cur', head', i) = ByteOf(cur, head, i),
         \A i \in 1 .. Len(s) :
           s[i] = ByteOf(cur', head', ItemOffset(state, cur) + i)
  PROVE  ArchiveImage' /\ DoneInv'
<1> DEFINE off == ItemOffset(state, cur)
           len == Len(Image)
<1>1. /\ off \in Nat /\ Len(s) \in Nat /\ len \in Nat /\ Base \in Nat
      /\ len = Base + off
  BY OffsetType, DoneFacts, UnsentType, LenProperties DEF ArchiveImage, Total
<1>2. /\ Len(Image') = len + Len(s)
      /\ \A i \in 1 .. len : Image'[i] = Image[i]
      /\ \A i \in len + 1 .. len + Len(s) : Image'[i] = s[i - len]
  BY UnsentType, ConcatProperties
<1>3. Base' = Base /\ \A k : EndOf(done[k])' = EndOf(done[k])
  BY DEF Base, EndOf
<1>4. DoneInv'
  BY <1>3 DEF DoneInv
<1>5. Len(Image') = Total'
  BY <1>1, <1>2, <1>3 DEF Total
<1>6. FinishedEntries'
  <2>1. ASSUME NEW k \in 1 .. Len(done), NEW i \in 1 .. EntryLen(done[k].hdr)
        PROVE  Image'[done[k].base + i]
                 = EntryByteUnder(done[k].head, done[k].hdr, i)
    <3>1. done[k].base + i \in 1 .. len
      <4>1. /\ done[k].base \in Nat /\ EntryLen(done[k].hdr) \in Nat
            /\ done[k].base + EntryLen(done[k].hdr) <= Base
        BY DoneFacts
      <4> HIDE DEF len
      <4> QED
        BY SMTT(30), <1>1, <4>1
    <3>2. Image[done[k].base + i] = EntryByteUnder(done[k].head, done[k].hdr, i)
      BY <3>1 DEF ArchiveImage, FinishedEntries, Holds
    <3> QED
      BY <1>2, <3>1, <3>2
  <2>2. \A k \in 1 .. Len(done) :
          done[k].base = IF k = 1 THEN 0 ELSE EndOf(done[k - 1])
    BY DEF ArchiveImage, FinishedEntries
  <2> HIDE DEF len
  <2> QED
    BY <2>1, <2>2 DEF FinishedEntries, Holds, EndOf
<1>7. OpenItem'
  <2>1. ASSUME NEW i \in 1 .. off + Len(s)
        PROVE  Image'[Base + i] = ByteOf(cur', head', i)
    <3>1. CASE i <= off
      <4>1. Base + i \in 1 .. len /\ i \in 1 .. off
        BY <1>1, <3>1
      <4>2. Image[Base + i] = ByteOf(cur, head, i)
        BY <4>1 DEF ArchiveImage, OpenItem, Holds, OpenByte, ByteOf
      <4> QED
        BY <1>2, <4>1, <4>2
    <3>2. CASE i > off
      <4>1. /\ i - off \in 1 .. Len(s) /\ off + (i - off) = i
            /\ Base + i \in len + 1 .. len + Len(s) /\ (Base + i) - len = i - off
        BY <1>1, <3>2
      <4>2. Image'[Base + i] = s[i - off]
        BY <1>2, <4>1
      <4>3. s[i - off] = ByteOf(cur', head', off + (i - off))
        BY <4>1
      <4> QED
        BY <4>1, <4>2, <4>3
    <3> QED
      BY <1>1, <3>1, <3>2
  <2> HIDE DEF off
  <2>2. ItemOffset(state', cur') = off + Len(s)
    BY DEF off
  <2> QED
    BY <1>3, <2>1, <2>2 DEF OpenItem, Holds, OpenByte, ByteOf
<1> QED
  BY <1>4, <1>5, <1>6, <1>7 DEF ArchiveImage

LEMMA Keeps ==
  ASSUME TypeOK, StateInv, DoneInv, ArchiveImage, poll # "gone", poll' # "gone",
         Image' = Image, done' = done,
         ItemOffset(state', cur') = ItemOffset(state, cur),
         \A i \in 1 .. ItemOffset(state, cur) :
           ByteOf(cur', head', i) = ByteOf(cur, head, i)
  PROVE  ArchiveImage' /\ DoneInv'
<1>1. PICK s \in Seq(Byte) : s = <<>>
  BY EmptySeq
<1>2. Len(s) = 0 /\ Image' = Image \o s
  BY <1>1, UnsentType, ConcatEmptySeq, EmptySeq
<1>3. ItemOffset(state', cur') = ItemOffset(state, cur) + Len(s)
  BY <1>2, OffsetType
<1>4. \A i \in 1 .. Len(s) : s[i] = ByteOf(cur', head', ItemOffset(state, cur) + i)
  BY <1>2
<1> QED
  BY <1>2, <1>3, <1>4, Extends

LEMMA ImageSame ==
  ASSUME TypeOK, StateInv, DoneInv, ArchiveImage, poll # "gone", poll' # "gone",
         Image' = Image, state' = state, cur' = cur, head' = head, done' = done
  PROVE  ArchiveImage' /\ DoneInv'
  BY Keeps

-----------------------------------------------------------------------------
(* The invariant through the ways a step ends.                             *)
LEMMA BusyFacts ==
  ASSUME TypeOK, CallInv, poll = "running"
  PROVE  /\ panic = "none" /\ Busy /\ poll # "gone"
         /\ entry = NoHeader <=> call.op \in {"add_entry", "finish"}
         /\ call.op = "add_entry" => call.hdr \in Headers /\ call.hdr # NoHeader
         /\ entry # NoHeader => told + call.taken <= entry.size
<1>1. NoHeader \notin Headers
  BY HeadersAssumption DEF HeaderType, NoHeader
<1> QED
  BY <1>1 DEF CallInv, Busy

LEMMA ControlInv ==
  ASSUME TypeOK, CallInv, poll = "running", state' = state \/ call.phase # "flush"
  PROVE  /\ Continue /\ UNCHANGED handle => CallInv'
         /\ Park /\ UNCHANGED handle => CallInv'
         /\ \A what : what # "none" /\ Panic(what) /\ UNCHANGED handle => CallInv'
         /\ \A res, n :
              /\ Return(res, n) /\ told' \in Nat
              /\ entry' # NoHeader => told' <= entry'.size
              => CallInv'
<1> USE DEF handle
<1>1. /\ panic = "none" /\ Busy /\ call.taken \in Nat /\ told \in Nat
      /\ entry # NoHeader => told + call.taken <= entry.size
      /\ entry = NoHeader <=> call.op \in {"add_entry", "finish"}
      /\ call.op = "add_entry" => call.hdr \in Headers
      /\ entry \in Header /\ call \in CallType
      /\ call.phase = "flush" => call.op = "finish_entry" /\ state = ExpectingHeader
  BY BusyFacts, CallFacts DEF CallInv
<1>2. Continue /\ UNCHANGED handle => CallInv'
  BY <1>1 DEF Continue, control, CallInv, Busy
<1>3. ASSUME Park, UNCHANGED handle PROVE CallInv'
  <2>1. /\ poll' = "parked" /\ panic' = panic
        /\ call'.op = call.op /\ call'.hdr = call.hdr
        /\ call'.phase = "body" /\ call'.taken = 0
    BY <1>1, <1>3 DEF Park, CallType
  <2>2. entry # NoHeader => told + 0 <= entry.size
    <3>1. entry.size \in Int
      BY <1>1, HeaderFields DEF BadSize
    <3> QED
      BY <1>1, <3>1
  <2> QED
    BY <1>1, <1>3, <2>1, <2>2 DEF CallInv, Busy
<1>4. ASSUME NEW what, what # "none", Panic(what), UNCHANGED handle PROVE CallInv'
  BY <1>1, <1>4 DEF Panic, CallInv, Busy
<1>5. ASSUME NEW res, NEW n, Return(res, n),
             entry' # NoHeader => told' <= entry'.size, told' \in Nat
      PROVE  CallInv'
  <2>1. /\ poll' = "idle" /\ panic' = "none" /\ call' = NoCall
        /\ call'.op = "none" /\ call'.phase = "body" /\ call'.taken = 0
    BY <1>1, <1>5 DEF Return, NoCall, Call
  <2>2. entry' # NoHeader => told' + 0 <= entry'.size
    BY <1>5
  <2> QED
    BY <2>1, <2>2 DEF CallInv, Busy
<1> QED
  BY <1>2, <1>3, <1>4, <1>5

(* State and the history stay; nobody goes on with a half written header.  *)
LEMMA StateSame ==
  ASSUME TypeOK, StateInv,
         state' = state, cur' = cur, head' = head, done' = done, entry' = entry,
         told' = told \/ state.tag # "ReceivingData",
         \/ panic' # "none" /\ data' = data
         \/ /\ state.tag = "ReceivingHeader" => state.rem = BlockSize
            /\ state.tag \in {"ReceivingHeader", "ReceivingEof"} => cur = NoHeader
            /\ state.tag = "ReceivedHeader" => cur.size = BadSize
  PROVE  StateInv'
<1>1. BetweenEntries'
  BY DEF StateInv, BetweenEntries, Behind
<1>2. InHeader'
  BY BlockFacts DEF StateInv, InHeader, Opening
<1>3. AtHeader'
  BY DEF StateInv, AtHeader, Opening
<1>4. InData'
  BY DEF StateInv, InData, Behind
<1>5. InEnd'
  <2>1. state = ReceivingEof(BlockSize) => state.tag = "ReceivingEof"
    BY DEF ReceivingEof, St
  <2> QED
    BY <2>1 DEF StateInv, InEnd, Opening
<1> QED
  BY <1>1, <1>2, <1>3, <1>4, <1>5 DEF StateInv

(* What StateSame asks for when no add_entry or finish is running.         *)
LEMMA NothingHalfWritten ==
  ASSUME TypeOK, CallInv, StateInv, panic = "none",
         \/ poll # "running"
         \/ call.op \notin {"add_entry", "finish"}
  PROVE  /\ state.tag = "ReceivingHeader" => state.rem = BlockSize
         /\ state.tag \in {"ReceivingHeader", "ReceivingEof"} => cur = NoHeader
         /\ state.tag = "ReceivedHeader" => cur.size = BadSize
<1>1. GoodState(state) /\ BlockSize \in Nat
  BY CallFacts, BlockFacts
<1>2. CASE poll # "running"
  BY <1>1, <1>2 DEF StateInv, InHeader, AtHeader, InEnd, Opening, Running, GoodState
<1>3. CASE poll = "running" /\ call.op \notin {"add_entry", "finish"}
  <2>1. entry # NoHeader
    BY <1>3, BusyFacts
  <2> QED
    BY <2>1 DEF StateInv, InHeader, AtHeader, InEnd
<1> QED
  BY <1>2, <1>3

(* A panic changes nothing but the call.                                   *)
LEMMA PanicInv ==
  ASSUME IInv, poll = "running", NEW what, what # "none", Panic(what),
         UNCHANGED <<archive, out, handle, history>>
  PROVE  CallInv' /\ StateInv' /\ DoneInv' /\ ArchiveImage'
<1> USE DEF archive, handle, history
<1>1. TypeOK /\ CallInv /\ StateInv /\ DoneInv /\ ArchiveImage
  BY DEF IInv
<1>2. CallInv'
  BY <1>1, ControlInv
<1>3. StateInv'
  BY <1>1, StateSame DEF Panic
<1>4. Image' = Image /\ poll # "gone" /\ poll' # "gone"
  BY DEF Image, Unsent, Panic
<1>5. DoneInv' /\ ArchiveImage'
  BY <1>1, <1>4, ImageSame
<1> QED
  BY <1>2, <1>3, <1>5

(* A poll that leaves before it wrote anything: Pending, or an error.      *)
LEMMA LeaveInv ==
  ASSUME IInv, poll = "running", NEW res, Leave(res),
         Image' = Image, state' = state, UNCHANGED <<handle, history>>,
         state.tag = "ReceivingHeader" => state.rem = BlockSize,
         state.tag \in {"ReceivingHeader", "ReceivingEof"} => cur = NoHeader,
         state.tag # "ReceivedHeader"
  PROVE  CallInv' /\ StateInv' /\ DoneInv' /\ ArchiveImage'
<1> USE DEF handle, history
<1>1. TypeOK /\ CallInv /\ StateInv /\ DoneInv /\ ArchiveImage
  BY DEF IInv
<1>2. Park \/ Return(res, 0)
  BY DEF Leave
<1>3. entry # NoHeader => told <= entry.size
  <2>1. told \in Nat /\ call.taken \in Nat /\ entry.size \in Int
    BY <1>1, CallFacts, HeaderFields DEF BadSize
  <2> QED
    BY <1>1, <2>1 DEF CallInv
<1>4. CallInv'
  BY <1>1, <1>2, <1>3, CallFacts, ControlInv
<1>5. StateInv'
  BY <1>1, StateSame
<1>6. poll # "gone" /\ poll' # "gone"
  BY <1>2 DEF Park, Return
<1>7. DoneInv' /\ ArchiveImage'
  BY <1>1, <1>6, ImageSame
<1> QED
  BY <1>4, <1>5, <1>7

-----------------------------------------------------------------------------
(* A write that takes a part only was passed through, and then nothing is  *)
(* left in the buffer that could hold up the rest.                         *)
LEMMA ShortWrite ==
  ASSUME TypeOK, NEW b \in Seq(Byte), NEW whole, NEW n, n # Len(b),
         Len(b) <= BlockSize, n \in Counts(b, whole), Send(b, n)
  PROVE  data' = <<>> /\ Len(b) = BlockSize /\ Vectored
<1>1. Len(b) \in Nat /\ BlockSize \in Nat /\ Capacity \in Nat /\ Capacity >= BlockSize
  BY LenProperties, BlockFacts
<1>2. Direct(b)
  BY <1>1 DEF Counts
<1> QED
  BY <1>1, <1>2 DEF Direct, Send

(* Less than a block finds room in an empty buffer and cannot be held up.  *)
LEMMA NothingStalls ==
  ASSUME TypeOK, NEW b \in Seq(Byte), NEW res, Len(b) < BlockSize, Len(data) = 0
  PROVE  ~ PollWriteFails(b, res)
<1>1. Len(b) \in Nat /\ BlockSize \in Nat /\ Capacity \in Nat /\ Capacity >= BlockSize
  BY LenProperties, BlockFacts
<1>2. ~ Direct(b) /\ ~ NeedsFlush(b)
  BY <1>1 DEF Direct, NeedsFlush
<1> QED
  BY <1>2 DEF PollWriteFails

(* The header that is running, from where it stands.                       *)
LEMMA HeaderOutgoing ==
  ASSUME IInv, WritesHeader
  PROVE  /\ call.hdr \in Header /\ call.hdr # NoHeader /\ entry = NoHeader
         /\ Outgoing \in Seq(Byte)
         /\ Len(Outgoing) = BlockSize - ItemOffset(state, cur)
         /\ ItemOffset(state, cur) \in 0 .. BlockSize
         /\ \A i \in 1 .. Len(Outgoing) :
              Outgoing[i] = HeaderByte(call.hdr, ItemOffset(state, cur) + i)
         /\ \/ /\ state = ExpectingHeader /\ ItemOffset(state, cur) = 0
               /\ cur = NoHeader /\ head = NoHeader
            \/ /\ state = ReceivingHeader(state.rem, FALSE)
               /\ state.rem \in 1 .. BlockSize - 1
               /\ ItemOffset(state, cur) = BlockSize - state.rem
               /\ cur = call.hdr /\ head = call.hdr /\ Len(data) = 0
<1> DEFINE at == ItemOffset(state, cur)
<1>1. /\ TypeOK /\ CallInv /\ StateInv /\ poll = "running" /\ call.op = "add_entry"
      /\ GoodState(state) /\ BlockSize \in Nat /\ BlockSize > 0
  BY CallFacts, BlockFacts DEF IInv, WritesHeader, Running
<1>2. /\ call.hdr \in Header /\ call.hdr # NoHeader /\ entry = NoHeader
      /\ panic = "none"
  BY <1>1, BusyFacts, CallFacts
<1>3. \/ /\ state = ExpectingHeader /\ at = 0
         /\ cur = NoHeader /\ head = NoHeader
      \/ /\ state = ReceivingHeader(state.rem, FALSE)
         /\ state.rem \in 1 .. BlockSize - 1 /\ at = BlockSize - state.rem
         /\ cur = call.hdr /\ head = call.hdr /\ Len(data) = 0
  <2>1. CASE state.tag = "ExpectingHeader"
    BY <1>1, <2>1, Canonical, Offsets DEF StateInv, BetweenEntries
  <2>2. CASE state.tag = "ReceivingHeader" /\ ~ state.empty
    <3>1. cur = call.hdr /\ head = call.hdr /\ Len(data) = 0 /\ state.rem < BlockSize
      BY <1>1, <1>2, <2>2 DEF StateInv, InHeader, Opening
    <3>2. state = ReceivingHeader(state.rem, FALSE) /\ state.rem \in 1 .. BlockSize
      BY <1>1, <2>2, Canonical DEF GoodState
    <3>3. state.rem \in 1 .. BlockSize - 1
      BY <1>1, <3>1, <3>2
    <3> QED
      BY ZenonT(30), <3>1, <3>2, <3>3, Offsets
  <2> QED
    BY <2>1, <2>2 DEF WritesHeader
<1>4. at \in 0 .. BlockSize
  <2>1. at = 0 \/ (at = BlockSize - state.rem /\ state.rem \in 1 .. BlockSize - 1)
    BY <1>3
  <2> HIDE DEF at
  <2> QED
    BY <1>1, <2>1
<1>5. Outgoing = SubSeq(HeaderBytes(call.hdr), at + 1, BlockSize)
  <2>1. at = IF state.tag = "ExpectingHeader" THEN 0 ELSE BlockSize - state.rem
    BY <1>3 DEF ExpectingHeader, ReceivingHeader, St
  <2> QED
    BY <1>1, <2>1 DEF Outgoing
<1> DEFINE h == HeaderBytes(call.hdr)
<1>6. \A i \in 1 .. BlockSize : h[i] \in Byte /\ h[i] = HeaderByte(call.hdr, i)
  BY <1>1, <1>2, HeaderBytesType, ByteTypes
<1> HIDE DEF h, at
<1>7. /\ SubSeq(h, at + 1, BlockSize) \in Seq(Byte)
      /\ Len(SubSeq(h, at + 1, BlockSize)) = BlockSize - at
      /\ \A i \in 1 .. BlockSize - at : SubSeq(h, at + 1, BlockSize)[i] = h[at + i]
  <2>1. at + 1 \in Int /\ BlockSize \in Int /\ \A i \in at + 1 .. BlockSize : h[i] \in Byte
    BY <1>1, <1>4, <1>6
  <2>2. /\ SubSeq(h, at + 1, BlockSize) \in Seq(Byte)
        /\ Len(SubSeq(h, at + 1, BlockSize)) =
             (IF at + 1 <= BlockSize THEN BlockSize - (at + 1) + 1 ELSE 0)
        /\ \A i \in 1 .. BlockSize - (at + 1) + 1 :
             SubSeq(h, at + 1, BlockSize)[i] = h[(at + 1) + i - 1]
    BY <2>1, SubSeqProperties
  <2>3. ASSUME NEW i \in 1 .. BlockSize - at
        PROVE  SubSeq(h, at + 1, BlockSize)[i] = h[at + i]
    <3>1. (at + 1) + i - 1 = at + i /\ i \in 1 .. BlockSize - (at + 1) + 1
      BY <1>1, <1>4
    <3> QED
      BY <2>2, <3>1
  <2> QED
    BY <1>1, <1>4, <2>2, <2>3
<1>8. /\ Outgoing \in Seq(Byte) /\ Len(Outgoing) = BlockSize - at
      /\ \A i \in 1 .. Len(Outgoing) : Outgoing[i] = HeaderByte(call.hdr, at + i)
  <2>1. Outgoing = SubSeq(h, at + 1, BlockSize)
    BY <1>5 DEF h
  <2>2. \A i \in 1 .. BlockSize - at : at + i \in 1 .. BlockSize
    BY <1>1, <1>4
  <2> QED
    BY <1>6, <1>7, <2>1, <2>2
<1> QED
  BY <1>2, <1>3, <1>4, <1>8 DEF at

(* One write of the header: where the bytes go, and State.                 *)
LEMMA HeaderWriteState ==
  ASSUME IInv, WritesHeader, NEW n,
         PollWriteVectored(Outgoing, Len(Outgoing), call.hdr, n)
  PROVE  /\ n \in 0 .. Len(Outgoing) /\ Image' = Image \o SubSeq(Outgoing, 1, n)
         /\ SubSeq(Outgoing, 1, n) \in Seq(Byte)
         /\ Len(SubSeq(Outgoing, 1, n)) = n
         /\ \A i \in 1 .. n :
              SubSeq(Outgoing, 1, n)[i] = HeaderByte(call.hdr, ItemOffset(state, cur) + i)
         /\ n # Len(Outgoing) =>
              data' = <<>> /\ Len(Outgoing) = BlockSize /\ Vectored
         /\ \E rem \in 0 .. BlockSize, z \in BOOLEAN :
              /\ state' = AfterHeaderBytes(rem, z)
              /\ ItemOffset(state, cur) + n = BlockSize - rem
              /\ z => AllZero(SubSeq(Outgoing, 1, n))
              /\ n = 0 => rem = BlockSize /\ z
              /\ rem = 0 /\ z => ItemOffset(state, cur) = 0 /\ n = BlockSize
              /\ rem > 0 => rem = BlockSize - n /\ n # Len(Outgoing)
<1>1. /\ TypeOK /\ WritesHeader /\ BlockSize \in Nat /\ BlockSize > 0
  BY BlockFacts DEF IInv
<1>2. PollWriteVectored(Outgoing, Len(Outgoing), call.hdr, n)
  OBVIOUS
<1> DEFINE b    == Outgoing
           off  == ItemOffset(state, cur)
           sent == SubSeq(b, 1, n)
<1>3. /\ call.hdr \in Header /\ call.hdr # NoHeader /\ entry = NoHeader
      /\ b \in Seq(Byte) /\ Len(b) = BlockSize - off /\ off \in 0 .. BlockSize
      /\ \A i \in 1 .. Len(b) : b[i] = HeaderByte(call.hdr, off + i)
      /\ \/ /\ state = ExpectingHeader /\ off = 0
            /\ cur = NoHeader /\ head = NoHeader
         \/ /\ state = ReceivingHeader(state.rem, FALSE)
            /\ state.rem \in 1 .. BlockSize - 1 /\ off = BlockSize - state.rem
            /\ cur = call.hdr /\ head = call.hdr
  BY <1>1, HeaderOutgoing
<1>4. /\ n \in 0 .. Len(b) /\ Image' = Image \o sent
      /\ state' = TakeSlices(state, sent, call.hdr).state
  BY <1>1, <1>2, <1>3, OutgoingFits, WriteFacts DEF Writes
<1>5. /\ sent \in Seq(Byte) /\ Len(sent) = n
      /\ \A i \in 1 .. n : sent[i] = HeaderByte(call.hdr, off + i)
  <2>1. /\ sent \in Seq(Byte) /\ Len(sent) = n
        /\ \A i \in 1 .. n : sent[i] = b[i]
    BY <1>3, <1>4, PrefixType
  <2>2. \A i \in 1 .. n : i \in 1 .. Len(b)
    BY <1>3, <1>4
  <2> QED
    BY <1>3, <2>1, <2>2
<1>6. n # Len(b) => data' = <<>> /\ Len(b) = BlockSize /\ Vectored
  <2>1. n \in Counts(b, Len(b)) /\ Send(b, n) /\ Len(b) <= BlockSize
    BY <1>1, <1>2, <1>3 DEF PollWriteVectored
  <2> QED
    BY <1>1, <1>3, <2>1, ShortWrite
<1>7. \E rem \in 0 .. BlockSize, z \in BOOLEAN :
        /\ state' = AfterHeaderBytes(rem, z) /\ off + n = BlockSize - rem
        /\ z => AllZero(sent)
        /\ n = 0 => rem = BlockSize /\ z
        /\ rem = 0 /\ z => off = 0 /\ n = BlockSize
        /\ rem > 0 => rem = BlockSize - n /\ n # Len(b)
  <2>1. CASE state = ExpectingHeader /\ off = 0
    <3>1. PICK z \in BOOLEAN : z <=> AllZero(sent)
      OBVIOUS
    <3>2. Len(sent) <= BlockSize /\ n = Len(sent)
      <4> HIDE DEF sent, off, b
      <4> QED
        BY <1>1, <1>3, <1>4, <1>5, <2>1
    <3>3. TakeSlices(state, sent, call.hdr)
            = Result(AfterHeaderBytes(BlockSize - n, z), n)
      BY <1>3, <1>5, <2>1, <3>1, <3>2, TakeFirstBytes
    <3>4. n = 0 => z = TRUE
      BY <1>5, <3>1 DEF AllZero
    <3> HIDE DEF sent
    <3>5. state' = AfterHeaderBytes(BlockSize - n, z)
      BY <1>4, <3>3 DEF Result
    <3> QED
      BY <1>1, <1>3, <1>4, <2>1, <3>1, <3>4, <3>5
  <2>2. CASE /\ state = ReceivingHeader(state.rem, FALSE)
             /\ state.rem \in 1 .. BlockSize - 1 /\ off = BlockSize - state.rem
    <3>1. n = Len(b) /\ n = state.rem
      BY <1>1, <1>3, <1>4, <1>6, <2>2
    <3>2. Len(sent) <= state.rem /\ n = Len(sent) /\ state.rem \in Nat
      BY <1>1, <1>5, <2>2, <3>1
    <3>3. TakeSlices(state, sent, call.hdr)
            = Result(AfterHeaderBytes(state.rem - n, FALSE), n)
      BY ZenonT(30), <1>3, <1>5, <2>2, <3>2, TakeHeaderBytes
    <3> HIDE DEF sent
    <3>4. state' = AfterHeaderBytes(0, FALSE)
      <4>1. state.rem - n = 0
        BY <1>1, <2>2, <3>1
      <4>2. AfterHeaderBytes(state.rem - n, FALSE) = AfterHeaderBytes(0, FALSE)
        BY <4>1, Zenon
      <4>3. TakeSlices(state, sent, call.hdr).state = AfterHeaderBytes(state.rem - n, FALSE)
        BY <3>3 DEF Result
      <4>4. state' = TakeSlices(state, sent, call.hdr).state
        BY <1>4
      <4> QED
        BY <4>2, <4>3, <4>4, Zenon
    <3>5. off + n = BlockSize - 0 /\ n # 0
      BY <1>1, <2>2, <3>1
    <3>6. 0 \in 0 .. BlockSize /\ FALSE \in BOOLEAN /\ ~ (0 > 0)
      BY <1>1
    <3> HIDE DEF off, b
    <3> QED
      BY <3>4, <3>5, <3>6, Zenon
  <2> QED
    BY <1>3, <2>1, <2>2
<1> HIDE DEF b, off, sent
<1> QED
  BY <1>4, <1>5, <1>6, <1>7 DEF b, off, sent

LEMMA HeaderWriteInv ==
  ASSUME IInv, HeaderWrite
  PROVE  CallInv' /\ StateInv' /\ DoneInv' /\ ArchiveImage'
<1>1. /\ TypeOK /\ CallInv /\ StateInv /\ DoneInv /\ ArchiveImage
      /\ WritesHeader /\ poll = "running" /\ call.op = "add_entry"
      /\ call.phase = "body" /\ panic = "none" /\ poll # "gone"
      /\ BlockSize \in Nat /\ BlockSize > 0
  BY BusyFacts, BlockFacts DEF IInv, HeaderWrite, WritesHeader, Running
<1>2. PICK n \in 0 .. BlockSize :
        /\ PollWriteVectored(Outgoing, Len(Outgoing), call.hdr, n)
        /\ IF n = 0 THEN Return("writezero", 0) ELSE Continue
        /\ IF n = 0 THEN UNCHANGED <<cur, head>>
           ELSE cur' = call.hdr /\ head' = call.hdr
  BY DEF HeaderWrite
<1> DEFINE b    == Outgoing
           off  == ItemOffset(state, cur)
           sent == SubSeq(b, 1, n)
<1>3. /\ call.hdr \in Header /\ call.hdr # NoHeader /\ entry = NoHeader
      /\ b \in Seq(Byte) /\ Len(b) = BlockSize - off /\ off \in 0 .. BlockSize
      /\ \/ /\ state = ExpectingHeader /\ off = 0
            /\ cur = NoHeader /\ head = NoHeader
         \/ /\ state = ReceivingHeader(state.rem, FALSE)
            /\ state.rem \in 1 .. BlockSize - 1 /\ off = BlockSize - state.rem
            /\ cur = call.hdr /\ head = call.hdr
  BY <1>1, HeaderOutgoing
<1>4. /\ n \in 0 .. Len(b) /\ Image' = Image \o sent
      /\ sent \in Seq(Byte) /\ Len(sent) = n
      /\ \A i \in 1 .. n : sent[i] = HeaderByte(call.hdr, off + i)
      /\ n # Len(b) => data' = <<>> /\ Len(b) = BlockSize
      /\ \E rem \in 0 .. BlockSize, z \in BOOLEAN :
           /\ state' = AfterHeaderBytes(rem, z) /\ off + n = BlockSize - rem
           /\ z => AllZero(sent)
           /\ n = 0 => rem = BlockSize /\ z
           /\ rem = 0 /\ z => off = 0 /\ n = BlockSize
           /\ rem > 0 => rem = BlockSize - n /\ n # Len(b)
  BY <1>1, <1>2, HeaderWriteState
<1>5. /\ sent \in Seq(Byte) /\ Len(sent) = n
      /\ \A i \in 1 .. n : sent[i] = HeaderByte(call.hdr, off + i)
  BY <1>4
<1>6. n # Len(b) => data' = <<>> /\ Len(b) = BlockSize
  BY <1>4
<1>7. done' = done /\ entry' = NoHeader /\ told' = told
  BY <1>3 DEF HeaderWrite, handle
<1>8. CallInv' /\ poll' # "gone" /\ panic' = "none"
  <2>1. UNCHANGED handle /\ told' \in Nat
    BY <1>1, CallFacts DEF HeaderWrite, handle
  <2>2. CallInv'
    BY <1>1, <1>2, <1>7, <2>1, ControlInv
  <2> QED
    BY <1>1, <1>2, <2>2 DEF Return, Continue, control
<1>9. PICK rem \in 0 .. BlockSize, z \in BOOLEAN :
        /\ state' = AfterHeaderBytes(rem, z) /\ off + n = BlockSize - rem
        /\ z => AllZero(sent)
        /\ n = 0 => rem = BlockSize /\ z
        /\ rem = 0 /\ z => off = 0 /\ n = BlockSize
        /\ rem > 0 => rem = BlockSize - n /\ n # Len(b)
  BY <1>4
<1>10. CASE n = 0
  <2>1. cur' = cur /\ head' = head /\ state' = ReceivingHeader(BlockSize, TRUE) /\ off = 0
    BY <1>1, <1>2, <1>3, <1>9, <1>10 DEF AfterHeaderBytes
  <2>2. cur = NoHeader /\ head = NoHeader
    <3> HIDE DEF off, b
    <3>1. ~ (state.rem \in 1 .. BlockSize - 1 /\ off = BlockSize - state.rem)
      BY <1>1, <2>1
    <3> QED
      BY <1>3, <3>1
  <2>3. StateInv'
    BY <1>1, <1>7, <2>1, <2>2
       DEF StateInv, BetweenEntries, InHeader, AtHeader, InData, InEnd,
           ReceivingHeader, St
  <2>4. ItemOffset(state', cur') = off + Len(sent)
    <3>1. ItemOffset(state', cur') = BlockSize - BlockSize
      BY ZenonT(30), <2>1, Offsets
    <3>2. BlockSize - BlockSize = 0 /\ Len(sent) = 0 /\ off = 0 /\ 0 + 0 = 0
      BY <1>1, <1>5, <1>10, <2>1
    <3> HIDE DEF off, b, sent
    <3> QED
      BY <3>1, <3>2
  <2>5. \A i \in 1 .. Len(sent) : sent[i] = ByteOf(cur', head', off + i)
    BY <1>5, <1>10
  <2> HIDE DEF sent
  <2>6. DoneInv' /\ ArchiveImage'
    BY <1>1, <1>4, <1>5, <1>7, <1>8, <2>1, <2>4, <2>5, Extends
  <2> QED
    BY <1>8, <2>3, <2>6
<1>11. CASE n # 0
  <2>1. cur' = call.hdr /\ head' = call.hdr /\ UNCHANGED control
    BY <1>2, <1>11 DEF Continue
  <2>2. Opening'
    BY <1>1, <2>1 DEF Opening, Running, control
  <2>3. StateInv'
    <3>1. CASE rem > 0
      <4>1. /\ state'.tag = "ReceivingHeader" /\ state'.rem = rem /\ rem < BlockSize
            /\ Len(data') = 0
        BY <1>1, <1>4, <1>6, <1>9, <1>11, <3>1, EmptySeq
           DEF AfterHeaderBytes, ReceivingHeader, St
      <4> QED
        BY <1>1, <1>3, <1>7, <2>1, <2>2, <4>1
           DEF StateInv, BetweenEntries, InHeader, AtHeader, InData, InEnd, control
    <3>2. CASE rem = 0 /\ z
      <4>1. state' = ReceivingEof(BlockSize) /\ state'.tag = "ReceivingEof"
        BY <1>9, <3>2 DEF AfterHeaderBytes, ReceivingEof, St
      <4>2. call.hdr.lead = BlockSize
        <5>1. sent[BlockSize] = ZeroByte /\ sent[BlockSize] = HeaderByte(call.hdr, BlockSize)
          <6>1. BlockSize \in 1 .. n /\ off = 0 /\ AllZero(sent) /\ off + BlockSize = BlockSize
            BY <1>1, <1>9, <3>2
          <6> QED
            BY <1>5, <6>1 DEF AllZero
        <5>2. <<"hdr", call.hdr.id, BlockSize>> # ZeroByte
          BY DEF ZeroByte
        <5>3. BlockSize <= call.hdr.lead
          BY <5>1, <5>2 DEF HeaderByte
        <5>4. call.hdr.lead \in 0 .. BlockSize
          BY <1>3, HeaderFields
        <5> QED
          BY <1>1, <5>3, <5>4
      <4> QED
        BY <1>7, <2>1, <2>2, <4>1, <4>2
           DEF StateInv, BetweenEntries, InHeader, AtHeader, InData, InEnd
    <3>3. CASE rem = 0 /\ ~ z
      <4>1. state'.tag = "ReceivedHeader"
        BY <1>9, <3>3 DEF AfterHeaderBytes, ReceivedHeader, St
      <4> QED
        BY <1>3, <1>7, <2>1, <2>2, <4>1
           DEF StateInv, BetweenEntries, InHeader, AtHeader, InData, InEnd
    <3> QED
      BY <1>1, <3>1, <3>2, <3>3
  <2>4. ItemOffset(state', cur') = off + Len(sent)
    BY <1>5, <1>9, OffsetAfterHeaderBytes
  <2>5. \A i \in 1 .. BlockSize : ByteOf(cur', head', i) = HeaderByte(call.hdr, i)
    BY <1>3, <2>1 DEF ByteOf, EntryByteUnder
  <2>6. ASSUME NEW i \in 1 .. Len(sent)
        PROVE  sent[i] = ByteOf(cur', head', off + i)
    <3>1. off + i \in 1 .. BlockSize /\ i \in 1 .. n
      BY <1>1, <1>3, <1>4, <1>5
    <3> QED
      BY <1>5, <2>5, <3>1
  <2>7. ASSUME NEW i \in 1 .. off
        PROVE  ByteOf(cur', head', i) = ByteOf(cur, head, i)
    <3>1. off = 0 \/ (cur = call.hdr /\ head = call.hdr)
      BY <1>3
    <3> QED
      BY <1>3, <2>1, <3>1
  <2> HIDE DEF sent
  <2>8. DoneInv' /\ ArchiveImage'
    BY <1>1, <1>4, <1>5, <1>7, <1>8, <2>4, <2>6, <2>7, Extends
  <2> QED
    BY <1>8, <2>3, <2>8
<1> QED
  BY <1>10, <1>11

LEMMA HeaderOpensInv ==
  ASSUME IInv, HeaderOpensEntry
  PROVE  CallInv' /\ StateInv' /\ DoneInv' /\ ArchiveImage'
<1> DEFINE r == TarNext(state, <<>>, call.hdr)
<1>1. /\ TypeOK /\ CallInv /\ StateInv /\ DoneInv /\ ArchiveImage
      /\ poll = "running" /\ call.op = "add_entry" /\ call.phase = "body"
      /\ state = ReceivedHeader /\ state.tag = "ReceivedHeader"
      /\ panic = "none" /\ poll # "gone" /\ BlockSize \in Nat /\ BlockSize > 0
      /\ call.hdr \in Header /\ call.hdr # NoHeader
      /\ call.hdr.size \in Nat \cup {BadSize}
  BY BusyFacts, BlockFacts, CallFacts, HeaderFields
     DEF IInv, HeaderOpensEntry, Running, ReceivedHeader, St
<1>2. /\ entry = NoHeader /\ cur # NoHeader /\ head = cur
      /\ cur = call.hdr \/ cur.size = BadSize
  BY <1>1 DEF StateInv, AtHeader, Opening
<1>3. r = IF call.hdr.size = BadSize THEN Failure(state, "BadSize")
          ELSE Result(ReceivingData(call.hdr.size), 0)
  BY <1>1 DEF TarNext, NextOfEntry
<1>4. Image' = Image /\ done' = done /\ head' = head /\ data' = data
  BY DEF HeaderOpensEntry, Image, Unsent
<1>5. CASE call.hdr.size = BadSize
  <2>1. r.err # "none"
    BY <1>3, <1>5 DEF Failure
  <2>2. Return("badheader", 0) /\ UNCHANGED <<state, handle, cur>>
    BY <2>1 DEF HeaderOpensEntry
  <2>3. entry' = NoHeader /\ told' = told /\ told' \in Nat
    BY <1>1, <1>2, <2>2, CallFacts DEF handle
  <2>4. CallInv'
    BY <1>1, <2>2, <2>3, ControlInv
  <2>5. cur.size = BadSize
    BY <1>2, <1>5
  <2>6. StateInv'
    BY <1>1, <1>2, <1>4, <2>2, <2>3, <2>5, StateSame
  <2>7. DoneInv' /\ ArchiveImage'
    BY <1>1, <1>4, <2>2, ImageSame DEF Return
  <2> QED
    BY <2>4, <2>6, <2>7
<1>6. CASE call.hdr.size # BadSize
  <2> DEFINE h == call.hdr
  <2>1. r.err = "none" /\ r.state = ReceivingData(h.size) /\ h.size \in Nat
    BY <1>1, <1>3, <1>6 DEF Result
  <2>2. /\ state' = ReceivingData(h.size) /\ cur' = h
        /\ \/ Return("ok", 0) /\ entry' = h /\ told' = 0
           \/ Return("badheader", 0) /\ UNCHANGED handle
           \/ Panic("header") /\ UNCHANGED handle
    BY <2>1 DEF HeaderOpensEntry
  <2>3. state'.tag = "ReceivingData" /\ state'.rem = h.size
    BY <2>2 DEF ReceivingData, St
  <2>4. entry' = NoHeader \/ (entry' = h /\ told' = 0)
    BY <1>2, <2>2 DEF handle
  <2>5. CallInv'
    <3>1. told' \in Nat
      BY <1>1, <2>2, CallFacts DEF handle
    <3>2. entry' # NoHeader => told' <= entry'.size
      BY <2>1, <2>4
    <3> QED
      BY <1>1, <2>2, <3>1, <3>2, ControlInv
  <2>6. StateInv'
    <3>1. Behind(cur', cur', head')
      BY <1>2, <1>4, <2>2 DEF Behind
    <3>2. h.size <= h.size /\ 0 = h.size - h.size
      BY <2>1
    <3> QED
      BY <1>1, <1>6, <2>2, <2>3, <2>4, <3>1, <3>2
         DEF StateInv, BetweenEntries, InHeader, AtHeader, InData, InEnd
  <2>7. ItemOffset(state, cur) = BlockSize /\ ItemOffset(state', cur') = BlockSize
    <3>1. ItemOffset(state', cur') = BlockSize + h.size - h.size
      BY <2>2, Offsets
    <3>2. BlockSize + h.size - h.size = BlockSize
      BY <1>1, <2>1
    <3> QED
      BY <1>1, <3>1, <3>2, Offsets
  <2>8. \A i \in 1 .. ItemOffset(state, cur) :
          ByteOf(cur', head', i) = ByteOf(cur, head, i)
    BY <1>1, <1>2, <1>4, <2>2, <2>7 DEF ByteOf, EntryByteUnder
  <2>9. poll' # "gone"
    BY <1>1, <2>2 DEF Return, Panic
  <2>10. DoneInv' /\ ArchiveImage'
    BY <1>1, <1>4, <2>7, <2>8, <2>9, Keeps
  <2> QED
    BY <2>5, <2>6, <2>10
<1> QED
  BY <1>5, <1>6

LEMMA AddEntryInv ==
  ASSUME IInv, AddEntryStep
  PROVE  CallInv' /\ StateInv' /\ DoneInv' /\ ArchiveImage'
<1>1. CASE HeaderWrite
  BY <1>1, HeaderWriteInv
<1>2. CASE HeaderStalls
  <2>1. PICK res \in IoFaults : PollWriteFails(Outgoing, res) /\ Leave(res)
    BY <1>2 DEF HeaderStalls
  <2>2. TypeOK /\ WritesHeader /\ poll = "running" /\ BlockSize \in Nat
    BY <1>2, BlockFacts DEF IInv, HeaderStalls, WritesHeader, Running
  <2>3. Outgoing \in Seq(Byte) /\ state = ExpectingHeader
    <3>1. ASSUME state.rem \in 1 .. BlockSize - 1,
                 ItemOffset(state, cur) = BlockSize - state.rem, Len(data) = 0
          PROVE  FALSE
      <4>1. Outgoing \in Seq(Byte) /\ Len(Outgoing) = BlockSize - ItemOffset(state, cur)
        BY <2>2, HeaderOutgoing
      <4>2. Len(Outgoing) < BlockSize
        BY <2>2, <3>1, <4>1
      <4> QED
        BY <2>1, <2>2, <3>1, <4>1, <4>2, NothingStalls
    <3> QED
      BY <2>2, <3>1, HeaderOutgoing
  <2>4. state.tag = "ExpectingHeader" /\ Image' = Image /\ state' = state
    BY <2>1, <2>2, <2>3, WriteFailsFacts DEF ExpectingHeader, St
  <2>5. UNCHANGED <<handle, history>>
    BY <1>2 DEF HeaderStalls
  <2> QED
    BY <2>1, <2>2, <2>4, <2>5, LeaveInv
<1>3. CASE HeaderOpensEntry
  BY <1>3, HeaderOpensInv
<1>4. CASE HeaderOverlaps
  <2>1. /\ TypeOK /\ CallInv /\ StateInv /\ DoneInv /\ ArchiveImage
        /\ poll = "running" /\ Return("overlap", 0)
        /\ state' = state /\ Image' = Image /\ UNCHANGED <<handle, history>>
        /\ state.tag \notin {"ReceivingHeader", "ReceivedHeader", "ReceivingEof"}
    BY <1>4 DEF IInv, HeaderOverlaps, Running, archive, Image, Unsent
  <2>2. Leave("overlap")
    BY <2>1 DEF Leave
  <2> QED
    BY <2>1, <2>2, LeaveInv
<1>5. CASE HeaderPanics
  BY <1>5, PanicInv DEF HeaderPanics, Running
<1> QED
  BY <1>1, <1>2, <1>3, <1>4, <1>5 DEF AddEntryStep

-----------------------------------------------------------------------------
(* While a write, a flush or an Entry::finish runs there is a handle, and  *)
(* no header and no end is half written.                                   *)
LEMMA HandleFacts ==
  ASSUME IInv, poll = "running", call.op \in {"write", "flush", "finish_entry"}
  PROVE  /\ TypeOK /\ CallInv /\ StateInv /\ DoneInv /\ ArchiveImage
         /\ entry # NoHeader /\ entry \in Header /\ told \in Nat /\ call.taken \in Nat
         /\ panic = "none" /\ BlockSize \in Nat /\ BlockSize > 0
         /\ state.tag \notin {"ReceivingHeader", "ReceivedHeader",
                              "ReceivingEof", "ReceivedEof"}
         /\ told + call.taken <= entry.size /\ told <= entry.size
         /\ entry.size \in Int
         /\ state.tag \in {"ReceivingData", "ReceivedData", "AligningData",
                           "AlignedData"} =>
              /\ entry = cur /\ cur.size \in Nat /\ cur \in Header
              /\ Align(cur.size) \in 0 .. BlockSize - 1
              /\ EntryLen(cur) = BlockSize + cur.size + Align(cur.size)
<1>1. /\ TypeOK /\ CallInv /\ StateInv /\ DoneInv /\ ArchiveImage
      /\ entry \in Header /\ told \in Nat /\ call.taken \in Nat
      /\ BlockSize \in Nat /\ BlockSize > 0 /\ cur \in Header
  BY CallFacts, BlockFacts DEF IInv
<1>2. /\ entry # NoHeader /\ panic = "none" /\ told + call.taken <= entry.size
  BY <1>1, BusyFacts
<1>3. entry.size \in Int
  BY <1>1, HeaderFields DEF BadSize
<1>4. told <= entry.size
  BY <1>1, <1>2, <1>3
<1>5. state.tag \notin {"ReceivingHeader", "ReceivedHeader", "ReceivingEof",
                        "ReceivedEof"}
  BY <1>1, <1>2 DEF StateInv, InHeader, AtHeader, InEnd
<1>6. ASSUME state.tag \in {"ReceivingData", "ReceivedData", "AligningData",
                            "AlignedData"}
      PROVE  /\ entry = cur /\ cur.size \in Nat /\ cur \in Header
             /\ Align(cur.size) \in 0 .. BlockSize - 1
             /\ EntryLen(cur) = BlockSize + cur.size + Align(cur.size)
  BY <1>1, <1>2, <1>6, EntryLenType DEF StateInv, InData
<1> QED
  BY <1>1, <1>2, <1>3, <1>4, <1>5, <1>6

(* One write of the entry's data: where the bytes go, and State.           *)
LEMMA DataWriteState ==
  ASSUME IInv, Running("write", "body"), state.tag = "ReceivingData",
         NEW n \in 0 .. PrefixLen(call.bufs),
         PollWriteVectored(Outgoing, Whole(call.bufs), entry, n)
  PROVE  /\ state = ReceivingData(state.rem) /\ state.rem \in Nat
         /\ state.rem <= cur.size /\ told = cur.size - state.rem
         /\ Behind(cur, cur, head)
         /\ ItemOffset(state, cur) = BlockSize + told
         /\ Image' = Image \o SubSeq(Outgoing, 1, n)
         /\ SubSeq(Outgoing, 1, n) \in Seq(Byte)
         /\ Len(SubSeq(Outgoing, 1, n)) = n /\ n \in Nat /\ n <= state.rem
         /\ \A i \in 1 .. n : SubSeq(Outgoing, 1, n)[i] = DataByte(cur, told + i)
         /\ state' = IF n < state.rem THEN ReceivingData(state.rem - n)
                     ELSE ReceivedData
<1>1. /\ poll = "running" /\ call.op = "write" /\ call.phase = "body"
      /\ state.tag = "ReceivingData" /\ Running("write", "body")
  BY DEF Running
<1>2. /\ TypeOK /\ CallInv /\ StateInv
      /\ entry # NoHeader /\ entry \in Header /\ told \in Nat
      /\ BlockSize \in Nat /\ BlockSize > 0
      /\ entry = cur /\ cur.size \in Nat
  BY <1>1, HandleFacts
<1>3. PollWriteVectored(Outgoing, Whole(call.bufs), entry, n)
  OBVIOUS
<1> DEFINE b    == Outgoing
           rem  == state.rem
           sent == SubSeq(b, 1, n)
<1>4. /\ state = ReceivingData(rem) /\ rem \in Nat /\ rem <= cur.size
      /\ told = cur.size - rem
      /\ Behind(cur, cur, head)
      /\ ItemOffset(state, cur) = BlockSize + told
  <2>1. /\ state = ReceivingData(rem) /\ rem \in Nat /\ rem <= cur.size
        /\ told = cur.size - rem /\ Behind(cur, cur, head)
    BY <1>1, <1>2, CallFacts, Canonical DEF StateInv, InData
  <2>2. ItemOffset(state, cur) = BlockSize + cur.size - rem
    BY <2>1, Offsets
  <2> HIDE DEF rem
  <2> QED
    BY <1>2, <2>1, <2>2
<1>5. /\ b \in Seq(Byte) /\ Len(b) = PrefixLen(call.bufs)
      /\ Len(b) <= AsUsize(rem) /\ Len(b) <= rem /\ Len(b) \in Nat
      /\ AsUsize(rem) \in Nat
      /\ \A i \in 1 .. Len(b) : b[i] = DataByte(cur, told + i)
  <2>1. b = DataFrom(entry, told, PrefixLen(call.bufs))
    BY <1>1 DEF Outgoing
  <2>2. /\ PrefixLen(call.bufs) \in Nat /\ PrefixLen(call.bufs) <= AsUsize(rem)
        /\ AsUsize(rem) \in 0 .. rem
    BY <1>2, CallFacts, PrefixLenType
  <2>3. PrefixLen(call.bufs) <= rem
    BY <1>4, <2>2
  <2> DEFINE m == PrefixLen(call.bufs)
  <2> HIDE DEF m
  <2>4. /\ DataFrom(entry, told, m) \in Seq(Byte) /\ Len(DataFrom(entry, told, m)) = m
        /\ \A i \in 1 .. m : DataFrom(entry, told, m)[i] = DataByte(entry, told + i)
    BY <1>2, <2>2, DataFromType DEF m
  <2> HIDE DEF rem, b
  <2> QED
    BY <1>2, <2>1, <2>2, <2>3, <2>4 DEF m
<1>6. /\ n \in 0 .. Len(b) /\ Image' = Image \o sent
      /\ state' = TakeSlices(state, sent, entry).state
  <2>1. b \in Seq(Byte) /\ Fits(state, b)
    BY <1>1, <1>2, OutgoingFits DEF Writes
  <2>2. PollWriteVectored(b, Whole(call.bufs), entry, n)
    BY <1>3
  <2> HIDE DEF b
  <2> QED
    BY <1>2, <2>1, <2>2, WriteFacts
<1>7. /\ sent \in Seq(Byte) /\ Len(sent) = n /\ n \in Nat /\ n <= rem
      /\ \A i \in 1 .. n : sent[i] = DataByte(cur, told + i)
  <2>1. /\ sent \in Seq(Byte) /\ Len(sent) = n
        /\ \A i \in 1 .. n : sent[i] = b[i]
    BY <1>5, <1>6, PrefixType
  <2>2. n \in Nat /\ n <= rem /\ \A i \in 1 .. n : i \in 1 .. Len(b)
    <3> HIDE DEF b, rem
    <3> QED
      BY <1>4, <1>5, <1>6
  <2> QED
    BY <1>5, <2>1, <2>2
<1>8. state' = IF n < rem THEN ReceivingData(rem - n) ELSE ReceivedData
  <2>1. Len(sent) <= AsUsize(rem) /\ Len(sent) = n
    <3> HIDE DEF b, rem, sent
    <3> QED
      BY <1>4, <1>5, <1>6, <1>7
  <2>2. TakeSlices(ReceivingData(rem), sent, entry) =
          Result(IF Len(sent) < rem THEN ReceivingData(rem - Len(sent))
                 ELSE ReceivedData, Len(sent))
    BY <1>2, <1>4, <1>7, <2>1, TakeData
  <2> HIDE DEF sent, rem
  <2>3. TakeSlices(ReceivingData(rem), sent, entry).state =
          IF n < rem THEN ReceivingData(rem - n) ELSE ReceivedData
    BY <2>1, <2>2 DEF Result
  <2> QED
    BY <1>4, <1>6, <2>3
<1> HIDE DEF b, rem, sent
<1> QED
  BY <1>4, <1>6, <1>7, <1>8 DEF b, rem, sent

LEMMA EntryWriteInv ==
  ASSUME IInv, EntryWrite
  PROVE  CallInv' /\ StateInv' /\ DoneInv' /\ ArchiveImage'
<1>1. /\ poll = "running" /\ call.op = "write" /\ call.phase = "body"
      /\ state.tag = "ReceivingData" /\ poll # "gone"
      /\ Running("write", "body")
  BY DEF EntryWrite, Running
<1>2. /\ TypeOK /\ CallInv /\ StateInv /\ DoneInv /\ ArchiveImage
      /\ entry # NoHeader /\ entry \in Header /\ told \in Nat
      /\ panic = "none" /\ BlockSize \in Nat /\ BlockSize > 0
      /\ told + call.taken <= entry.size
      /\ entry = cur /\ cur.size \in Nat
  BY <1>1, HandleFacts
<1>3. PICK n \in 0 .. PrefixLen(call.bufs) :
        /\ PollWriteVectored(Outgoing, Whole(call.bufs), entry, n)
        /\ IF n # state.rem
           THEN Return("ok", n) /\ told' = told + n
           ELSE /\ UNCHANGED told
                /\ IF Debug /\ call.bufs.len # n
                   THEN Panic("debug")
                   ELSE /\ call' = [call EXCEPT !.phase = "align", !.taken = n]
                        /\ UNCHANGED <<poll, ret, panic>>
  BY DEF EntryWrite
<1> DEFINE b    == Outgoing
           rem  == state.rem
           sent == SubSeq(b, 1, n)
<1>4. /\ state = ReceivingData(rem) /\ rem \in Nat /\ rem <= cur.size
      /\ told = cur.size - rem
      /\ Behind(cur, cur, head)
      /\ ItemOffset(state, cur) = BlockSize + told
      /\ Image' = Image \o sent
      /\ sent \in Seq(Byte) /\ Len(sent) = n /\ n \in Nat /\ n <= rem
      /\ \A i \in 1 .. n : sent[i] = DataByte(cur, told + i)
      /\ state' = IF n < rem THEN ReceivingData(rem - n) ELSE ReceivedData
  BY <1>1, <1>3, DataWriteState
<1>5. /\ state = ReceivingData(rem) /\ rem \in Nat /\ rem <= cur.size
      /\ told = cur.size - rem
      /\ Behind(cur, cur, head)
      /\ ItemOffset(state, cur) = BlockSize + told
  BY <1>4
<1>6. Image' = Image \o sent
  BY <1>4
<1>7. /\ sent \in Seq(Byte) /\ Len(sent) = n /\ n \in Nat /\ n <= rem
      /\ \A i \in 1 .. n : sent[i] = DataByte(cur, told + i)
  BY <1>4
<1>8. state' = IF n < rem THEN ReceivingData(rem - n) ELSE ReceivedData
  BY <1>4
<1>9. /\ UNCHANGED <<entry, cur, head, done>>
      /\ poll' # "gone"
      /\ told' = IF n = rem THEN told ELSE told + n
  BY <1>1, <1>3 DEF EntryWrite, history, Return, Panic
<1>10. CallInv'
  <2>1. CASE n # rem
    <3>1. Return("ok", n) /\ told' = told + n /\ told' \in Nat /\ told' <= entry'.size
      <4>1. told + n <= cur.size /\ told + n \in Nat
        BY <1>2, <1>5, <1>7
      <4> HIDE DEF rem
      <4> QED
        BY <1>2, <1>3, <1>9, <2>1, <4>1 DEF rem
    <3> QED
      BY <1>1, <1>2, <3>1, ControlInv
  <2>2. CASE n = rem /\ Panic("debug")
    <3>1. UNCHANGED handle
      BY <1>9, <2>2 DEF handle
    <3> QED
      BY <1>1, <1>2, <2>2, <3>1, ControlInv
  <2>3. CASE /\ n = rem /\ call' = [call EXCEPT !.phase = "align", !.taken = n]
             /\ UNCHANGED <<poll, ret, panic>>
    <3>1. /\ call'.op = "write" /\ call'.phase = "align" /\ call'.taken = n
          /\ call'.hdr = call.hdr
      BY <1>1, <1>2, <2>3, CallFacts DEF CallType
    <3>2. told' + n <= entry'.size
      BY <1>2, <1>5, <1>7, <1>9, <2>3
    <3> QED
      BY <1>1, <1>2, <1>9, <2>3, <3>1, <3>2 DEF CallInv, Busy
  <2> QED
    BY <1>3, <2>1, <2>2, <2>3
<1>11. StateInv'
  <2>1. CASE n < rem
    <3>1. /\ state'.tag = "ReceivingData" /\ state'.rem = rem - n
      BY <1>8, <2>1 DEF ReceivingData, St
    <3>2. rem - n <= cur.size /\ told' = cur.size - (rem - n)
      BY <1>2, <1>5, <1>7, <1>9, <2>1
    <3> HIDE DEF rem
    <3> QED
      BY <1>2, <1>5, <1>9, <3>1, <3>2, HeaderFields
         DEF StateInv, BetweenEntries, InHeader, AtHeader, InData, InEnd, Behind, BadSize
  <2>2. CASE n = rem
    <3>1. state'.tag = "ReceivedData"
      BY <1>5, <1>8, <2>2 DEF ReceivedData, St
    <3> QED
      BY <1>2, <1>5, <1>9, <3>1
         DEF StateInv, BetweenEntries, InHeader, AtHeader, InData, InEnd, Behind, BadSize
  <2> QED
    BY <1>5, <1>7, <2>1, <2>2
<1>12. ItemOffset(state', cur') = ItemOffset(state, cur) + Len(sent)
  <2>1. CASE n < rem
    <3>1. ItemOffset(state', cur') = BlockSize + cur.size - (rem - n)
      BY <1>8, <1>9, <2>1, Offsets
    <3> HIDE DEF rem, sent
    <3> QED
      BY <1>2, <1>5, <1>7, <3>1
  <2>2. CASE n = rem
    <3>1. ItemOffset(state', cur') = BlockSize + cur.size
      BY <1>5, <1>8, <1>9, <2>2, Offsets
    <3> HIDE DEF rem, sent
    <3> QED
      BY <1>2, <1>5, <1>7, <2>2, <3>1
  <2> QED
    BY <1>5, <1>7, <2>1, <2>2
<1>13. ASSUME NEW i \in 1 .. Len(sent)
       PROVE  sent[i] = ByteOf(cur', head', ItemOffset(state, cur) + i)
  <2>1. /\ i \in 1 .. n /\ told + i >= 1 /\ told + i <= cur.size
        /\ BlockSize + told + i > BlockSize
        /\ BlockSize + told + i <= BlockSize + cur.size
        /\ (BlockSize + told + i) - BlockSize = told + i
    BY <1>2, <1>5, <1>7
  <2>2. EntryByteUnder(head, cur, BlockSize + told + i) = DataByte(cur, told + i)
    BY <1>2, <2>1 DEF EntryByteUnder, EntryByte
  <2> QED
    BY <1>2, <1>5, <1>7, <1>9, <2>1, <2>2 DEF ByteOf
<1>14. DoneInv' /\ ArchiveImage'
  <2> HIDE DEF sent
  <2> QED
    BY <1>1, <1>2, <1>6, <1>7, <1>9, <1>12, <1>13, Extends
<1> QED
  BY <1>10, <1>11, <1>14

LEMMA WriteInv ==
  ASSUME IInv, WriteStep
  PROVE  CallInv' /\ StateInv' /\ DoneInv' /\ ArchiveImage'
<1>1. CASE EntryWrite
  BY <1>1, EntryWriteInv
<1>2. CASE EntryStalls
  <2>1. PICK res \in IoFaults : PollWriteFails(Outgoing, res) /\ Leave(res)
    BY <1>2 DEF EntryStalls
  <2>2. TypeOK /\ poll = "running" /\ state.tag = "ReceivingData"
    BY <1>2 DEF IInv, EntryStalls, Running
  <2>3. Image' = Image /\ state' = state /\ UNCHANGED <<handle, history>>
    BY <1>2, <2>1, <2>2, WriteFailsFacts DEF EntryStalls
  <2> QED
    BY <2>1, <2>2, <2>3, LeaveInv
<1>3. CASE EntryWritePanics
  BY <1>3, PanicInv DEF EntryWritePanics, Running
<1> QED
  BY <1>1, <1>2, <1>3 DEF WriteStep

-----------------------------------------------------------------------------
(* The first bytes of an empty block.                                      *)
LEMMA ZerosPrefix ==
  ASSUME NEW m \in Nat, NEW n \in 0 .. m
  PROVE  /\ SubSeq(Zeros(m), 1, n) \in Seq(Byte) /\ Len(SubSeq(Zeros(m), 1, n)) = n
         /\ \A i \in 1 .. n : SubSeq(Zeros(m), 1, n)[i] = ZeroByte
         /\ AllZero(SubSeq(Zeros(m), 1, n))
<1> DEFINE z == Zeros(m)
<1>1. z \in Seq(Byte) /\ Len(z) = m /\ \A i \in 1 .. m : z[i] = ZeroByte
  BY ZerosType
<1> HIDE DEF z
<1>2. /\ SubSeq(z, 1, n) \in Seq(Byte) /\ Len(SubSeq(z, 1, n)) = n
      /\ \A i \in 1 .. n : SubSeq(z, 1, n)[i] = z[i]
  BY <1>1, PrefixType
<1>3. \A i \in 1 .. n : i \in 1 .. m
  OBVIOUS
<1>4. \A i \in 1 .. n : SubSeq(z, 1, n)[i] = ZeroByte
  BY <1>1, <1>2, <1>3
<1> QED
  BY <1>2, <1>4 DEF AllZero, z

LEMMA AlignBeginsInv ==
  ASSUME IInv, AlignBegins
  PROVE  CallInv' /\ StateInv' /\ DoneInv' /\ ArchiveImage'
<1>1. /\ poll = "running" /\ poll # "gone" /\ call.op \in {"write", "finish_entry"}
      /\ call.phase # "flush" /\ state = ReceivedData /\ state.tag = "ReceivedData"
  BY DEF AlignBegins, Finishing, Running, ReceivedData, St
<1>2. /\ TypeOK /\ CallInv /\ StateInv /\ DoneInv /\ ArchiveImage
      /\ entry = cur /\ cur # NoHeader /\ cur.size \in Nat /\ cur \in Header
      /\ BlockSize \in Nat /\ Align(cur.size) \in 0 .. BlockSize - 1
      /\ EntryLen(cur) = BlockSize + cur.size + Align(cur.size)
  BY <1>1, HandleFacts
<1>3. state' = AligningData(Align(cur.size))
  BY <1>1, <1>2 DEF AlignBegins, TarNext, NextOfEntry, Result, BadSize
<1>4. UNCHANGED <<data, pos, out, control, handle, history>>
  BY DEF AlignBegins
<1>5. /\ Image' = Image /\ poll' # "gone" /\ Continue
      /\ entry' = entry /\ told' = told /\ cur' = cur /\ head' = head /\ done' = done
  BY <1>1, <1>4 DEF Image, Unsent, control, handle, history, Continue
<1>6. CallInv'
  BY <1>1, <1>2, <1>4, <1>5, ControlInv
<1>7. StateInv'
  <2>1. state'.tag = "AligningData" /\ state'.rem = Align(cur.size)
    BY <1>3 DEF AligningData, St
  <2>2. Align(cur.size) <= Align(cur.size)
    BY <1>2
  <2> QED
    BY <1>1, <1>2, <1>5, <2>1, <2>2
       DEF StateInv, BetweenEntries, InHeader, AtHeader, InData, InEnd, Behind
<1>8. ItemOffset(state', cur') = ItemOffset(state, cur)
  <2>1. /\ ItemOffset(state', cur') = EntryLen(cur) - Align(cur.size)
        /\ ItemOffset(state, cur) = BlockSize + cur.size
    BY <1>1, <1>3, <1>5, Offsets
  <2> QED
    BY <1>2, <2>1
<1>9. DoneInv' /\ ArchiveImage'
  BY <1>1, <1>2, <1>5, <1>8, Keeps
<1> QED
  BY <1>6, <1>7, <1>9

(* One write of an entry's padding: where the zeros go, and State.         *)
LEMMA AlignWriteState ==
  ASSUME IInv, Finishing, state.tag = "AligningData", NEW n \in 0 .. state.rem,
         PollWriteVectored(Outgoing, state.rem, entry, n)
  PROVE  /\ state = AligningData(state.rem) /\ state.rem \in Nat
         /\ state.rem <= Align(cur.size) /\ Behind(cur, cur, head)
         /\ Image' = Image \o SubSeq(Zeros(state.rem), 1, n)
         /\ SubSeq(Zeros(state.rem), 1, n) \in Seq(Byte)
         /\ Len(SubSeq(Zeros(state.rem), 1, n)) = n /\ n \in Nat /\ n <= state.rem
         /\ \A i \in 1 .. n : SubSeq(Zeros(state.rem), 1, n)[i] = ZeroByte
         /\ state' = IF n < state.rem THEN AligningData(state.rem - n)
                     ELSE AlignedData
<1> DEFINE rem == state.rem
<1>1. /\ poll = "running" /\ call.op \in {"write", "finish_entry"}
      /\ call.phase # "flush" /\ state.tag = "AligningData" /\ Finishing
  BY DEF Finishing, Running
<1>2. /\ TypeOK /\ CallInv /\ StateInv
      /\ entry = cur /\ cur # NoHeader /\ cur.size \in Nat /\ cur \in Header
  BY <1>1, HandleFacts
<1>3. /\ state = AligningData(rem) /\ rem \in Nat /\ rem <= Align(cur.size)
      /\ Behind(cur, cur, head)
  BY <1>1, <1>2, CallFacts, Canonical DEF StateInv, InData
<1>4. PollWriteVectored(Outgoing, rem, entry, n)
  OBVIOUS
<1> DEFINE sent == SubSeq(Zeros(rem), 1, n)
<1>5. Outgoing = Zeros(rem)
  BY <1>1 DEF Outgoing, Finishing, Running
<1>6. /\ Image' = Image \o sent
      /\ state' = TakeSlices(state, sent, entry).state
  <2>1. Outgoing \in Seq(Byte) /\ Fits(state, Outgoing)
    BY <1>1, <1>2, OutgoingFits DEF Writes
  <2> QED
    BY <1>2, <1>4, <1>5, <2>1, WriteFacts
<1>7. /\ sent \in Seq(Byte) /\ Len(sent) = n /\ n \in Nat /\ n <= rem
      /\ \A i \in 1 .. n : sent[i] = ZeroByte
  BY <1>3, ZerosPrefix
<1> HIDE DEF sent
<1>8. state' = IF n < rem THEN AligningData(rem - n) ELSE AlignedData
  <2>1. TakeSlices(AligningData(rem), sent, entry) =
          Result(IF Len(sent) < rem THEN AligningData(rem - Len(sent))
                 ELSE AlignedData, Len(sent))
    BY <1>2, <1>3, <1>7, TakeAlign
  <2> HIDE DEF rem
  <2>2. TakeSlices(AligningData(rem), sent, entry).state =
          IF n < rem THEN AligningData(rem - n) ELSE AlignedData
    BY <1>7, <2>1 DEF Result
  <2> QED
    BY <1>3, <1>6, <2>2
<1> HIDE DEF rem
<1> QED
  BY <1>3, <1>6, <1>7, <1>8 DEF rem, sent

LEMMA AlignWriteInv ==
  ASSUME IInv, AlignWrite
  PROVE  CallInv' /\ StateInv' /\ DoneInv' /\ ArchiveImage'
<1> DEFINE rem == state.rem
<1>1. /\ poll = "running" /\ poll # "gone" /\ call.op \in {"write", "finish_entry"}
      /\ call.phase # "flush" /\ state.tag = "AligningData" /\ Finishing
  BY DEF AlignWrite, Finishing, Running
<1>2. /\ TypeOK /\ CallInv /\ StateInv /\ DoneInv /\ ArchiveImage
      /\ entry = cur /\ cur # NoHeader /\ cur.size \in Nat /\ cur \in Header
      /\ BlockSize \in Nat /\ Align(cur.size) \in 0 .. BlockSize - 1
      /\ EntryLen(cur) = BlockSize + cur.size + Align(cur.size)
  BY <1>1, HandleFacts
<1>3. /\ state = AligningData(rem) /\ rem \in Nat /\ rem <= Align(cur.size)
      /\ Behind(cur, cur, head)
  BY <1>1, <1>2, CallFacts, Canonical DEF StateInv, InData
<1>4. PICK n \in 0 .. rem : PollWriteVectored(Outgoing, rem, entry, n)
  BY DEF AlignWrite
<1> DEFINE sent == SubSeq(Zeros(rem), 1, n)
<1>5. /\ Image' = Image \o sent
      /\ sent \in Seq(Byte) /\ Len(sent) = n /\ n \in Nat /\ n <= rem
      /\ \A i \in 1 .. n : sent[i] = ZeroByte
      /\ state' = IF n < rem THEN AligningData(rem - n) ELSE AlignedData
  BY <1>1, <1>4, AlignWriteState
<1>6. Image' = Image \o sent
  BY <1>5
<1>7. /\ sent \in Seq(Byte) /\ Len(sent) = n /\ n \in Nat /\ n <= rem
      /\ \A i \in 1 .. n : sent[i] = ZeroByte
  BY <1>5
<1> HIDE DEF sent
<1>8. state' = IF n < rem THEN AligningData(rem - n) ELSE AlignedData
  BY <1>5
<1>9. /\ entry' = entry /\ told' = told /\ cur' = cur /\ head' = head /\ done' = done
      /\ poll' # "gone" /\ Continue /\ UNCHANGED handle
  BY <1>1 DEF AlignWrite, control, handle, history, Continue
<1>10. CallInv'
  BY <1>1, <1>2, <1>9, ControlInv
<1>11. StateInv'
  <2>1. \/ state'.tag = "AligningData" /\ state'.rem = rem - n
        \/ state'.tag = "AlignedData"
    BY <1>8 DEF AligningData, AlignedData, St
  <2>2. rem - n <= Align(cur.size) /\ cur.size # BadSize
    BY <1>2, <1>3, <1>7 DEF BadSize
  <2> HIDE DEF rem
  <2> QED
    BY <1>2, <1>3, <1>9, <2>1, <2>2
       DEF StateInv, BetweenEntries, InHeader, AtHeader, InData, InEnd, Behind
<1>12. /\ ItemOffset(state, cur) = EntryLen(cur) - rem
       /\ ItemOffset(state', cur') = EntryLen(cur) - rem + n
  <2>1. /\ ItemOffset(state, cur) = EntryLen(cur) - rem
        /\ n < rem => ItemOffset(state', cur') = EntryLen(cur) - (rem - n)
        /\ ~ (n < rem) => ItemOffset(state', cur') = EntryLen(cur)
    BY <1>3, <1>8, <1>9, Offsets
  <2> HIDE DEF rem
  <2> QED
    BY <1>2, <1>3, <1>7, <2>1
<1>13. ASSUME NEW i \in 1 .. Len(sent)
       PROVE  sent[i] = ByteOf(cur', head', ItemOffset(state, cur) + i)
  <2> DEFINE j == EntryLen(cur) - rem + i
  <2>1. i \in 1 .. n /\ j > BlockSize + cur.size /\ j > BlockSize /\ j \in Nat
    BY <1>2, <1>3, <1>7
  <2> HIDE DEF j
  <2>2. EntryByteUnder(head, cur, j) = ZeroByte
    BY <1>2, <2>1 DEF EntryByteUnder, EntryByte
  <2>3. sent[i] = ZeroByte /\ ItemOffset(state, cur) + i = j
    BY <1>7, <1>12, <2>1 DEF j
  <2> QED
    BY <1>2, <1>9, <2>2, <2>3 DEF ByteOf
<1>14. DoneInv' /\ ArchiveImage'
  BY <1>1, <1>2, <1>6, <1>7, <1>9, <1>12, <1>13, Extends
<1> QED
  BY <1>10, <1>11, <1>14

(* The entry is sealed: the archive is longer by one finished entry, and   *)
(* the open item begins where it ends.                                     *)
LEMMA AlignEndsInv ==
  ASSUME IInv, AlignEnds
  PROVE  CallInv' /\ StateInv' /\ DoneInv' /\ ArchiveImage'
<1> DEFINE rec == [hdr |-> cur, head |-> head, base |-> Len(Image) - EntryLen(cur)]
           m   == Len(done)
<1>1. /\ poll = "running" /\ poll # "gone" /\ call.op \in {"write", "finish_entry"}
      /\ call.phase # "flush" /\ state = AlignedData /\ state.tag = "AlignedData"
      /\ call.op = "write" \/ call.op = "finish_entry"
  BY DEF AlignEnds, Finishing, Running, AlignedData, St
<1>2. /\ TypeOK /\ CallInv /\ StateInv /\ DoneInv /\ ArchiveImage
      /\ entry = cur /\ entry # NoHeader /\ cur.size \in Nat /\ cur \in Header
      /\ EntryLen(cur) = BlockSize + cur.size + Align(cur.size)
      /\ Align(cur.size) \in 0 .. BlockSize - 1 /\ BlockSize \in Nat
      /\ told + call.taken <= entry.size /\ told \in Nat /\ call.taken \in Nat
      /\ panic = "none"
  BY <1>1, HandleFacts
<1>3. Behind(cur, cur, head) /\ cur.size # BadSize
  BY <1>1, <1>2 DEF StateInv, InData
<1>4. /\ state' = ExpectingHeader /\ done' = Append(done, rec)
      /\ cur' = NoHeader /\ head' = NoHeader /\ entry' = entry
      /\ Image' = Image
  BY <1>1 DEF AlignEnds, TarNext, Result, Image, Unsent
<1>5. \/ Return("ok", call.taken) /\ told' = told + call.taken
      \/ /\ call.op = "finish_entry" /\ told' = told
         /\ call' = [call EXCEPT !.phase = "flush"]
         /\ UNCHANGED <<poll, ret, panic>>
  BY <1>1 DEF AlignEnds, EntryFinished
<1>6. CallInv'
  <2>1. CASE Return("ok", call.taken) /\ told' = told + call.taken
    BY SMTT(30), <1>1, <1>2, <1>4, <2>1, ControlInv
  <2>2. CASE /\ call.op = "finish_entry" /\ told' = told
             /\ call' = [call EXCEPT !.phase = "flush"]
             /\ UNCHANGED <<poll, ret, panic>>
    <3>1. /\ call'.op = "finish_entry" /\ call'.taken = call.taken
          /\ call'.phase = "flush"
      BY <1>2, <2>2, CallFacts DEF CallType
    <3> QED
      BY <1>1, <1>2, <1>4, <2>2, <3>1 DEF CallInv, Busy
  <2> QED
    BY <1>5, <2>1, <2>2
<1>7. /\ m \in Nat /\ Base \in Nat /\ EntryLen(cur) \in Nat
      /\ Len(done') = m + 1 /\ done'[m + 1] = rec
      /\ \A k \in 1 .. m : done'[k] = done[k]
      /\ done' # <<>> /\ (done = <<>> <=> m = 0)
  <2>1. done \in Seq([hdr : Headers \cup {NoHeader}, head : Headers \cup {NoHeader},
                      base : Int])
    BY <1>2 DEF TypeOK, HistoryTypeOK
  <2>2. TypeOK'
    <3>1. Next
      BY DEF Next, Step, FinishEntryStep
    <3> QED
      BY <1>2, <3>1, NextTypes
  <2>3. rec \in [hdr : Headers \cup {NoHeader}, head : Headers \cup {NoHeader},
                 base : Int]
    <3>1. Len(Image) \in Nat
      BY <1>2, UnsentType, LenProperties
    <3>2. Len(Image) - EntryLen(cur) \in Int
      BY <1>2, <3>1
    <3> QED
      BY <1>2, <3>2 DEF TypeOK, HistoryTypeOK
  <2> HIDE DEF rec
  <2>4. /\ Len(Append(done, rec)) = Len(done) + 1
        /\ Append(done, rec)[Len(done) + 1] = rec
        /\ \A k \in 1 .. Len(done) : Append(done, rec)[k] = done[k]
    BY <2>1, <2>3, AppendProperties
  <2>5. m \in Nat /\ (done = <<>> <=> m = 0)
    BY <2>1, LenProperties, EmptySeq
  <2>6. done' # <<>>
    <3>1. Len(done') # 0
      BY <1>4, <2>4, <2>5
    <3> QED
      BY <3>1
  <2> QED
    BY SMTT(30), <1>2, <1>4, <2>4, <2>5, <2>6, DoneFacts
<1>8. rec.base = Base /\ rec.hdr = cur /\ rec.head = head /\ Len(Image) \in Nat
      /\ Len(Image) = Base + EntryLen(cur) /\ ItemOffset(state, cur) = EntryLen(cur)
  <2>1. ItemOffset(state, cur) = EntryLen(cur)
    BY <1>1, Offsets
  <2>2. Len(Image) = Base + EntryLen(cur)
    BY <1>1, <1>2, <2>1 DEF ArchiveImage, Total
  <2> QED
    BY <1>7, <2>1, <2>2
<1> HIDE DEF rec
<1>9. /\ \A k \in 1 .. m + 1 : EndOf(done'[k]) = EndOf(done[k])
                                \/ (k = m + 1 /\ EndOf(done'[k]) = Base + EntryLen(cur))
      /\ Base' = Base + EntryLen(cur)
  <2>1. EndOf(rec) = Base + EntryLen(cur)
    BY <1>8 DEF EndOf
  <2>2. Base' = EndOf(done'[m + 1])
    BY <1>7 DEF Base, EndOf
  <2>3. \A k \in 1 .. m + 1 : k \in 1 .. m \/ k = m + 1
    BY <1>7
  <2> HIDE DEF m
  <2> QED
    BY <1>7, <2>1, <2>2, <2>3
<1>10. DoneInv'
  <2>1. ASSUME NEW k \in 1 .. m + 1
        PROVE  /\ done'[k].base \in Nat /\ done'[k].hdr.size # BadSize
               /\ EndOf(done'[k]) <= Base'
    <3>1. CASE k \in 1 .. m
      <4>1. done'[k] = done[k] /\ EndOf(done[k]) <= Base /\ done[k].base \in Nat
            /\ done[k].hdr.size # BadSize /\ EndOf(done[k]) \in Nat
        <5>1. k \in 1 .. Len(done) /\ done'[k] = done[k]
          BY <1>7, <3>1
        <5>2. /\ done[k].base \in Nat /\ done[k].hdr.size # BadSize
              /\ EndOf(done[k]) <= Base
          BY <1>2, <5>1 DEF DoneInv
        <5>3. /\ done[k].base \in Nat /\ EntryLen(done[k].hdr) \in Nat
              /\ EndOf(done[k]) = done[k].base + EntryLen(done[k].hdr)
          BY <1>2, <5>1, DoneFacts
        <5> QED
          BY <5>1, <5>2, <5>3
      <4>2. EndOf(done[k]) <= Base + EntryLen(cur)
        BY <1>7, <4>1
      <4> QED
        BY <1>9, <4>1, <4>2
    <3>2. CASE k = m + 1
      <4>1. done'[k] = rec /\ EndOf(rec) = Base + EntryLen(cur)
        BY <1>7, <1>8, <3>2 DEF EndOf
      <4> QED
        BY <1>3, <1>7, <1>8, <1>9, <4>1
    <3> QED
      BY <1>7, <3>1, <3>2
  <2> HIDE DEF m
  <2> QED
    BY <1>7, <2>1 DEF DoneInv, EndOf, m
<1>11. StateInv'
  <2>1. state'.tag = "ExpectingHeader"
    BY <1>4 DEF ExpectingHeader, St
  <2>2. done'[Len(done')] = rec
    BY <1>7
  <2>3. Behind(entry', rec.hdr, rec.head)
    BY <1>2, <1>3, <1>4, <1>8
  <2> QED
    BY <1>4, <1>7, <1>8, <2>1, <2>2, <2>3
       DEF StateInv, BetweenEntries, InHeader, AtHeader, InData, InEnd, Behind
<1>12. FinishedEntries'
  <2>1. ASSUME NEW k \in 1 .. m + 1
        PROVE  /\ done'[k].base = (IF k = 1 THEN 0 ELSE EndOf(done'[k - 1]))
               /\ \A i \in 1 .. EntryLen(done'[k].hdr) :
                    done'[k].base + i <= Len(Image) =>
                      Image[done'[k].base + i]
                        = EntryByteUnder(done'[k].head, done'[k].hdr, i)
    <3>1. CASE k \in 1 .. m
      <4>1. done'[k] = done[k] /\ (k # 1 => done'[k - 1] = done[k - 1])
        BY <1>7, <3>1
      <4> QED
        BY <1>2, <3>1, <4>1 DEF ArchiveImage, FinishedEntries, Holds
    <3>2. CASE k = m + 1
      <4>1. done'[k] = rec
        BY <1>7, <3>2
      <4>2. Base = IF k = 1 THEN 0 ELSE EndOf(done'[k - 1])
        <5>1. k = 1 => done = <<>>
          BY <1>7, <3>2
        <5>2. k # 1 => done # <<>> /\ k - 1 = m /\ m \in 1 .. m
          BY <1>7, <3>2
        <5> HIDE DEF m
        <5> QED
          BY <1>7, <5>1, <5>2 DEF Base, m
      <4>3. ASSUME NEW i \in 1 .. EntryLen(cur), Base + i <= Len(Image)
            PROVE  Image[Base + i] = EntryByteUnder(head, cur, i)
        BY <1>2, <1>8, <4>3 DEF ArchiveImage, OpenItem, Holds, OpenByte
      <4> QED
        BY <1>8, <4>1, <4>2, <4>3
    <3> QED
      BY <1>7, <3>1, <3>2
  <2> HIDE DEF m
  <2> QED
    BY SMTT(30), <1>4, <1>7, <2>1 DEF FinishedEntries, Holds, EndOf
<1>13. ItemOffset(state', cur') = 0
  BY <1>4, Offsets
<1>14. OpenItem'
  BY <1>13 DEF OpenItem
<1>15. poll' # "gone" /\ Len(Image') = Total'
  BY <1>1, <1>4, <1>5, <1>7, <1>8, <1>9, <1>13 DEF Total, Return
<1> QED
  BY <1>6, <1>10, <1>11, <1>12, <1>14, <1>15 DEF ArchiveImage

LEMMA FinishEntryInv ==
  ASSUME IInv, FinishEntryStep
  PROVE  CallInv' /\ StateInv' /\ DoneInv' /\ ArchiveImage'
<1>1. CASE AlignBegins
  BY <1>1, AlignBeginsInv
<1>2. CASE AlignWrite
  BY <1>2, AlignWriteInv
<1>3. CASE AlignStalls
  <2>1. PICK res \in IoFaults :
          /\ PollWriteFails(Outgoing, res)
          /\ IF call.op = "write" /\ res # "pending"
             THEN IF Debug THEN Panic("debug") /\ UNCHANGED told
                  ELSE Return("ok", call.taken) /\ told' = told + call.taken
             ELSE Leave(res) /\ UNCHANGED told
    BY <1>3 DEF AlignStalls
  <2>2. /\ poll = "running" /\ call.op \in {"write", "finish_entry"}
        /\ call.phase # "flush" /\ state.tag = "AligningData" /\ poll # "gone"
    BY <1>3 DEF AlignStalls, Finishing, Running
  <2>3. /\ TypeOK /\ CallInv /\ StateInv /\ DoneInv /\ ArchiveImage
        /\ told + call.taken <= entry.size /\ told \in Nat /\ call.taken \in Nat
    BY <2>2, HandleFacts
  <2>4. Image' = Image /\ state' = state /\ UNCHANGED <<entry, history>>
    BY <1>3, <2>1, <2>3, WriteFailsFacts DEF AlignStalls
  <2>5. CASE Leave(res) /\ UNCHANGED told
    BY <2>2, <2>4, <2>5, LeaveInv DEF handle
  <2>6. CASE \/ Panic("debug") /\ UNCHANGED told
             \/ Return("ok", call.taken) /\ told' = told + call.taken
    <3>1. told' \in Nat /\ (entry' # NoHeader => told' <= entry'.size)
          /\ (Panic("debug") => told' = told)
      <4>1. CASE Panic("debug") /\ UNCHANGED told
        BY <2>2, <2>3, <2>4, <4>1, HandleFacts
      <4>2. CASE Return("ok", call.taken) /\ told' = told + call.taken
        <5>1. ~ Panic("debug")
          <6>1. panic = "none"
            BY <2>2, <2>3, BusyFacts
          <6> QED
            BY <4>2, <6>1 DEF Panic, Return
        <5> QED
          BY <2>3, <2>4, <4>2, <5>1
      <4> QED
        BY <2>6, <4>1, <4>2
    <3>2. CallInv'
      BY <2>2, <2>3, <2>4, <2>6, <3>1, ControlInv DEF handle
    <3>3. StateInv'
      BY <2>2, <2>3, <2>4, StateSame DEF history
    <3>4. poll' # "gone"
      BY <2>6 DEF Panic, Return
    <3>5. DoneInv' /\ ArchiveImage'
      BY <2>2, <2>3, <2>4, <3>4, ImageSame DEF history
    <3> QED
      BY <3>2, <3>3, <3>5
  <2> QED
    BY <2>1, <2>5, <2>6
<1>4. CASE AlignEnds
  BY <1>4, AlignEndsInv
<1>5. CASE AlignedAlready
  <2>1. /\ poll = "running" /\ call.op \in {"write", "finish_entry"}
        /\ call.phase # "flush" /\ state = ExpectingHeader
        /\ state.tag = "ExpectingHeader" /\ poll # "gone"
        /\ state' = state /\ Image' = Image
        /\ entry' = entry /\ cur' = cur /\ head' = head /\ done' = done
    BY <1>5 DEF AlignedAlready, Finishing, Running, ExpectingHeader, St,
                archive, history, Image, Unsent
  <2>2. /\ TypeOK /\ CallInv /\ StateInv /\ DoneInv /\ ArchiveImage
        /\ entry # NoHeader /\ told + call.taken <= entry.size
        /\ told \in Nat /\ call.taken \in Nat /\ panic = "none"
    BY <2>1, HandleFacts
  <2>3. \/ Return("ok", call.taken) /\ told' = told + call.taken
        \/ /\ call.op = "finish_entry" /\ told' = told
           /\ call' = [call EXCEPT !.phase = "flush"]
           /\ UNCHANGED <<poll, ret, panic>>
    BY <1>5, <2>1 DEF AlignedAlready, EntryFinished
  <2>4. CallInv'
    <3>1. CASE Return("ok", call.taken) /\ told' = told + call.taken
      BY <2>1, <2>2, <3>1, ControlInv
    <3>2. CASE /\ call.op = "finish_entry" /\ told' = told
               /\ call' = [call EXCEPT !.phase = "flush"]
               /\ UNCHANGED <<poll, ret, panic>>
      <4>1. /\ call'.op = "finish_entry" /\ call'.taken = call.taken
            /\ call'.phase = "flush"
        BY <2>2, <3>2, CallFacts DEF CallType
      <4> QED
        BY <2>1, <2>2, <3>2, <4>1 DEF CallInv, Busy
    <3> QED
      BY <2>3, <3>1, <3>2
  <2>5. StateInv'
    BY <2>1, <2>2, StateSame
  <2>6. DoneInv' /\ ArchiveImage'
    BY <2>1, <2>2, <2>3, ImageSame DEF Return
  <2> QED
    BY <2>4, <2>5, <2>6
<1>6. CASE AlignPanics
  BY <1>6, PanicInv DEF AlignPanics, Finishing, Running
<1> QED
  BY <1>1, <1>2, <1>3, <1>4, <1>5, <1>6 DEF FinishEntryStep

LEMMA FlushInv ==
  ASSUME IInv, FlushStep
  PROVE  CallInv' /\ StateInv' /\ DoneInv' /\ ArchiveImage'
<1>1. /\ poll = "running" /\ call.op \in {"flush", "finish_entry"}
      /\ state' = state /\ UNCHANGED <<handle, history>>
  BY DEF FlushStep, FlushReturns, FlushStalls, Flushing, Running
<1>2. TypeOK /\ state.tag \notin {"ReceivingHeader", "ReceivedHeader", "ReceivingEof"}
  BY <1>1, HandleFacts
<1>3. Flushed \/ \E res : FlushStops(res)
  BY DEF FlushStep, FlushReturns, FlushStalls
<1>4. Image' = Image
  BY <1>2, <1>3, FlushedFacts, FlushStopsFacts
<1>5. \E res : Leave(res)
  BY DEF FlushStep, FlushReturns, FlushStalls, Leave
<1> QED
  BY <1>1, <1>2, <1>4, <1>5, LeaveInv

-----------------------------------------------------------------------------
(* What runs in finish: there is no handle and no open entry.              *)
LEMMA EndFacts ==
  ASSUME IInv, WritesEnd
  PROVE  /\ TypeOK /\ CallInv /\ StateInv /\ DoneInv /\ ArchiveImage
         /\ poll = "running" /\ poll # "gone" /\ panic = "none"
         /\ call.op = "finish" /\ call.phase = "body"
         /\ entry = NoHeader /\ cur = NoHeader /\ head = NoHeader
         /\ BlockSize \in Nat /\ BlockSize > 0
         /\ \/ state = ExpectingHeader
            \/ /\ state = ReceivingHeader(state.rem, TRUE)
               /\ state.rem \in 1 .. BlockSize
               /\ state.rem < BlockSize => Len(data) = 0
            \/ state = ReceivingEof(state.rem) /\ state.rem \in 1 .. BlockSize
<1>1. /\ TypeOK /\ CallInv /\ StateInv /\ DoneInv /\ ArchiveImage
      /\ poll = "running" /\ poll # "gone" /\ call.op = "finish"
      /\ call.phase = "body" /\ BlockSize \in Nat /\ BlockSize > 0
      /\ GoodState(state)
  BY CallFacts, BlockFacts DEF IInv, WritesEnd, Running
<1>2. panic = "none" /\ entry = NoHeader /\ ~ Opening
  BY <1>1, BusyFacts DEF Opening, Running
<1>3. CASE state.tag = "ExpectingHeader"
  BY <1>1, <1>2, <1>3, Canonical DEF StateInv, BetweenEntries
<1>4. CASE state.tag = "ReceivingHeader" /\ state.empty
  BY <1>1, <1>2, <1>4, Canonical DEF StateInv, InHeader, GoodState
<1>5. CASE state.tag = "ReceivingEof"
  BY <1>1, <1>2, <1>5, Canonical DEF StateInv, InEnd, GoodState
<1> QED
  BY <1>3, <1>4, <1>5 DEF WritesEnd

(* One write of the end marker: where the zeros go, and State.             *)
LEMMA EndWriteState ==
  ASSUME IInv, WritesEnd, NEW n, NEW rem,
         rem = IF state.tag = "ExpectingHeader" THEN BlockSize ELSE state.rem,
         PollWriteVectored(Outgoing, Len(Outgoing), NoHeader, n)
  PROVE  /\ rem \in 1 .. BlockSize /\ rem \in Nat /\ n \in 0 .. rem
         /\ Image' = Image \o SubSeq(Zeros(rem), 1, n)
         /\ SubSeq(Zeros(rem), 1, n) \in Seq(Byte)
         /\ Len(SubSeq(Zeros(rem), 1, n)) = n
         /\ AllZero(SubSeq(Zeros(rem), 1, n))
         /\ \A i \in 1 .. n : SubSeq(Zeros(rem), 1, n)[i] = ZeroByte
         /\ n # rem => data' = <<>> /\ rem = BlockSize
         /\ \/ /\ state = ExpectingHeader /\ rem = BlockSize
               /\ state' = AfterHeaderBytes(rem - n, TRUE)
            \/ /\ state = ReceivingHeader(rem, TRUE)
               /\ state' = AfterHeaderBytes(rem - n, TRUE)
            \/ /\ state = ReceivingEof(rem)
               /\ state' = IF n < rem THEN ReceivingEof(rem - n) ELSE ReceivedEof
<1>1. /\ TypeOK /\ CallInv /\ StateInv
      /\ poll = "running" /\ call.op = "finish" /\ call.phase = "body" /\ WritesEnd
      /\ entry = NoHeader /\ BlockSize \in Nat /\ BlockSize > 0
  BY EndFacts
<1>2. \/ state = ExpectingHeader /\ rem = BlockSize
      \/ state = ReceivingHeader(rem, TRUE) /\ rem \in 1 .. BlockSize
      \/ state = ReceivingEof(rem) /\ rem \in 1 .. BlockSize
  BY <1>1, EndFacts DEF ExpectingHeader, ReceivingHeader, ReceivingEof, St
<1>3. PollWriteVectored(Outgoing, Len(Outgoing), NoHeader, n)
  OBVIOUS
<1>4. Outgoing = Zeros(rem)
  BY <1>1 DEF Outgoing, Running
<1> DEFINE sent == SubSeq(Zeros(rem), 1, n)
<1>5. rem \in 1 .. BlockSize /\ rem \in Nat
  <2>1. BlockSize \in 1 .. BlockSize
    BY <1>1
  <2>2. rem \in 1 .. BlockSize
    BY <1>2, <2>1, Zenon
  <2> QED
    BY <1>1, <2>2
<1>6. Zeros(rem) \in Seq(Byte) /\ Len(Zeros(rem)) = rem
  BY <1>5, ZerosType
<1>7. /\ n \in 0 .. rem /\ Image' = Image \o sent
      /\ state' = TakeSlices(state, sent, NoHeader).state
  <2>1. Fits(state, Outgoing)
    BY <1>1, OutgoingFits DEF Writes
  <2>2. NoHeader \in Header
    BY <1>1, CallFacts
  <2> QED
    BY <1>1, <1>3, <1>4, <1>6, <2>1, <2>2, WriteFacts
<1>8. n # rem => data' = <<>> /\ rem = BlockSize
  <2>1. n \in Counts(Zeros(rem), Len(Zeros(rem))) /\ Send(Zeros(rem), n)
    BY <1>3, <1>4 DEF PollWriteVectored
  <2> QED
    BY <1>1, <1>5, <1>6, <2>1, ShortWrite
<1>9. /\ sent \in Seq(Byte) /\ Len(sent) = n /\ AllZero(sent)
      /\ \A i \in 1 .. n : sent[i] = ZeroByte
  BY <1>5, <1>7, ZerosPrefix
<1> HIDE DEF sent
<1>10. ASSUME state = ExpectingHeader \/ state = ReceivingHeader(rem, TRUE)
       PROVE  state' = AfterHeaderBytes(rem - n, TRUE)
  <2>1. Len(sent) <= rem /\ NoHeader \in Header /\ (TRUE <=> AllZero(sent))
    BY <1>1, <1>5, <1>7, <1>9, CallFacts
  <2>2. TakeSlices(state, sent, NoHeader) = Result(AfterHeaderBytes(rem - n, TRUE), n)
    <3>1. CASE state = ExpectingHeader
      <4>1. rem = BlockSize
        BY <1>2, <3>1 DEF ExpectingHeader, ReceivingHeader, ReceivingEof, St
      <4> QED
        BY <1>5, <1>9, <2>1, <3>1, <4>1, TakeFirstBytes
    <3>2. CASE state = ReceivingHeader(rem, TRUE)
      BY <1>5, <1>9, <2>1, <3>2, TakeHeaderBytes
    <3> QED
      BY <1>10, <3>1, <3>2
  <2>3. TakeSlices(state, sent, NoHeader).state = AfterHeaderBytes(rem - n, TRUE)
    BY <2>2 DEF Result
  <2> QED
    BY <1>7, <2>3
<1>11. ASSUME state = ReceivingEof(rem)
       PROVE  state' = IF n < rem THEN ReceivingEof(rem - n) ELSE ReceivedEof
  <2>1. NoHeader \in Header /\ Len(sent) <= rem
    BY <1>1, <1>5, <1>7, <1>9, CallFacts
  <2>2. TakeSlices(ReceivingEof(rem), sent, NoHeader) =
          Result(IF Len(sent) < rem THEN ReceivingEof(rem - Len(sent))
                 ELSE ReceivedEof, Len(sent))
    BY <1>5, <1>9, <2>1, TakeEof
  <2>3. TakeSlices(ReceivingEof(rem), sent, NoHeader).state =
          IF n < rem THEN ReceivingEof(rem - n) ELSE ReceivedEof
    BY <1>9, <2>2 DEF Result
  <2> QED
    BY <1>7, <1>11, <2>3
<1> QED
  BY <1>2, <1>5, <1>6, <1>7, <1>8, <1>9, <1>10, <1>11 DEF sent

LEMMA EndWriteInv ==
  ASSUME IInv, EndWrite
  PROVE  CallInv' /\ StateInv' /\ DoneInv' /\ ArchiveImage'
<1> DEFINE rem == IF state.tag = "ExpectingHeader" THEN BlockSize ELSE state.rem
<1>1. /\ TypeOK /\ CallInv /\ StateInv /\ DoneInv /\ ArchiveImage
      /\ poll = "running" /\ poll # "gone" /\ panic = "none"
      /\ call.op = "finish" /\ call.phase = "body" /\ WritesEnd
      /\ entry = NoHeader /\ cur = NoHeader /\ head = NoHeader
      /\ BlockSize \in Nat /\ BlockSize > 0
  BY EndFacts DEF EndWrite
<1>2. \/ state = ExpectingHeader /\ rem = BlockSize
      \/ state = ReceivingHeader(rem, TRUE) /\ rem \in 1 .. BlockSize
      \/ state = ReceivingEof(rem) /\ rem \in 1 .. BlockSize
  BY <1>1, EndFacts DEF ExpectingHeader, ReceivingHeader, ReceivingEof, St
<1>3. PICK n \in 0 .. BlockSize :
        PollWriteVectored(Outgoing, Len(Outgoing), NoHeader, n)
  BY DEF EndWrite
<1> DEFINE sent == SubSeq(Zeros(rem), 1, n)
<1>4. /\ rem \in 1 .. BlockSize /\ rem \in Nat /\ n \in 0 .. rem
      /\ Image' = Image \o sent
      /\ sent \in Seq(Byte) /\ Len(sent) = n /\ AllZero(sent)
      /\ \A i \in 1 .. n : sent[i] = ZeroByte
      /\ n # rem => data' = <<>> /\ rem = BlockSize
      /\ \/ /\ state = ExpectingHeader /\ rem = BlockSize
            /\ state' = AfterHeaderBytes(rem - n, TRUE)
         \/ /\ state = ReceivingHeader(rem, TRUE)
            /\ state' = AfterHeaderBytes(rem - n, TRUE)
         \/ /\ state = ReceivingEof(rem)
            /\ state' = IF n < rem THEN ReceivingEof(rem - n) ELSE ReceivedEof
  BY <1>1, <1>3, EndWriteState
<1> HIDE DEF rem
<1>5. rem \in 1 .. BlockSize /\ rem \in Nat
  BY <1>4
<1>7. n \in 0 .. rem /\ Image' = Image \o sent
  BY <1>4
<1>8. n # rem => data' = <<>> /\ rem = BlockSize
  BY <1>4
<1>9. /\ sent \in Seq(Byte) /\ Len(sent) = n /\ AllZero(sent)
      /\ \A i \in 1 .. n : sent[i] = ZeroByte
  BY <1>4
<1>10. /\ entry' = NoHeader /\ told' = told /\ cur' = NoHeader /\ head' = NoHeader
       /\ done' = done /\ poll' = "running" /\ Continue /\ UNCHANGED handle
       /\ panic' = "none"
  BY <1>1 DEF EndWrite, control, handle, history, Continue
<1> HIDE DEF sent
<1>11. CallInv'
  BY <1>1, <1>10, ControlInv
<1>12. rem - n \in 0 .. BlockSize
  BY <1>1, <1>5, <1>7
<1>13. CASE state = ExpectingHeader \/ state = ReceivingHeader(rem, TRUE)
  <2>1. state' = AfterHeaderBytes(rem - n, TRUE)
    <3>1. state.tag # "ReceivingEof"
      BY <1>13 DEF ExpectingHeader, ReceivingHeader, St
    <3>2. state # ReceivingEof(rem)
      BY <3>1 DEF ReceivingEof, St
    <3> QED
      BY <1>4, <3>2, Zenon
  <2>2. StateInv'
    <3>1. CASE rem - n > 0
      <4>1. /\ state'.tag = "ReceivingHeader" /\ state'.rem = rem - n /\ state'.empty
        BY <2>1, <3>1 DEF AfterHeaderBytes, ReceivingHeader, St
      <4>2. Len(data') = 0
        BY <1>5, <1>7, <1>8, <3>1, EmptySeq
      <4> QED
        BY <1>1, <1>10, <4>1, <4>2
           DEF StateInv, BetweenEntries, InHeader, AtHeader, InData, InEnd
    <3>2. CASE rem - n = 0
      <4>1. state'.tag = "ReceivingEof"
        <5>1. state' = AfterHeaderBytes(0, TRUE)
          BY <2>1, <3>2, Zenon
        <5> QED
          BY <5>1 DEF AfterHeaderBytes, ReceivingEof, St
      <4> QED
        BY <1>10, <4>1
           DEF StateInv, BetweenEntries, InHeader, AtHeader, InData, InEnd
    <3> QED
      BY <1>12, <3>1, <3>2
  <2>3. /\ ItemOffset(state, cur) = BlockSize - rem
        /\ ItemOffset(state', cur') = BlockSize - (rem - n)
    <3>1. ItemOffset(state', cur') = BlockSize - (rem - n)
      BY <1>12, <2>1, OffsetAfterHeaderBytes
    <3>2. CASE state = ExpectingHeader
      <4>1. rem = BlockSize /\ BlockSize - BlockSize = 0
        BY <1>1, <1>2, <3>2 DEF ExpectingHeader, ReceivingHeader, ReceivingEof, St
      <4> QED
        BY <3>1, <3>2, <4>1, Offsets
    <3>3. CASE state = ReceivingHeader(rem, TRUE)
      BY <3>1, <3>3, Offsets
    <3> QED
      BY <1>13, <3>2, <3>3
  <2>4. ItemOffset(state', cur') = ItemOffset(state, cur) + Len(sent)
    BY <1>1, <1>5, <1>7, <1>9, <2>3
  <2>5. DoneInv' /\ ArchiveImage'
    <3>1. \A i : ByteOf(cur', head', i) = ZeroByte /\ ByteOf(cur, head, i) = ZeroByte
      BY <1>1, <1>10 DEF ByteOf
    <3> QED
      BY <1>1, <1>7, <1>9, <1>10, <2>4, <3>1, Extends
  <2> QED
    BY <1>11, <2>2, <2>5
<1>14. CASE state = ReceivingEof(rem)
  <2>1. state' = IF n < rem THEN ReceivingEof(rem - n) ELSE ReceivedEof
    <3>1. state.tag = "ReceivingEof"
      BY <1>14 DEF ReceivingEof, St
    <3>2. state # ExpectingHeader /\ state # ReceivingHeader(rem, TRUE)
      BY <3>1 DEF ExpectingHeader, ReceivingHeader, St
    <3> QED
      BY <1>4, <3>2, Zenon
  <2>2. StateInv'
    <3>1. state'.tag \in {"ReceivingEof", "ReceivedEof"}
      BY <2>1 DEF ReceivingEof, ReceivedEof, St
    <3> QED
      BY <1>10, <3>1
         DEF StateInv, BetweenEntries, InHeader, AtHeader, InData, InEnd
  <2>3. ItemOffset(state', cur') = ItemOffset(state, cur) + Len(sent)
    <3>1. /\ ItemOffset(state, cur) = EofLen - rem
          /\ n < rem => ItemOffset(state', cur') = EofLen - (rem - n)
          /\ ~ (n < rem) => ItemOffset(state', cur') = EofLen
      BY <1>14, <2>1, Offsets
    <3>2. EofLen \in Nat
      BY <1>1 DEF EofLen
    <3>3. CASE n < rem
      <4>1. EofLen - (rem - n) = (EofLen - rem) + n
        BY <1>5, <1>7, <3>2
      <4> QED
        BY <1>9, <3>1, <3>3, <4>1, Zenon
    <3>4. CASE ~ (n < rem)
      <4>1. EofLen = (EofLen - rem) + n
        BY <1>5, <1>7, <3>2, <3>4
      <4>2. ItemOffset(state', cur') = (EofLen - rem) + n
        BY <3>1, <3>4, <4>1, Zenon
      <4> QED
        BY <1>9, <3>1, <4>2, Zenon
    <3> QED
      BY <3>3, <3>4
  <2>4. DoneInv' /\ ArchiveImage'
    <3>1. \A i : ByteOf(cur', head', i) = ZeroByte /\ ByteOf(cur, head, i) = ZeroByte
      BY <1>1, <1>10 DEF ByteOf
    <3> QED
      BY <1>1, <1>7, <1>9, <1>10, <2>3, <3>1, Extends
  <2> QED
    BY <1>11, <2>2, <2>4
<1> QED
  BY <1>2, <1>13, <1>14

LEMMA FinishInv ==
  ASSUME IInv, FinishStep
  PROVE  CallInv' /\ StateInv' /\ DoneInv' /\ ArchiveImage'
<1>1. CASE EndWrite
  BY <1>1, EndWriteInv
<1>2. CASE EndStalls
  <2>1. PICK res \in IoFaults : PollWriteFails(Outgoing, res) /\ Leave(res)
    BY <1>2 DEF EndStalls
  <2>2. /\ WritesEnd /\ UNCHANGED <<handle, history>>
    BY <1>2 DEF EndStalls
  <2>3. /\ TypeOK /\ poll = "running" /\ cur = NoHeader /\ BlockSize \in Nat
        /\ state.tag # "ReceivedHeader"
    BY <2>2, EndFacts DEF WritesEnd
  <2>4. Image' = Image /\ state' = state
    BY <2>1, <2>3, WriteFailsFacts
  <2>5. ASSUME state.tag = "ReceivingHeader", state.rem # BlockSize
        PROVE  FALSE
    <3>1. state.rem \in 1 .. BlockSize /\ (state.rem < BlockSize => Len(data) = 0)
      BY <2>2, <2>5, EndFacts DEF ExpectingHeader, ReceivingHeader, ReceivingEof, St
    <3>2. Outgoing = Zeros(state.rem)
      BY <2>2, <2>5 DEF Outgoing, WritesEnd, Running
    <3>3. Outgoing \in Seq(Byte) /\ Len(Outgoing) = state.rem /\ state.rem < BlockSize
      BY <2>3, <2>5, <3>1, <3>2, ZerosType
    <3> QED
      BY <2>1, <2>3, <3>1, <3>3, NothingStalls
  <2> QED
    BY <2>1, <2>2, <2>3, <2>4, <2>5, LeaveInv
<1>3. CASE Shutdown \/ ShutdownStalls
  <2>1. /\ state' = state /\ UNCHANGED <<handle, history>>
        /\ poll = "running" /\ TypeOK
        /\ state.tag \notin {"ReceivingHeader", "ReceivedHeader", "ReceivingEof"}
    BY <1>3 DEF Shutdown, ShutdownStalls, Running, IInv, ReceivedEof, St
  <2>2. Flushed \/ \E res : FlushStops(res)
    BY <1>3 DEF Shutdown, ShutdownStalls
  <2>3. Image' = Image
    BY <2>1, <2>2, FlushedFacts, FlushStopsFacts
  <2>4. \E res : Leave(res)
    BY <1>3 DEF Shutdown, ShutdownStalls, Leave
  <2> QED
    BY <2>1, <2>3, <2>4, LeaveInv
<1>4. CASE FinishPanics
  BY <1>4, PanicInv DEF FinishPanics, Running
<1> QED
  BY <1>1, <1>2, <1>3, <1>4 DEF FinishStep


-----------------------------------------------------------------------------
(* What the task does between the steps of its calls.                      *)
LEMMA TaskInv ==
  ASSUME IInv, Task \/ Wake
  PROVE  CallInv' /\ StateInv' /\ DoneInv' /\ ArchiveImage'
<1> USE DEF archive, handle, history, control
<1>1. /\ TypeOK /\ CallInv /\ StateInv /\ DoneInv /\ ArchiveImage
      /\ told \in Nat /\ call.taken \in Nat /\ entry \in Header
      /\ entry # NoHeader => told + 0 <= entry.size
  <2>1. /\ TypeOK /\ CallInv /\ StateInv /\ DoneInv /\ ArchiveImage
        /\ told \in Nat /\ call.taken \in Nat /\ entry \in Header
    BY CallFacts DEF IInv
  <2>2. entry.size \in Int
    BY <2>1, HeaderFields DEF BadSize
  <2> QED
    BY <2>1, <2>2 DEF CallInv
<1>2. ASSUME panic = "none", poll \in {"idle", "parked"}, poll' # "gone",
             UNCHANGED <<archive, out, handle, history>>
      PROVE  StateInv' /\ DoneInv' /\ ArchiveImage'
  <2>1. StateInv'
    BY <1>1, <1>2, NothingHalfWritten, StateSame
  <2>2. Image' = Image /\ poll # "gone"
    BY <1>2 DEF Image, Unsent
  <2>3. DoneInv' /\ ArchiveImage'
    BY <1>1, <1>2, <2>2, ImageSame
  <2> QED
    BY <2>1, <2>3
<1>3. ASSUME NEW op \in {"add_entry", "write", "flush", "finish_entry", "finish"},
             NEW hdr \in Headers \cup {NoHeader}, NEW bufs \in Bufs \cup {NoBufs},
             Begin(op, hdr, bufs),
             entry = NoHeader <=> op \in {"add_entry", "finish"},
             op = "add_entry" => hdr \in Headers
      PROVE  CallInv' /\ StateInv' /\ DoneInv' /\ ArchiveImage'
  <2>1. /\ panic = "none" /\ poll = "idle" /\ poll' = "running" /\ panic' = panic
        /\ UNCHANGED <<archive, out, handle, history>>
        /\ call'.op = op /\ call'.hdr = hdr /\ call'.phase = "body"
        /\ call'.taken = 0
    BY <1>3 DEF Begin, Call
  <2>2. CallInv'
    BY <1>1, <1>3, <2>1 DEF CallInv, Busy
  <2> QED
    BY <1>2, <2>1, <2>2
<1>4. CASE \E h \in Headers : AddEntry(h)
  BY <1>3, <1>4 DEF AddEntry
<1>5. CASE \E bufs \in Bufs : Write(bufs)
  BY <1>3, <1>5 DEF Write
<1>6. CASE Flush \/ FinishEntry \/ Finish
  BY <1>3, <1>6 DEF Flush, FinishEntry, Finish
<1>7. CASE Wake
  <2>1. panic = "none"
    BY <1>1, <1>7 DEF Wake, CallInv
  <2>2. CallInv'
    BY <1>1, <1>7, <2>1 DEF Wake, CallInv, Busy
  <2> QED
    BY <1>2, <1>7, <2>1, <2>2 DEF Wake
<1>8. CASE Cancel
  <2>1. panic = "none"
    BY <1>1, <1>8 DEF Cancel, CallInv
  <2>2. /\ call' = NoCall /\ call'.op = "none" /\ call'.phase = "body"
        /\ call'.taken = 0 /\ poll' = "idle" /\ panic' = "none"
    BY <1>8, <2>1 DEF Cancel, Return, NoCall, Call
  <2>3. CallInv'
    BY <1>1, <1>8, <2>2 DEF Cancel, CallInv, Busy
  <2> QED
    BY <1>2, <1>8, <2>1, <2>2, <2>3 DEF Cancel
<1>9. CASE DropEntry
  <2>1. /\ entry' = NoHeader /\ poll' = poll /\ poll = "idle" /\ panic = "none"
        /\ UNCHANGED <<archive, out, control, history>>
    BY <1>9 DEF DropEntry
  <2>2. CallInv'
    BY <1>1, <2>1 DEF CallInv, Busy
  <2>3. StateInv'
    <3>1. Opening' = Opening
      BY <2>1 DEF Opening, Running
    <3> QED
      BY <1>1, <2>1, <3>1
         DEF StateInv, BetweenEntries, InHeader, AtHeader, InData, InEnd
  <2>4. Image' = Image
    BY <2>1 DEF Image, Unsent
  <2>5. DoneInv' /\ ArchiveImage'
    BY <1>1, <2>1, <2>4, ImageSame
  <2> QED
    BY <2>2, <2>3, <2>5
<1>10. CASE IntoInner
  <2>1. /\ poll = "idle" /\ panic = "none" /\ panic' = "none" /\ poll' = "gone"
        /\ entry = NoHeader /\ data' = <<>> /\ pos' = 0
        /\ UNCHANGED <<state, out, call, handle, history>>
    BY <1>10 DEF IntoInner
  <2>2. CallInv'
    BY <1>1, <2>1 DEF CallInv, Busy
  <2>3. StateInv'
    BY <1>1, <2>1, NothingHalfWritten, StateSame
  <2>4. Base' = Base /\ Total' = Total /\ \A k : EndOf(done[k])' = EndOf(done[k])
    BY <2>1 DEF Base, Total, EndOf
  <2>5. DoneInv'
    BY <1>1, <2>1, <2>4 DEF DoneInv
  <2>6. /\ out \in Seq(Byte) /\ Unsent \in Seq(Byte) /\ Len(out) \in Nat
        /\ Len(Image) = Len(out) + Len(Unsent) /\ Len(Unsent) \in Nat
        /\ \A i \in 1 .. Len(out) : Image[i] = out[i]
    <3>1. out \in Seq(Byte) /\ Unsent \in Seq(Byte)
      BY <1>1, UnsentType DEF TypeOK, StoreTypeOK
    <3> QED
      BY <3>1, ConcatProperties, LenProperties DEF Image
  <2>7. Image' = out
    <3>1. data' \in Seq(Byte) /\ Len(data') = 0
      BY <2>1, EmptySeq
    <3>2. Unsent' = <<>>
      BY <2>1, <3>1, SubSeqEmpty DEF Unsent
    <3> QED
      BY <2>1, <2>6, <3>2, ConcatEmptySeq DEF Image
  <2>8. Len(Image') <= Total'
    <3>1. Len(Image) = Total
      BY <1>1, <2>1 DEF ArchiveImage
    <3> QED
      BY <2>4, <2>6, <2>7, <3>1
  <2>9. ASSUME NEW i, i \in Nat \ {0}, NEW byte, Holds(i, byte)
        PROVE  i <= Len(Image') => Image'[i] = byte
    BY <2>6, <2>7, <2>9 DEF Holds
  <2>10. FinishedEntries'
    <3>1. ASSUME NEW k \in 1 .. Len(done), NEW i \in 1 .. EntryLen(done[k].hdr)
          PROVE  done[k].base + i \in Nat \ {0}
      BY <1>1, <3>1, DoneFacts
    <3> QED
      BY <1>1, <2>1, <2>4, <2>9, <3>1 DEF ArchiveImage, FinishedEntries, Holds
  <2>11. OpenItem'
    <3>1. ASSUME NEW i \in 1 .. ItemOffset(state, cur)
          PROVE  Base + i \in Nat \ {0}
      BY <1>1, DoneFacts, OffsetType
    <3>2. \A i : OpenByte(i)' = OpenByte(i)
      BY <2>1 DEF OpenByte
    <3> QED
      BY <1>1, <2>1, <2>4, <2>9, <3>1, <3>2 DEF ArchiveImage, OpenItem, Holds
  <2> QED
    BY <2>1, <2>2, <2>3, <2>5, <2>8, <2>10, <2>11 DEF ArchiveImage
<1> QED
  BY <1>4, <1>5, <1>6, <1>7, <1>8, <1>9, <1>10 DEF Task

LEMMA InitInv == Init => IInv
<1> SUFFICES ASSUME Init PROVE IInv
  OBVIOUS
<1>1. TypeOK
  BY InitTypes
<1>2. /\ state.tag = "ExpectingHeader" /\ call = NoCall /\ call.op = "none"
      /\ call.phase = "body" /\ poll = "idle" /\ panic = "none"
      /\ entry = NoHeader /\ cur = NoHeader /\ head = NoHeader /\ Len(done) = 0
  BY EmptySeq DEF Init, ExpectingHeader, St, NoCall, Call
<1>3. CallInv
  BY <1>2 DEF CallInv, Busy
<1>4. StateInv
  BY <1>2 DEF StateInv, BetweenEntries, InHeader, AtHeader, InData, InEnd
<1>5. DoneInv
  BY <1>2 DEF DoneInv
<1>6. ArchiveImage
  <2>1. Base = 0 /\ ItemOffset(state, cur) = 0
    BY Offsets DEF Init, Base
  <2>2. Len(Image) = 0
    <3>1. Len(out) = 0 /\ Len(data) = 0 /\ pos = 0
      BY EmptySeq DEF Init
    <3> QED
      BY <1>1, <3>1, UnsentType
  <2> QED
    BY <1>2, <2>1, <2>2 DEF ArchiveImage, FinishedEntries, OpenItem, Total
<1> QED
  BY <1>1, <1>3, <1>4, <1>5, <1>6 DEF IInv

LEMMA NextInv == IInv /\ [Next]_vars => IInv'
<1> SUFFICES ASSUME IInv, [Next]_vars PROVE IInv'
  OBVIOUS
<1>1. TypeOK'
  BY NextTypes DEF IInv
<1>2. CASE UNCHANGED vars
  <2>1. CallInv'
    BY <1>2 DEF vars, IInv, CallInv, Busy
  <2>2. StateInv'
    <3>1. Opening' = Opening
      BY <1>2 DEF vars, Opening, Running
    <3> QED
      BY <1>2, <3>1
         DEF vars, IInv, StateInv, BetweenEntries, InHeader, AtHeader, InData, InEnd
  <2>3. DoneInv'
    BY <1>2 DEF vars, IInv, DoneInv, EndOf, Base
  <2>4. ArchiveImage'
    BY <1>2 DEF vars, IInv, ArchiveImage, FinishedEntries, OpenItem, OpenByte,
                Holds, Total, Base, EndOf, Image, Unsent
  <2> QED
    BY <1>1, <2>1, <2>2, <2>3, <2>4 DEF IInv
<1>3. CASE Next
  <2>1. CallInv' /\ StateInv' /\ DoneInv' /\ ArchiveImage'
    BY <1>3, AddEntryInv, WriteInv, FinishEntryInv, FlushInv, FinishInv, TaskInv
       DEF Next, Step
  <2> QED
    BY <1>1, <2>1 DEF IInv
<1> QED
  BY <1>2, <1>3

(* The inductive invariant holds in every state that can be reached.       *)
THEOREM InvariantHolds == Spec => []IInv
  BY InitInv, NextInv, PTL DEF Spec

-----------------------------------------------------------------------------
(* The bytes that the object has and those in the buffer are the finished  *)
(* entries and the first bytes of the open one: nothing is lost, repeated, *)
(* moved or written past its place, whatever the object takes or refuses   *)
(* and whichever calls are given up (poll_write_vectored, mod.rs:216).     *)
THEOREM ArchiveIsLaidOut == Spec => []ArchiveImage
<1>1. IInv => ArchiveImage
  BY DEF IInv
<1> QED
  BY <1>1, InvariantHolds, PTL

(* A handle is of the entry in the archive, behind its own header or one   *)
(* that was refused for its size (poll_write_header, write/mod.rs:28).     *)
THEOREM HandleMatchesArchive == Spec => []HandleIsOfArchive
<1>1. IInv => HandleIsOfArchive
  <2> SUFFICES ASSUME IInv, entry # NoHeader PROVE HandleIsOfArchive
    BY DEF HandleIsOfArchive
  <2>1. /\ GoodState(state) /\ StateInv
    BY CallFacts DEF IInv
  <2>2. CASE state.tag = "ExpectingHeader"
    BY <2>1, <2>2 DEF StateInv, BetweenEntries, HandleIsOfArchive
  <2>3. CASE state.tag \in {"ReceivingData", "ReceivedData", "AligningData",
                            "AlignedData"}
    BY <2>1, <2>3 DEF StateInv, InData, HandleIsOfArchive, Behind
  <2>4. state.tag \notin {"ReceivingHeader", "ReceivedHeader", "ReceivingEof",
                          "ReceivedEof"}
    BY <2>1 DEF StateInv, InHeader, AtHeader, InEnd
  <2> QED
    BY <2>1, <2>2, <2>3, <2>4 DEF GoodState, StateType, Tags
<1> QED
  BY <1>1, InvariantHolds, PTL

(* The lengths a task was told never exceed the entry's size, and while    *)
(* data is missing they are what State has counted (write/mod.rs:67).      *)
THEOREM ToldAgreesWithState == Spec => []ToldIsTaken
<1>1. IInv => ToldIsTaken
  <2> SUFFICES ASSUME IInv, entry # NoHeader PROVE ToldIsTaken
    BY DEF ToldIsTaken
  <2>1. told <= entry.size
    <3>1. told \in Nat /\ call.taken \in Nat /\ entry.size \in Int
      BY CallFacts, HeaderFields DEF IInv, BadSize
    <3> QED
      BY <3>1 DEF IInv, CallInv
  <2>2. state.tag = "ReceivingData" => told = entry.size - state.rem
    BY DEF IInv, StateInv, InData
  <2> QED
    BY <2>1, <2>2 DEF ToldIsTaken
<1> QED
  BY <1>1, InvariantHolds, PTL

(* No poll leaves a header, or the first block of the end marker, half     *)
(* written (poll_write_header and poll_finish, write/mod.rs:28, 150).      *)
THEOREM NoBlockIsHalfWritten == Spec => []BlocksAreWhole
<1>1. IInv => BlocksAreWhole
  <2> SUFFICES ASSUME IInv, poll # "running", panic = "none",
                      state.tag = "ReceivingHeader"
               PROVE  state.rem = BlockSize
    BY DEF BlocksAreWhole
  <2> QED
    BY NothingHalfWritten DEF IInv
<1> QED
  BY <1>1, InvariantHolds, PTL

(* Ok of a flush, an Entry::finish or a finish means that the object has   *)
(* all that was written, and the entry that was finished is sealed         *)
(* (write/mod.rs:287, 320).                                                *)
THEOREM OkMeansDelivered == Spec => []FlushDelivers
<1>1. Init => FlushDelivers
  BY DEF Init, FlushDelivers
<1>2. IInv /\ IInv' /\ FlushDelivers /\ [Next]_vars => FlushDelivers'
  <2> SUFFICES ASSUME IInv, IInv', FlushDelivers, [Next]_vars,
                      poll' \in {"idle", "gone"}, panic' = "none", ret'.res = "ok"
               PROVE  /\ ret'.op \in {"flush", "finish_entry", "finish"}
                           => Len(out') = Total'
                      /\ ret'.op = "finish_entry" => state' = ExpectingHeader
    BY DEF FlushDelivers
  <2>1. CASE /\ poll \in {"idle", "gone"} /\ ret' = ret /\ panic' = panic
             /\ UNCHANGED <<state, out, cur, done>>
    BY <2>1 DEF FlushDelivers, Total, Base, EndOf
  <2>2. TypeOK /\ TypeOK' /\ ArchiveImage' /\ CallInv
    BY DEF IInv
  <2>3. ASSUME Flushed, poll' # "gone" PROVE Len(out') = Total'
    <3>1. out' = Image'
      BY <2>2, <2>3, FlushedFacts
    <3> QED
      BY <2>2, <2>3, <3>1 DEF ArchiveImage
  <2>4. ASSUME poll = "running"
        PROVE  /\ ~ Continue /\ ~ Park
               /\ \A what : Panic(what) => what = "none"
               /\ \A res \in IoFaults : ~ Leave(res)
               /\ \A res, n : Return(res, n) => ret'.op = call.op /\ res = "ok"
    BY <2>4 DEF Continue, control, Park, Panic, Leave, Return, Ret, IoFaults
  <2>5. CASE AddEntryStep
    <3>1. call.op = "add_entry" /\ poll = "running"
      BY <2>5 DEF AddEntryStep, HeaderWrite, HeaderStalls, HeaderOpensEntry,
                  HeaderOverlaps, HeaderPanics, WritesHeader, Running
    <3>2. \E res, n : Return(res, n)
      BY <2>4, <2>5, <3>1 DEF AddEntryStep, HeaderWrite, HeaderStalls,
                  HeaderOpensEntry, HeaderOverlaps, HeaderPanics
    <3> QED
      BY <2>4, <3>1, <3>2
  <2>6. CASE WriteStep
    <3>1. call.op = "write" /\ poll = "running"
      BY <2>6 DEF WriteStep, EntryWrite, EntryStalls, EntryWritePanics, Running
    <3>2. \E res, n : Return(res, n)
      BY <2>4, <2>6, <3>1 DEF WriteStep, EntryWrite, EntryStalls, EntryWritePanics
    <3> QED
      BY <2>4, <3>1, <3>2
  <2>7. CASE FinishEntryStep
    <3>1. call.op \in {"write", "finish_entry"} /\ poll = "running"
      BY <2>7 DEF FinishEntryStep, AlignBegins, AlignWrite, AlignStalls, AlignEnds,
                  AlignedAlready, AlignPanics, Finishing, Running
    <3>2. call.op = "write" /\ \E res, n : Return(res, n)
      BY <2>4, <2>7, <3>1
         DEF FinishEntryStep, AlignBegins, AlignWrite, AlignStalls, AlignEnds,
             AlignedAlready, AlignPanics, EntryFinished, Continue
    <3> QED
      BY <2>4, <3>1, <3>2
  <2>8. CASE FlushStep
    <3>1. /\ poll = "running" /\ state' = state
          /\ Flushing
      BY <2>8 DEF FlushStep, FlushReturns, FlushStalls, Flushing, Running
    <3>2. FlushReturns
      BY <2>4, <2>8, <3>1, FlagsAssumption DEF FlushStep, FlushStalls
    <3>3. /\ Flushed /\ poll' # "gone" /\ ret'.op = call.op
      BY <2>4, <3>1, <3>2 DEF FlushReturns, Return
    <3>4. call.op = "finish_entry" => state = ExpectingHeader
      BY <2>2, <3>1 DEF Flushing, Running, CallInv
    <3> QED
      BY <2>3, <3>1, <3>3, <3>4
  <2>9. CASE FinishStep
    <3>1. call.op = "finish" /\ poll = "running"
      BY <2>9 DEF FinishStep, EndWrite, EndStalls, Shutdown, ShutdownStalls,
                  FinishPanics, WritesEnd, Running
    <3>2. Shutdown
      BY <2>4, <2>9, <3>1, FlagsAssumption
         DEF FinishStep, EndWrite, EndStalls, ShutdownStalls, FinishPanics, Continue
    <3>3. Flushed /\ poll' # "gone" /\ ret'.op = call.op
      BY <2>4, <3>1, <3>2 DEF Shutdown, Return
    <3> QED
      BY <2>3, <3>1, <3>3
  <2>10. CASE Task \/ Wake
    <3>1. CASE DropEntry \/ IntoInner
      BY <2>1, <3>1 DEF DropEntry, IntoInner, archive, control, history
    <3>2. ~ Cancel
      BY DEF Cancel, Return, Ret
    <3>3. ~ Wake /\ \A op, hdr, bufs : ~ Begin(op, hdr, bufs)
      BY DEF Wake, Begin
    <3> QED
      BY <2>10, <3>1, <3>2, <3>3 DEF Task, AddEntry, Write, Flush, FinishEntry, Finish
  <2>11. CASE UNCHANGED vars
    BY <2>1, <2>11 DEF vars
  <2> QED
    BY <2>5, <2>6, <2>7, <2>8, <2>9, <2>10, <2>11 DEF Next, Step
<1> QED
  BY <1>1, <1>2, InvariantHolds, PTL DEF Spec

-----------------------------------------------------------------------------
(* A careful task.  A header is finalised by set_cksum, as lib.rs:22 shows *)
(* and lib.rs:218 asserts: the checksum is not zero, nor is every byte.    *)
Finalised == \A h \in Headers : h.sum # "zero" /\ h.lead < BlockSize

(* What State is when no call of a careful task is in progress and the     *)
(* last one did not fail: the entry still needs data, or is complete, or   *)
(* has none and was never written to, or was left unaligned by an error    *)
(* that a release build dropped.                                           *)
Unaligned == /\ state.tag = "AligningData" /\ ~ Debug
             /\ Faults \cap {"ioerror", "writezero"} # {}
Unwritten == state.tag = "ReceivingData" /\ state.rem = 0 /\ cur.size = 0
Owed      == state.tag = "ReceivingData" /\ (state.rem > 0 \/ entry.size = 0)

HandleRests ==
  \/ Owed
  \/ told = entry.size /\ (state.tag = "ExpectingHeader" \/ Unaligned)

Rests ==
  IF entry # NoHeader THEN HandleRests
  ELSE \/ state.tag = "ExpectingHeader" \/ Unaligned \/ Unwritten
       \/ state.tag = "ReceivedEof" /\ shut

(* What it is while a call of a careful task is in progress or parked.     *)
InAddEntry ==
  \/ state.tag \in {"ExpectingHeader", "ReceivedHeader", "ReceivingData", "AligningData"}
  \/ /\ state.tag = "ReceivingHeader"
     /\ state.empty => call.hdr.lead > 0 /\ Vectored

WriteStands ==
  \/ Owed
  \/ state.tag = "AligningData" /\ told < entry.size /\ "pending" \in Faults

WriteOfNothing ==
  /\ call.bufs.len = 0 /\ told = entry.size
  /\ state.tag = "ExpectingHeader" \/ Unaligned

InWrite ==
  /\ told + call.bufs.len <= entry.size
  /\ call.phase = "body"  => WriteStands \/ WriteOfNothing
  /\ call.phase = "align" =>
       /\ state.tag # "ReceivingData" /\ told + call.taken = entry.size
       /\ told < entry.size \/ entry.size = 0

InFinishEntry == told = entry.size /\ (state.tag # "ReceivingData" \/ Unwritten)

InFinish ==
  \/ state.tag \in {"ExpectingHeader", "ReceivingEof", "ReceivedEof"}
  \/ state.tag = "ReceivingHeader" /\ state.empty
  \/ Unaligned \/ Unwritten

CarefulCall ==
  /\ call.op = "add_entry"    => InAddEntry
  /\ call.op = "write"        => InWrite
  /\ call.op = "flush"        => HandleRests
  /\ call.op = "finish_entry" => InFinishEntry
  /\ call.op = "finish"       => InFinish

CarefulInv ==
  Careful =>
    /\ poll = "idle" /\ panic = "none" /\ ~ Failed => Rests
    /\ Busy => CarefulCall
    /\ CarefulPanics

(* How a step ends: the call returns, panics, leaves or goes on.           *)
LEMMA CarefulReturns ==
  ASSUME poll = "running", TypeOK, CallInv, NEW res, NEW n, Return(res, n),
         res \in {"badheader", "overlap", "ioerror", "writezero"} \/ Rests'
  PROVE  CarefulInv'
<1>1. poll' = "idle" /\ panic' = "none" /\ ret'.res = res
  BY BusyFacts DEF Return, Ret
<1> QED
  BY <1>1 DEF CarefulInv, CarefulPanics, Failed, Busy

LEMMA CarefulPanicked ==
  ASSUME NEW what, what # "none", Panic(what), CarefulPanics'
  PROVE  CarefulInv'
  BY DEF Panic, CarefulInv, Busy

LEMMA CarefulContinues ==
  ASSUME poll = "running", TypeOK, CallInv, Continue, Careful => CarefulCall'
  PROVE  CarefulInv'
<1>1. panic' = "none" /\ poll' = "running"
  BY BusyFacts DEF Continue, control
<1> QED
  BY <1>1 DEF CarefulInv, CarefulPanics

LEMMA CarefulLeaves ==
  ASSUME poll = "running", TypeOK, CallInv, CarefulInv, Careful,
         NEW res \in IoFaults, Leave(res), state' = state, cur' = cur, UNCHANGED handle,
         call.op = "write" /\ res = "pending" => WriteStands
  PROVE  CarefulInv'
<1>1. CarefulCall /\ panic = "none" /\ call \in CallType
  BY BusyFacts, CallFacts DEF CarefulInv
<1>2. CASE res # "pending"
  <2>1. Return(res, 0) /\ res \in {"ioerror", "writezero"}
    BY <1>2 DEF Leave, IoFaults
  <2> QED
    BY <2>1, CarefulReturns
<1>3. CASE res = "pending"
  <2>1. /\ poll' = "parked" /\ panic' = "none" /\ entry' = entry /\ told' = told
        /\ call'.op = call.op /\ call'.hdr = call.hdr /\ call'.bufs = call.bufs
        /\ call'.phase = "body"
    BY <1>1, <1>3 DEF Leave, Park, CallType, handle
  <2>2. /\ Unaligned' = Unaligned /\ Unwritten' = Unwritten /\ Owed' = Owed
        /\ HandleRests' = HandleRests /\ WriteStands' = WriteStands
    BY <2>1 DEF Unaligned, Unwritten, Owed, HandleRests, WriteStands
  <2>3. CarefulCall'
    <3>1. call'.op = "write" => InWrite'
      BY <1>1, <1>3, <2>1, <2>2 DEF CarefulCall, InWrite
    <3> QED
      BY <1>1, <2>1, <2>2, <3>1 DEF CarefulCall, InAddEntry, InFinishEntry, InFinish
  <2> QED
    BY <2>1, <2>3 DEF CarefulInv, CarefulPanics
<1> QED
  BY <1>2, <1>3

(* What holds when a step of a careful task's call begins.                 *)
LEMMA CarefulFacts ==
  ASSUME IInv, Careful, CarefulInv, poll = "running"
  PROVE  /\ TypeOK /\ CallInv /\ StateInv /\ GoodState(state)
         /\ panic = "none" /\ CarefulCall
         /\ call \in CallType /\ told \in Nat /\ entry.size \in Int
         /\ entry = NoHeader <=> call.op \in {"add_entry", "finish"}
  BY BusyFacts, CallFacts, HeaderFields DEF IInv, CarefulInv, BadSize

LEMMA CarefulAddEntry ==
  ASSUME IInv, Careful, Finalised, CarefulInv, AddEntryStep
  PROVE  CarefulInv'
<1>1. poll = "running" /\ call.op = "add_entry"
  BY DEF AddEntryStep, HeaderWrite, HeaderStalls, HeaderOpensEntry, HeaderOverlaps,
         HeaderPanics, WritesHeader, Running
<1>2. /\ TypeOK /\ CallInv /\ panic = "none" /\ InAddEntry /\ entry = NoHeader
      /\ call.hdr \in Headers /\ call.hdr \in Header /\ call.hdr # NoHeader
      /\ BlockSize \in Nat
  BY <1>1, CarefulFacts, BusyFacts, CallFacts, BlockFacts DEF CarefulCall
<1>3. CASE HeaderWrite
  <2>1. PICK n \in 0 .. BlockSize :
          /\ PollWriteVectored(Outgoing, Len(Outgoing), call.hdr, n)
          /\ IF n = 0 THEN Return("writezero", 0) ELSE Continue
    BY <1>3 DEF HeaderWrite
  <2>2. CASE n = 0
    BY <1>1, <1>2, <2>1, <2>2, CarefulReturns
  <2>3. CASE n # 0
    <3> DEFINE off == ItemOffset(state, cur)
               b == Outgoing
               sent == SubSeq(b, 1, n)
    <3>1. /\ n # Len(b) => Len(b) = BlockSize /\ Vectored
          /\ \A i \in 1 .. n : sent[i] = HeaderByte(call.hdr, off + i)
          /\ Len(sent) = n
      BY <1>3, <2>1, HeaderWriteState DEF HeaderWrite
    <3>2. PICK rem \in 0 .. BlockSize, z \in BOOLEAN :
            /\ state' = AfterHeaderBytes(rem, z)
            /\ z => AllZero(sent)
            /\ rem = 0 /\ z => off = 0 /\ n = BlockSize
            /\ rem > 0 => n # Len(b)
      BY <1>3, <2>1, HeaderWriteState DEF HeaderWrite
    <3>3. off \in 0 .. BlockSize
      BY <1>3, HeaderOutgoing DEF HeaderWrite
    <3> HIDE DEF b, off, sent
    <3>4. ASSUME z, NEW i \in 1 .. n PROVE off + i <= call.hdr.lead
      <4>1. HeaderByte(call.hdr, off + i) = ZeroByte
        BY <3>1, <3>2, <3>4 DEF AllZero
      <4> QED
        BY <4>1 DEF HeaderByte, ZeroByte
    <3>5. call.hdr.lead \in Nat /\ call.hdr.lead < BlockSize /\ off \in Nat
      BY <1>2, <3>3, HeaderFields DEF Finalised
    <3>6. CASE rem > 0
      <4>1. state' = ReceivingHeader(rem, z)
        BY <3>2, <3>6 DEF AfterHeaderBytes
      <4>2. z => call.hdr.lead > 0
        <5>1. 1 \in 1 .. n
          BY <2>3
        <5> QED
          BY <3>4, <3>5, <5>1
      <4>3. Vectored
        BY <3>1, <3>2, <3>6
      <4> QED
        BY <1>1, <1>2, <2>1, <2>3, <4>1, <4>2, <4>3, CarefulContinues
           DEF Continue, control, CarefulCall, InAddEntry, ReceivingHeader, St
    <3>7. CASE rem = 0
      <4>1. ~ z
        <5>1. z => off + n <= call.hdr.lead
          <6>1. n \in 1 .. n
            BY <2>3
          <6> QED
            BY <3>4, <6>1
        <5> QED
          BY <1>2, <3>2, <3>5, <3>7, <5>1
      <4>2. state' = ReceivedHeader
        BY <3>2, <3>7, <4>1 DEF AfterHeaderBytes
      <4> QED
        BY <1>1, <1>2, <2>1, <2>3, <4>2, CarefulContinues
           DEF Continue, control, CarefulCall, InAddEntry, ReceivedHeader, St
    <3> QED
      BY <3>6, <3>7
  <2> QED
    BY <2>2, <2>3
<1>4. CASE HeaderStalls
  <2>1. PICK res \in IoFaults : PollWriteFails(Outgoing, res) /\ Leave(res)
    BY <1>4 DEF HeaderStalls
  <2>2. state' = state /\ cur' = cur /\ UNCHANGED handle
    BY <1>2, <1>4, <2>1, WriteFailsFacts DEF HeaderStalls, history
  <2> QED
    BY <1>1, <1>2, <2>1, <2>2, CarefulLeaves
<1>5. CASE HeaderOpensEntry
  <2>1. CASE \E res \in {"badheader"} : Return(res, 0)
    BY <1>1, <1>2, <2>1, CarefulReturns
  <2>2. CASE /\ TarNext(state, <<>>, call.hdr).err = "none"
             /\ state' = TarNext(state, <<>>, call.hdr).state
             /\ Return("ok", 0) /\ entry' = call.hdr /\ told' = 0
    <3>1. state = ReceivedHeader /\ state.tag = "ReceivedHeader"
      BY <1>5 DEF HeaderOpensEntry, ReceivedHeader, St
    <3>2. state' = ReceivingData(call.hdr.size) /\ call.hdr.size # BadSize
      BY <1>2, <2>2, <3>1 DEF TarNext, NextOfEntry, Result, Failure
    <3>3. call.hdr.size \in Nat
      BY <1>2, <3>2, HeaderFields
    <3>4. Rests'
      BY <1>2, <2>2, <3>2, <3>3 DEF Rests, HandleRests, Owed, ReceivingData, St
    <3> QED
      BY <1>1, <1>2, <2>2, <3>4, CarefulReturns
  <2> QED
    BY <1>2, <1>5, <2>1, <2>2 DEF HeaderOpensEntry, Finalised
<1>6. CASE HeaderOverlaps
  BY <1>1, <1>2, <1>6, CarefulReturns DEF HeaderOverlaps
<1>7. CASE HeaderPanics
  <2>1. Panic("state") /\ state' = state /\ call' = call
    BY <1>7 DEF HeaderPanics, Panic, archive
  <2>2. state.tag = "ReceivingHeader" /\ call.hdr.lead > 0 /\ Vectored
    BY <1>2, <1>7 DEF HeaderPanics, InAddEntry
  <2>3. CarefulPanics'
    BY <1>1, <2>1, <2>2 DEF CarefulPanics, HeaderIsCut, Panic
  <2> QED
    BY <2>1, <2>3, CarefulPanicked
<1> QED
  BY <1>3, <1>4, <1>5, <1>6, <1>7 DEF AddEntryStep

LEMMA CarefulWrite ==
  ASSUME IInv, Careful, CarefulInv, WriteStep
  PROVE  CarefulInv'
<1>1. poll = "running" /\ call.op = "write" /\ call.phase = "body"
  BY DEF WriteStep, EntryWrite, EntryStalls, EntryWritePanics, Running
<1>2. /\ TypeOK /\ CallInv /\ panic = "none" /\ InWrite /\ (WriteStands \/ WriteOfNothing)
      /\ entry # NoHeader /\ told \in Nat /\ entry.size \in Int /\ call \in CallType
      /\ GoodState(state)
  BY <1>1, CarefulFacts DEF CarefulCall, InWrite
<1>3. state.tag = "ReceivingData" => Owed
  BY <1>2 DEF WriteStands, WriteOfNothing, Owed, Unaligned
<1>4. CASE EntryWrite
  <2> DEFINE rem == state.rem
             len == call.bufs.len
             size == entry.size
  <2>1. PICK n \in 0 .. PrefixLen(call.bufs) :
          /\ PollWriteVectored(Outgoing, Whole(call.bufs), entry, n)
          /\ IF n # rem
             THEN Return("ok", n) /\ told' = told + n
             ELSE /\ UNCHANGED told
                  /\ IF Debug /\ len # n
                     THEN Panic("debug")
                     ELSE /\ call' = [call EXCEPT !.phase = "align", !.taken = n]
                          /\ UNCHANGED <<poll, ret, panic>>
    BY <1>4 DEF EntryWrite
  <2>2. /\ Running("write", "body") /\ state.tag = "ReceivingData" /\ entry' = entry
    BY <1>4 DEF EntryWrite
  <2>3. /\ rem \in Nat /\ n \in Nat /\ n <= rem /\ told = cur.size - rem
        /\ state' = IF n < rem THEN ReceivingData(rem - n) ELSE ReceivedData
    BY <2>1, <2>2, DataWriteState
  <2>4. entry = cur /\ cur.size \in Nat
    BY <1>1, <1>2, <2>2, HandleFacts
  <2>5. n <= len /\ len \in Nat /\ told + len <= size
    <3>1. PrefixLen(call.bufs) <= len /\ len \in Nat /\ PrefixLen(call.bufs) \in Nat
      BY <1>2, CallFacts, PrefixLenType
    <3> HIDE DEF len, size
    <3>2. n <= len
      BY <2>3, <3>1
    <3> QED
      BY <1>2, <3>1, <3>2 DEF InWrite, len, size
  <2>6. told = size - rem /\ size \in Nat /\ (rem > 0 \/ size = 0)
    BY <1>3, <2>2, <2>3, <2>4 DEF Owed
  <2> HIDE DEF rem, len, size
  <2>7. CASE n # rem
    <3>1. n < rem /\ rem - n > 0
      BY <2>3, <2>7
    <3>2. state' = ReceivingData(rem - n)
      BY <2>3, <3>1
    <3>3. Rests'
      BY <1>2, <2>2, <3>1, <3>2 DEF Rests, HandleRests, Owed, ReceivingData, St
    <3> QED
      BY <1>1, <1>2, <2>1, <2>7, <3>3, CarefulReturns
  <2>8. CASE n = rem
    <3>1. len = n /\ told + n = size /\ (told < size \/ size = 0)
      <4>1. rem \in Nat /\ len \in Nat /\ size \in Nat /\ told = size - rem
            /\ rem <= len /\ told + len <= size /\ (rem > 0 \/ size = 0)
        BY <2>3, <2>5, <2>6, <2>8
      <4>2. len = rem /\ told + rem = size /\ (told < size \/ size = 0)
        BY <4>1
      <4> QED
        BY <2>8, <4>2
    <3>2. /\ call' = [call EXCEPT !.phase = "align", !.taken = n]
          /\ UNCHANGED <<poll, ret, panic, told>>
      BY <2>1, <2>8, <3>1
    <3>3. /\ call'.op = "write" /\ call'.bufs = call.bufs
          /\ call'.phase = "align" /\ call'.taken = n
      BY <1>1, <1>2, <3>2 DEF CallType
    <3>4. state'.tag # "ReceivingData"
      BY <2>3, <2>8 DEF ReceivedData, St
    <3>5. CarefulCall'
      BY <1>2, <2>2, <3>1, <3>2, <3>3, <3>4 DEF CarefulCall, InWrite, size
    <3> QED
      BY <1>1, <1>2, <3>2, <3>5 DEF CarefulInv, CarefulPanics
  <2> QED
    BY <2>7, <2>8
<1>5. CASE EntryStalls
  <2>1. PICK res \in IoFaults : PollWriteFails(Outgoing, res) /\ Leave(res)
    BY <1>5 DEF EntryStalls
  <2>2. state' = state /\ cur' = cur /\ UNCHANGED handle /\ WriteStands
    BY <1>3, <1>2, <1>5, <2>1, WriteFailsFacts DEF EntryStalls, history, WriteStands
  <2> QED
    BY <1>1, <1>2, <2>1, <2>2, CarefulLeaves
<1>6. CASE EntryWritePanics
  <2>1. Panic("state") /\ state' = state /\ call' = call /\ entry' = entry /\ told' = told
    BY <1>6 DEF EntryWritePanics, Panic, archive, handle
  <2>2. panic' = "state"
    BY <2>1 DEF Panic
  <2>3. CASE WriteStands
    <3>1. state.tag = "AligningData" /\ told < entry.size /\ "pending" \in Faults
      BY <1>6, <2>3 DEF EntryWritePanics, WriteStands, Owed
    <3> QED
      BY <1>1, <2>1, <2>2, <3>1, CarefulPanicked DEF CarefulPanics, RepeatsTakenWrite
  <2>4. CASE WriteOfNothing
    <3>1. AlignmentFailed' \/ NothingIsWritten'
      BY <1>1, <2>1, <2>2, <2>4
         DEF WriteOfNothing, Unaligned, AlignmentFailed, NothingIsWritten
    <3> QED
      BY <2>1, <3>1, CarefulPanicked DEF CarefulPanics
  <2> QED
    BY <1>2, <2>3, <2>4
<1> QED
  BY <1>4, <1>5, <1>6 DEF WriteStep

(* Nothing is held up by a write of nothing.                               *)
LEMMA EmptyNeverStalls ==
  ASSUME TypeOK, NEW b \in Seq(Byte), NEW res, Len(b) = 0
  PROVE  ~ PollWriteFails(b, res)
<1>1. /\ Capacity \in Nat /\ Capacity > 0 /\ Len(data) \in Nat /\ Len(data) <= Capacity
  BY BlockFacts, LenProperties DEF TypeOK, StoreTypeOK
<1>2. ~ Direct(b) /\ ~ NeedsFlush(b)
  BY <1>1 DEF Direct, NeedsFlush
<1> QED
  BY <1>2 DEF PollWriteFails

LEMMA CarefulFinished ==
  ASSUME IInv, Careful, CarefulInv, Finishing, EntryFinished,
         state'.tag = "ExpectingHeader", entry' = entry
  PROVE  CarefulInv'
<1>1. poll = "running" /\ call.op \in {"write", "finish_entry"}
  BY DEF Finishing, Running
<1>2. /\ TypeOK /\ CallInv /\ panic = "none" /\ CarefulCall /\ call \in CallType
      /\ entry # NoHeader
  BY <1>1, CarefulFacts
<1>3. CASE call.op = "write"
  <2>1. InWrite /\ call.phase = "align"
    BY <1>2, <1>3 DEF Finishing, Running, CarefulCall
  <2>2. Return("ok", call.taken) /\ told' = entry.size
    BY <1>3, <2>1 DEF EntryFinished, InWrite
  <2>3. Rests'
    BY <1>2, <2>2 DEF Rests, HandleRests
  <2> QED
    BY <1>1, <1>2, <2>2, <2>3, CarefulReturns
<1>4. CASE call.op = "finish_entry"
  <2>1. call' = [call EXCEPT !.phase = "flush"] /\ UNCHANGED <<poll, ret, panic, told>>
    BY <1>4 DEF EntryFinished
  <2>2. call'.op = "finish_entry"
    BY <1>2, <1>4, <2>1 DEF CallType
  <2>3. CarefulCall'
    BY <1>2, <1>4, <2>1, <2>2 DEF CarefulCall, InFinishEntry
  <2> QED
    BY <1>1, <1>2, <2>1, <2>3 DEF CarefulInv, CarefulPanics
<1> QED
  BY <1>1, <1>3, <1>4

LEMMA CarefulAlignStalls ==
  ASSUME IInv, Careful, CarefulInv, AlignStalls
  PROVE  CarefulInv'
<1>1. /\ poll = "running" /\ call.op \in {"write", "finish_entry"}
      /\ state.tag = "AligningData" /\ Finishing
  BY DEF AlignStalls, Finishing, Running
<1>2. /\ TypeOK /\ CallInv /\ panic = "none" /\ CarefulCall /\ StateInv
      /\ entry # NoHeader /\ state.rem \in Nat
  BY <1>1, CarefulFacts, CallFacts
<1>3. PICK res \in IoFaults :
        /\ PollWriteFails(Outgoing, res)
        /\ IF call.op = "write" /\ res # "pending"
           THEN IF Debug THEN Panic("debug") /\ UNCHANGED told
                ELSE Return("ok", call.taken) /\ told' = told + call.taken
           ELSE Leave(res) /\ UNCHANGED told
  BY DEF AlignStalls
<1>4. state' = state /\ cur' = cur /\ entry' = entry /\ res \in Faults
  BY <1>2, <1>3, WriteFailsFacts DEF AlignStalls, PollWriteFails, FlushStops, history
<1>5. entry.size \in Nat /\ entry.size > 0
  <2>1. Outgoing = Zeros(state.rem)
    BY <1>1 DEF Outgoing, Finishing, Running
  <2>2. state.rem > 0
    <3>1. state.rem # 0
      BY <1>2, <1>3, <2>1, ZerosType, EmptyNeverStalls
    <3> QED
      BY <1>2, <3>1
  <2>3. entry = cur /\ cur.size \in Nat /\ state.rem <= Align(cur.size)
    BY <1>1, <1>2, HandleFacts DEF StateInv, InData
  <2>4. Align(0) = 0
    BY BlockFacts DEF Align
  <2> QED
    BY <1>2, <2>2, <2>3, <2>4
<1>6. CASE call.op = "write" /\ res # "pending"
  <2>1. Faults \cap {"ioerror", "writezero"} # {}
    BY <1>3, <1>4, <1>6 DEF IoFaults
  <2>2. InWrite /\ call.phase = "align"
    BY <1>1, <1>2, <1>6 DEF Finishing, Running, CarefulCall
  <2>3. CASE Debug
    <3>1. Panic("debug")
      BY <1>3, <1>6, <2>3
    <3>2. CarefulPanics'
      BY <1>1, <1>4, <2>1, <2>3, <3>1 DEF CarefulPanics, AlignmentFailed, Panic
    <3> QED
      BY <3>1, <3>2, CarefulPanicked
  <2>4. CASE ~ Debug
    <3>1. Return("ok", call.taken) /\ told' = entry.size
      BY <1>3, <1>6, <2>2, <2>4 DEF InWrite
    <3>2. Rests'
      BY <1>1, <1>2, <1>4, <1>5, <2>1, <2>4, <3>1 DEF Rests, HandleRests, Unaligned
    <3> QED
      BY <1>1, <1>2, <3>1, <3>2, CarefulReturns
  <2> QED
    BY <2>3, <2>4
<1>7. CASE ~ (call.op = "write" /\ res # "pending")
  <2>1. Leave(res) /\ UNCHANGED handle
    BY <1>3, <1>4, <1>7 DEF handle
  <2>2. call.op = "write" /\ res = "pending" => WriteStands
    BY <1>1, <1>2, <1>4, <1>5 DEF CarefulCall, InWrite, WriteStands, Finishing, Running
  <2> QED
    BY <1>1, <1>2, <1>3, <1>4, <2>1, <2>2, CarefulLeaves
<1> QED
  BY <1>6, <1>7

LEMMA CarefulFinishEntry ==
  ASSUME IInv, Careful, CarefulInv, FinishEntryStep
  PROVE  CarefulInv'
<1>1. /\ Finishing /\ poll = "running" /\ call.op \in {"write", "finish_entry"}
      /\ call.op = "write" => call.phase = "align"
  BY DEF FinishEntryStep, AlignBegins, AlignWrite, AlignStalls, AlignEnds,
         AlignedAlready, AlignPanics, Finishing, Running
<1>2. /\ TypeOK /\ CallInv /\ panic = "none" /\ CarefulCall /\ GoodState(state)
      /\ entry # NoHeader
  BY <1>1, CarefulFacts
<1>3. ASSUME Continue, UNCHANGED handle, state'.tag # "ReceivingData" PROVE CarefulInv'
  <2>1. CarefulCall'
    BY <1>1, <1>2, <1>3
       DEF CarefulCall, InWrite, InFinishEntry, Continue, control, handle
  <2> QED
    BY <1>1, <1>2, <1>3, <2>1, CarefulContinues
<1>4. CASE AlignBegins
  <2>1. /\ state = ReceivedData /\ state' = TarNext(state, <<>>, entry).state
        /\ Continue /\ UNCHANGED handle
    BY <1>4 DEF AlignBegins, Continue
  <2>2. state'.tag # "ReceivingData"
    <3>1. state.tag = "ReceivedData"
      BY <2>1 DEF ReceivedData, St
    <3> QED
      BY <2>1, <3>1 DEF TarNext, NextOfEntry, Result, Failure, AligningData, St
  <2> QED
    BY <1>3, <2>1, <2>2
<1>5. CASE AlignWrite
  <2>1. PICK n \in 0 .. state.rem : PollWriteVectored(Outgoing, state.rem, entry, n)
    BY <1>5 DEF AlignWrite
  <2>2. state' = IF n < state.rem THEN AligningData(state.rem - n) ELSE AlignedData
    BY <1>1, <1>5, <2>1, AlignWriteState DEF AlignWrite
  <2>3. state'.tag # "ReceivingData"
    BY <2>2 DEF AligningData, AlignedData, St
  <2>4. Continue /\ UNCHANGED handle
    BY <1>5 DEF AlignWrite, Continue
  <2> QED
    BY <1>3, <2>3, <2>4
<1>6. CASE AlignStalls
  BY <1>6, CarefulAlignStalls
<1>7. CASE AlignEnds
  <2>1. state'.tag = "ExpectingHeader" /\ entry' = entry
    <3>1. state.tag = "AlignedData"
      BY <1>7 DEF AlignEnds, AlignedData, St
    <3> QED
      BY <1>7, <3>1 DEF AlignEnds, TarNext, Result, ExpectingHeader, St
  <2> QED
    BY <1>1, <1>7, <2>1, CarefulFinished DEF AlignEnds
<1>8. CASE AlignedAlready
  <2>1. state'.tag = "ExpectingHeader" /\ entry' = entry
    BY <1>8 DEF AlignedAlready, archive, ExpectingHeader, St
  <2> QED
    BY <1>1, <1>8, <2>1, CarefulFinished DEF AlignedAlready
<1>9. CASE AlignPanics
  <2>1. /\ Panic("state") /\ panic' = "state"
        /\ state' = state /\ call' = call /\ cur' = cur
    BY <1>9 DEF AlignPanics, Panic, archive, history
  <2>2. state.tag \notin {"ReceivingHeader", "ReceivedHeader", "ReceivingEof",
                          "ReceivedEof"}
    BY <1>1, HandleFacts
  <2>3. call.op = "finish_entry" /\ Unwritten
    BY <1>1, <1>2, <1>9, <2>2 DEF AlignPanics, CarefulCall, InWrite, InFinishEntry
  <2>4. state = ReceivingData(0)
    BY <1>2, <2>3, Canonical DEF Unwritten
  <2>5. CarefulPanics'
    BY <2>1, <2>3, <2>4 DEF CarefulPanics, EmptyEntryUnwritten, Unwritten
  <2> QED
    BY <2>1, <2>5, CarefulPanicked
<1> QED
  BY <1>4, <1>5, <1>6, <1>7, <1>8, <1>9 DEF FinishEntryStep

LEMMA CarefulFlush ==
  ASSUME IInv, Careful, CarefulInv, FlushStep
  PROVE  CarefulInv'
<1>1. /\ poll = "running" /\ state' = state /\ cur' = cur /\ UNCHANGED handle /\ Flushing
      /\ call.op \in {"flush", "finish_entry"}
  BY DEF FlushStep, FlushReturns, FlushStalls, Flushing, Running, history
<1>2. /\ TypeOK /\ CallInv /\ panic = "none" /\ CarefulCall /\ entry # NoHeader
  BY <1>1, CarefulFacts
<1>3. CASE FlushReturns
  <2>1. HandleRests
    <3>1. CASE call.op = "finish_entry"
      <4>1. state = ExpectingHeader
        BY <1>1, <1>2, <3>1 DEF Flushing, Running, CallInv
      <4> QED
        BY <1>2, <3>1, <4>1
           DEF CarefulCall, InFinishEntry, HandleRests, ExpectingHeader, St
    <3> QED
      BY <1>1, <1>2, <3>1 DEF CarefulCall
  <2>2. Rests'
    BY <1>1, <1>2, <2>1 DEF Rests, HandleRests, Owed, Unaligned, handle
  <2> QED
    BY <1>1, <1>2, <1>3, <2>2, CarefulReturns DEF FlushReturns
<1>4. CASE FlushStalls
  <2>1. PICK res \in Faults : Leave(res)
    BY <1>4 DEF FlushStalls
  <2>2. res \in IoFaults
    BY <2>1, FlagsAssumption
  <2> QED
    BY <1>1, <1>2, <2>1, <2>2, CarefulLeaves
<1> QED
  BY <1>3, <1>4 DEF FlushStep

LEMMA CarefulFinish ==
  ASSUME IInv, Careful, CarefulInv, FinishStep
  PROVE  CarefulInv'
<1>1. poll = "running" /\ call.op = "finish" /\ UNCHANGED handle
  BY DEF FinishStep, EndWrite, EndStalls, Shutdown, ShutdownStalls, FinishPanics,
         WritesEnd, Running
<1>2. /\ TypeOK /\ CallInv /\ panic = "none" /\ CarefulCall /\ entry = NoHeader
      /\ InFinish /\ GoodState(state)
  BY <1>1, CarefulFacts DEF CarefulCall
<1>3. CASE EndWrite
  <2>1. PICK n \in 0 .. BlockSize :
          PollWriteVectored(Outgoing, Len(Outgoing), NoHeader, n)
    BY <1>3 DEF EndWrite
  <2>2. PICK rem : rem = IF state.tag = "ExpectingHeader" THEN BlockSize ELSE state.rem
    OBVIOUS
  <2>3. \/ state' = AfterHeaderBytes(rem - n, TRUE)
        \/ state' = IF n < rem THEN ReceivingEof(rem - n) ELSE ReceivedEof
    BY <1>3, <2>1, <2>2, EndWriteState DEF EndWrite
  <2>4. InFinish'
    BY <2>3 DEF InFinish, AfterHeaderBytes, ReceivingHeader, ReceivingEof,
                ReceivedEof, St
  <2> QED
    BY <1>1, <1>2, <1>3, <2>4, CarefulContinues
       DEF EndWrite, Continue, control, CarefulCall
<1>4. CASE EndStalls
  <2>1. PICK res \in IoFaults : PollWriteFails(Outgoing, res) /\ Leave(res)
    BY <1>4 DEF EndStalls
  <2>2. state' = state /\ cur' = cur
    BY <1>2, <1>4, <2>1, WriteFailsFacts DEF EndStalls, history
  <2> QED
    BY <1>1, <1>2, <2>1, <2>2, CarefulLeaves
<1>5. CASE Shutdown
  <2>1. state' = ReceivedEof /\ shut' /\ entry' = NoHeader /\ Return("ok", 0)
    BY <1>2, <1>5 DEF Shutdown, handle
  <2>2. Rests'
    BY <2>1 DEF Rests, ReceivedEof, St
  <2> QED
    BY <1>1, <1>2, <2>1, <2>2, CarefulReturns
<1>6. CASE ShutdownStalls
  <2>1. PICK res \in Faults : Leave(res)
    BY <1>6 DEF ShutdownStalls
  <2>2. res \in IoFaults /\ state' = state /\ cur' = cur
    BY <1>6, <2>1, FlagsAssumption DEF ShutdownStalls, history
  <2> QED
    BY <1>1, <1>2, <2>1, <2>2, CarefulLeaves
<1>7. CASE FinishPanics
  <2>1. /\ Panic("state") /\ panic' = "state"
        /\ state' = state /\ call' = call /\ cur' = cur
    BY <1>7 DEF FinishPanics, Panic, archive, history
  <2>2. Unaligned \/ (Unwritten /\ state = ReceivingData(0))
    BY <1>2, <1>7, Canonical DEF FinishPanics, InFinish, Unwritten
  <2>3. AlignmentFailed' \/ EmptyEntryUnwritten'
    BY <1>1, <2>1, <2>2 DEF AlignmentFailed, EmptyEntryUnwritten, Unaligned, Unwritten
  <2> QED
    BY <2>1, <2>3, CarefulPanicked DEF CarefulPanics
<1> QED
  BY <1>3, <1>4, <1>5, <1>6, <1>7 DEF FinishStep

LEMMA CarefulTask ==
  ASSUME IInv, Careful, CarefulInv, Task
  PROVE  CarefulInv'
<1>1. TypeOK /\ CallInv /\ StateInv /\ GoodState(state) /\ told \in Nat
      /\ entry.size \in Int
  BY CallFacts, HeaderFields DEF IInv, BadSize
<1>2. HandleRests /\ entry # NoHeader /\ Complete =>
        told = entry.size /\ (state.tag = "ExpectingHeader" \/ Unaligned \/ Unwritten)
  <2> SUFFICES ASSUME Owed, entry # NoHeader, told = entry.size PROVE Unwritten
    BY DEF HandleRests, Complete
  <2>1. entry = cur /\ told = cur.size - state.rem /\ state.rem \in Nat
    BY <1>1, CallFacts DEF Owed, StateInv, InData
  <2>2. state.rem = 0
    BY <1>1, <2>1
  <2> QED
    BY <2>1, <2>2 DEF Owed, Unwritten
<1>3. ASSUME NEW op, NEW hdr, NEW bufs, Begin(op, hdr, bufs)
      PROVE  /\ Rests /\ panic' = "none" /\ poll' = "running"
             /\ state' = state /\ entry' = entry /\ told' = told /\ shut' = shut
             /\ cur' = cur
             /\ call'.op = op /\ call'.hdr = hdr /\ call'.bufs = bufs
             /\ call'.phase = "body"
             /\ CarefulCall' => CarefulInv'
  <2>1. /\ poll = "idle" /\ panic = "none" /\ ~ Failed
        /\ panic' = "none" /\ poll' = "running"
        /\ state' = state /\ entry' = entry /\ told' = told /\ shut' = shut
        /\ cur' = cur /\ call' = Call(op, hdr, bufs)
    BY <1>3 DEF Begin, archive, handle, history
  <2>2. Rests
    BY <2>1 DEF CarefulInv
  <2> QED
    BY <2>1, <2>2 DEF CarefulInv, CarefulPanics, Call
<1> USE DEF CarefulCall
<1>4. CASE \E h \in Headers : AddEntry(h)
  <2>1. PICK h \in Headers : AddEntry(h)
    BY <1>4
  <2>2. Begin("add_entry", h, NoBufs) /\ entry = NoHeader /\ ~ shut
    BY <2>1 DEF AddEntry
  <2>3. InAddEntry'
    BY <1>3, <2>2 DEF Rests, InAddEntry, Unaligned, Unwritten
  <2> QED
    BY <1>3, <2>2, <2>3
<1>5. CASE \E bufs \in Bufs : Write(bufs)
  <2>1. PICK bufs \in Bufs : Write(bufs)
    BY <1>5
  <2>2. /\ Begin("write", NoHeader, bufs) /\ entry # NoHeader
        /\ told + bufs.len <= entry.size /\ bufs.len \in Nat
    BY <2>1, BufsAssumption DEF Write
  <2>3. HandleRests
    BY <1>3, <2>2 DEF Rests
  <2>4. (WriteStands \/ WriteOfNothing)'
    <3>1. CASE Owed
      BY <1>3, <2>2, <3>1 DEF WriteStands, Owed
    <3>2. CASE told = entry.size /\ (state.tag = "ExpectingHeader" \/ Unaligned)
      <4>1. bufs.len = 0
        BY <1>1, <2>2, <3>2
      <4> QED
        BY <1>3, <2>2, <3>2, <4>1 DEF WriteOfNothing, Unaligned
    <3> QED
      BY <2>3, <3>1, <3>2 DEF HandleRests
  <2>5. InWrite'
    BY <1>3, <2>2, <2>4 DEF InWrite
  <2> QED
    BY <1>3, <2>2, <2>5
<1>6. CASE Flush
  <2>1. HandleRests'
    BY <1>3, <1>6 DEF Flush, Rests, HandleRests, Owed, Unaligned
  <2> QED
    BY <1>3, <1>6, <2>1 DEF Flush
<1>7. CASE FinishEntry
  <2>1. Begin("finish_entry", NoHeader, NoBufs) /\ entry # NoHeader /\ Complete
    BY <1>7 DEF FinishEntry
  <2>2. told = entry.size /\ (state.tag # "ReceivingData" \/ Unwritten)
    BY <1>2, <1>3, <2>1 DEF Rests, Unaligned
  <2>3. InFinishEntry'
    BY <1>3, <2>1, <2>2 DEF InFinishEntry, Unwritten
  <2> QED
    BY <1>3, <2>1, <2>3
<1>8. CASE Finish
  <2>1. Begin("finish", NoHeader, NoBufs) /\ entry = NoHeader
    BY <1>8 DEF Finish
  <2>2. InFinish'
    BY <1>3, <2>1 DEF Rests, InFinish, Unaligned, Unwritten
  <2> QED
    BY <1>3, <2>1, <2>2
<1>9. CASE DropEntry
  <2>1. /\ entry # NoHeader /\ poll = "idle" /\ panic = "none" /\ Complete
        /\ entry' = NoHeader /\ state' = state /\ shut' = shut /\ cur' = cur
        /\ poll' = poll /\ panic' = panic /\ ret' = ret
    BY <1>9 DEF DropEntry, archive, control, history
  <2>2. ~ Failed => HandleRests
    BY <2>1 DEF CarefulInv, Rests
  <2>3. ~ Failed' => Rests'
    BY <1>2, <2>1, <2>2 DEF Rests, Unaligned, Unwritten, Failed
  <2> QED
    BY <2>1, <2>3 DEF CarefulInv, CarefulPanics, Busy
<1>10. ~ Cancel
  BY DEF Cancel
<1>11. CASE IntoInner
  BY <1>11 DEF IntoInner, CarefulInv, CarefulPanics, Busy
<1> QED
  BY <1>4, <1>5, <1>6, <1>7, <1>8, <1>9, <1>10, <1>11 DEF Task

LEMMA CarefulNext ==
  ASSUME Finalised, IInv, CarefulInv, [Next]_vars
  PROVE  CarefulInv'
<1> SUFFICES ASSUME Careful PROVE CarefulInv'
  BY DEF CarefulInv
<1> USE DEF vars, archive, control, handle, history
<1>1. ASSUME UNCHANGED <<state, shut, call, panic, ret, entry, told, cur>>,
             poll' = poll \/ (Busy /\ poll' = "running")
      PROVE  CarefulInv'
  <2>1. /\ Rests' = Rests /\ CarefulCall' = CarefulCall /\ CarefulPanics' = CarefulPanics
        /\ Failed' = Failed
    BY <1>1 DEF Rests, CarefulCall, CarefulPanics, Failed, HandleRests, Owed, Unaligned,
                Unwritten, InAddEntry, InWrite, WriteStands, WriteOfNothing, InFinishEntry,
                InFinish, RepeatsTakenWrite, HeaderIsCut, AlignmentFailed,
                EmptyEntryUnwritten, NothingIsWritten
  <2> QED
    BY <1>1, <2>1 DEF CarefulInv, Busy
<1>2. CASE Step
  BY <1>2, CarefulAddEntry, CarefulWrite, CarefulFinishEntry, CarefulFlush, CarefulFinish
     DEF Step
<1>3. CASE Task
  BY <1>3, CarefulTask
<1>4. CASE Wake
  BY <1>1, <1>4 DEF Wake, Busy
<1>5. CASE UNCHANGED vars
  BY <1>1, <1>5
<1> QED
  BY <1>2, <1>3, <1>4, <1>5 DEF Next

(* A task that keeps to the documented use, with headers that have a       *)
(* checksum, meets a panic in the five cases only that CarefulPanics lists *)
(* (write/mod.rs:60, 89, 102, 143, 175): three begin with an answer of the *)
(* io object, one of them another in debug and release builds; two happen  *)
(* over any object, an entry of no data that was never written to, and a   *)
(* write of nothing to an entry whose data is complete.                    *)
THEOREM PanicsOfACarefulTask ==
  ASSUME Finalised
  PROVE  Spec => []CarefulPanics
<1>1. Init => CarefulInv
  BY DEF Init, CarefulInv, CarefulPanics, Rests, Busy, ExpectingHeader, St
<1>2. IInv /\ CarefulInv /\ [Next]_vars => CarefulInv'
  BY CarefulNext
<1>3. CarefulInv => CarefulPanics
  BY DEF CarefulInv, CarefulPanics
<1> QED
  BY <1>1, <1>2, <1>3, InvariantHolds, PTL DEF Spec
=============================================================================
