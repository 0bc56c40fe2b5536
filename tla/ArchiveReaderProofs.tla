------------------------- MODULE ArchiveReaderProofs ------------------------
(***************************************************************************)
(* Theorems about ArchiveReader, for a task that keeps no handle of an     *)
(* earlier entry (~ Stale): its type invariant, that the checks of consume *)
(* never fail, and that no bytes mean the end of the entry.                *)
(***************************************************************************)
EXTENDS ArchiveReader, ArchiveFormatProofs

-----------------------------------------------------------------------------
(* What consume makes of bytes that fit the state: the take, and the one   *)
(* transition that may follow it.                                          *)
LEMMA ReaderFacts ==
  /\ BlockSize \in Nat /\ BlockSize > 0
  /\ Capacity \in Nat /\ Capacity > 0
  /\ ReadSizes \subseteq Nat /\ Faults \subseteq IoFaults
  BY BlockSizeAssumption, ReaderCapacityAssumption, ReaderFlagsAssumption

LEMMA TagsOf ==
  /\ ExpectingHeader.tag = "ExpectingHeader" /\ ReceivedHeader.tag = "ReceivedHeader"
  /\ ReceivedData.tag = "ReceivedData" /\ AlignedData.tag = "AlignedData"
  /\ ReceivedEof.tag = "ReceivedEof"
  /\ \A rem, e : /\ ReceivingHeader(rem, e).tag = "ReceivingHeader"
                 /\ ReceivingHeader(rem, e).rem = rem
                 /\ ReceivingHeader(rem, e).empty = e
  /\ \A rem : /\ ReceivingData(rem).tag = "ReceivingData" /\ ReceivingData(rem).rem = rem
              /\ AligningData(rem).tag = "AligningData" /\ AligningData(rem).rem = rem
              /\ ReceivingEof(rem).tag = "ReceivingEof" /\ ReceivingEof(rem).rem = rem
  BY DEF ExpectingHeader, ReceivedHeader, ReceivedData, AlignedData, ReceivedEof,
     ReceivingHeader, ReceivingData, AligningData, ReceivingEof, St

(* A state that waits for some bytes settles as it is.                     *)
LEMMA NotSettling ==
  ASSUME NEW s, \/ s.tag \in {"ExpectingHeader", "ReceivedEof"}
                \/ s.tag \in {"ReceivingHeader", "ReceivingData", "AligningData",
                              "ReceivingEof"} /\ s.rem # 0
  PROVE  s \notin Settling
  BY DEF Settling, ExpectingHeader, ReceivedHeader, ReceivedData, AlignedData,
     ReceivingHeader, ReceivingData, AligningData, ReceivingEof, St

LEMMA ConsumedIs ==
  ASSUME NEW s, NEW b, NEW hdr, NEW s1, NEW s2,
         TakeSlices(s, b, hdr) = Result(s1, Len(b)),
         (IF s1 \in Settling THEN TarNext(s1, <<>>, hdr) ELSE Result(s1, 0))
           = Result(s2, 0)
  PROVE  Consumed(s, b, hdr) = [state |-> s2, panic |-> "none"]
<1> DEFINE t == TakeSlices(s, b, hdr)
<1>1. t.state = s1 /\ t.n = Len(b) /\ t.err = "none"
  BY DEF Result
<1>2. Settled(t, hdr) = Result(s2, 0)
  BY <1>1 DEF Settled
<1>3. Consumed(s, b, hdr) = Outcome(t, Result(s2, 0), Len(b))
  BY <1>2 DEF Consumed, SettledOutcome
<1> HIDE DEF t
<1> QED
  BY <1>1, <1>3 DEF Outcome, Result

LEMMA ConsumedData ==
  ASSUME NEW rem \in Nat, NEW b \in Seq(Byte), Len(b) <= AsUsize(rem),
         NEW hdr \in Header, hdr # NoHeader, hdr.size # BadSize
  PROVE  Consumed(ReceivingData(rem), b, hdr) =
           [state |-> IF Len(b) < rem THEN ReceivingData(rem - Len(b))
                      ELSE AligningData(Align(hdr.size)),
            panic |-> "none"]
<1>1. Len(b) \in Nat
  BY LenProperties
<1>2. CASE Len(b) < rem
  <2> DEFINE s1 == ReceivingData(rem - Len(b))
  <2>1. TakeSlices(ReceivingData(rem), b, hdr) = Result(s1, Len(b))
    BY <1>2, TakeData
  <2>2. s1.tag = "ReceivingData" /\ s1.rem # 0
    BY <1>1, <1>2, TagsOf
  <2>3. s1 \notin Settling
    BY <2>2, NotSettling
  <2> QED
    BY <1>2, <2>1, <2>3, ConsumedIs
<1>3. CASE ~ (Len(b) < rem)
  <2> DEFINE s2 == AligningData(Align(hdr.size))
  <2>1. TakeSlices(ReceivingData(rem), b, hdr) = Result(ReceivedData, Len(b))
    BY <1>3, TakeData
  <2>2. ReceivedData \in Settling
    BY DEF Settling
  <2>3. TarNext(ReceivedData, <<>>, hdr) = Result(s2, 0)
    BY DEF TarNext, ReceivedData, St, NextOfEntry
  <2> QED
    BY <1>3, <2>1, <2>2, <2>3, ConsumedIs
<1> QED
  BY <1>2, <1>3

LEMMA ConsumedAlign ==
  ASSUME NEW rem \in Nat, NEW b \in Seq(Byte), Len(b) <= rem, NEW hdr \in Header
  PROVE  Consumed(AligningData(rem), b, hdr) =
           [state |-> IF Len(b) < rem THEN AligningData(rem - Len(b))
                      ELSE ExpectingHeader,
            panic |-> "none"]
<1>1. Len(b) \in Nat
  BY LenProperties
<1>2. CASE Len(b) < rem
  <2> DEFINE s1 == AligningData(rem - Len(b))
  <2>1. TakeSlices(AligningData(rem), b, hdr) = Result(s1, Len(b))
    BY <1>2, TakeAlign
  <2>2. s1.tag = "AligningData" /\ s1.rem # 0
    BY <1>1, <1>2, TagsOf
  <2>3. s1 \notin Settling
    BY <2>2, NotSettling
  <2> QED
    BY <1>2, <2>1, <2>3, ConsumedIs
<1>3. CASE ~ (Len(b) < rem)
  <2>1. TakeSlices(AligningData(rem), b, hdr) = Result(AlignedData, Len(b))
    BY <1>3, TakeAlign
  <2>2. AlignedData \in Settling
    BY DEF Settling
  <2>3. TarNext(AlignedData, <<>>, hdr) = Result(ExpectingHeader, 0)
    BY DEF TarNext, AlignedData, St
  <2> QED
    BY <1>3, <2>1, <2>2, <2>3, ConsumedIs
<1> QED
  BY <1>2, <1>3

LEMMA ConsumedEof ==
  ASSUME NEW rem \in Nat, NEW b \in Seq(Byte), Len(b) <= rem, AllZero(b),
         NEW hdr \in Header
  PROVE  Consumed(ReceivingEof(rem), b, hdr) =
           [state |-> IF Len(b) < rem THEN ReceivingEof(rem - Len(b))
                      ELSE ReceivedEof,
            panic |-> "none"]
<1> DEFINE s1 == IF Len(b) < rem THEN ReceivingEof(rem - Len(b)) ELSE ReceivedEof
<1>1. Len(b) \in Nat
  BY LenProperties
<1>2. TakeSlices(ReceivingEof(rem), b, hdr) = Result(s1, Len(b))
  BY TakeEof
<1>3. \/ s1.tag = "ReceivedEof"
      \/ s1.tag = "ReceivingEof" /\ s1.rem # 0
  BY <1>1, TagsOf
<1>4. s1 \notin Settling
  BY <1>3, NotSettling
<1> HIDE DEF s1
<1>5. Consumed(ReceivingEof(rem), b, hdr) = [state |-> s1, panic |-> "none"]
  BY <1>2, <1>4, ConsumedIs
<1> QED
  BY <1>5 DEF s1

(* A consume of nothing before a header.                                   *)
LEMMA ConsumedBefore ==
  ASSUME NEW hdr \in Header
  PROVE  Consumed(ExpectingHeader, <<>>, hdr) =
           [state |-> ReceivingHeader(BlockSize, TRUE), panic |-> "none"]
<1> DEFINE s1 == ReceivingHeader(BlockSize, TRUE)
           b  == << >>
<1>1. b \in Seq(Byte) /\ Len(b) = 0
  OBVIOUS
<1>2. AllZero(b)
  BY DEF AllZero
<1> HIDE DEF b
<1>3. TakeSlices(ExpectingHeader, b, hdr) =
        Result(AfterHeaderBytes(BlockSize - Len(b), TRUE), Len(b))
  <2>1. ASSUME NEW z \in BOOLEAN, z <=> AllZero(b)
        PROVE  TakeSlices(ExpectingHeader, b, hdr) =
                 Result(AfterHeaderBytes(BlockSize - Len(b), z), Len(b))
    <3>1. Len(b) <= BlockSize
      BY <1>1, ReaderFacts
    <3> QED
      BY <1>1, <2>1, <3>1, TakeFirstBytes
  <2> QED
    BY <1>2, <2>1, Zenon
<1>4. AfterHeaderBytes(BlockSize - Len(b), TRUE) = s1
  BY <1>1, ReaderFacts DEF AfterHeaderBytes
<1>5. s1.tag = "ReceivingHeader" /\ s1.rem # 0
  BY ReaderFacts DEF ReceivingHeader, St
<1>7. s1 \notin Settling
  BY <1>5, NotSettling
<1>6. Consumed(ExpectingHeader, b, hdr) = [state |-> s1, panic |-> "none"]
  BY <1>3, <1>4, <1>7, ConsumedIs
<1> QED
  BY <1>6 DEF b

(* A part of a block that is no header, or not yet.                        *)
LEMMA ConsumedPart ==
  ASSUME NEW rem \in Nat, NEW e \in BOOLEAN, NEW b \in Seq(Byte), Len(b) <= rem,
         NEW z \in BOOLEAN, z <=> (e /\ AllZero(b)), Len(b) < rem \/ z,
         NEW hdr \in Header
  PROVE  Consumed(ReceivingHeader(rem, e), b, hdr) =
           [state |-> AfterHeaderBytes(rem - Len(b), z), panic |-> "none"]
<1> DEFINE s1 == AfterHeaderBytes(rem - Len(b), z)
<1>1. Len(b) \in Nat
  BY LenProperties
<1>2. TakeSlices(ReceivingHeader(rem, e), b, hdr) = Result(s1, Len(b))
  BY TakeHeaderBytes
<1>3. s1.tag \in {"ReceivingHeader", "ReceivingEof"} /\ s1.rem # 0
  BY <1>1, ReaderFacts, TagsOf DEF AfterHeaderBytes
<1>4. s1 \notin Settling
  BY <1>3, NotSettling
<1> HIDE DEF s1
<1>5. Consumed(ReceivingHeader(rem, e), b, hdr) = [state |-> s1, panic |-> "none"]
  BY <1>2, <1>4, ConsumedIs
<1> QED
  BY <1>5 DEF s1

(* The last bytes of a header, whose size may not parse.                   *)
LEMMA ConsumedHeader ==
  ASSUME NEW rem \in Nat, NEW e \in BOOLEAN, NEW b \in Seq(Byte), Len(b) = rem,
         ~ (e /\ AllZero(b)), NEW hdr \in Header, hdr # NoHeader
  PROVE  LET o == Consumed(ReceivingHeader(rem, e), b, hdr)
         IN  IF hdr.size = BadSize THEN o.panic = "size"
             ELSE o = [state |-> ReceivingData(hdr.size), panic |-> "none"]
<1> DEFINE t == TakeSlices(ReceivingHeader(rem, e), b, hdr)
<1>1. AfterHeaderBytes(rem - Len(b), FALSE) = ReceivedHeader
  BY DEF AfterHeaderBytes
<1>2. t = Result(ReceivedHeader, Len(b))
  <2>1. ASSUME NEW z \in BOOLEAN, z <=> (e /\ AllZero(b))
        PROVE  t = Result(AfterHeaderBytes(rem - Len(b), z), Len(b))
    BY <2>1, TakeHeaderBytes
  <2>2. t = Result(AfterHeaderBytes(rem - Len(b), FALSE), Len(b))
    BY <2>1, Zenon
  <2> QED
    BY <1>1, <2>2
<1>3. ReceivedHeader \in Settling
  BY DEF Settling
<1>4. CASE hdr.size = BadSize
  <2>1. TarNext(ReceivedHeader, <<>>, hdr) = Failure(ReceivedHeader, "BadSize")
    BY <1>4 DEF TarNext, ReceivedHeader, St, NextOfEntry
  <2>2. t.state = ReceivedHeader /\ t.n = Len(b) /\ t.err = "none"
    BY <1>2 DEF Result
  <2>3. Settled(t, hdr) = Failure(ReceivedHeader, "BadSize")
    BY <1>3, <2>1, <2>2 DEF Settled
  <2>4. Consumed(ReceivingHeader(rem, e), b, hdr) =
          Outcome(t, Failure(ReceivedHeader, "BadSize"), Len(b))
    BY <2>3 DEF Consumed, SettledOutcome
  <2> HIDE DEF t
  <2>5. Outcome(t, Failure(ReceivedHeader, "BadSize"), Len(b)).panic = "size"
    BY <2>2 DEF Outcome, Failure
  <2> QED
    BY <1>4, <2>4, <2>5
<1>5. CASE hdr.size # BadSize
  <2>1. TarNext(ReceivedHeader, <<>>, hdr) = Result(ReceivingData(hdr.size), 0)
    BY <1>5 DEF TarNext, ReceivedHeader, St, NextOfEntry
  <2>2. Consumed(ReceivingHeader(rem, e), b, hdr) =
          [state |-> ReceivingData(hdr.size), panic |-> "none"]
    BY <1>2, <1>3, <2>1, ConsumedIs
  <2> QED
    BY <1>5, <2>2
<1> QED
  BY <1>4, <1>5

-----------------------------------------------------------------------------
(* What `next' makes of a buffer that may hold more than the state waits   *)
(* for: it looks at the bytes it takes only.                               *)
LEMMA AdvanceFacts ==
  ASSUME NEW b \in Seq(Byte), NEW max \in Nat
  PROVE  /\ Advance(b, max) \in 0 .. Len(b) /\ Advance(b, max) <= max
         /\ Fronted(b, Advance(b, max)) \in Seq(Byte)
         /\ Len(Fronted(b, Advance(b, max))) = Advance(b, max)
<1> DEFINE n == Advance(b, max)
<1>1. Len(b) \in Nat
  BY LenProperties
<1>2. n \in 0 .. Len(b) /\ n <= max
  BY <1>1 DEF Advance
<1> HIDE DEF n
<1>3. SubSeq(b, 1, n) \in Seq(Byte) /\ Len(SubSeq(b, 1, n)) = n
  BY <1>1, <1>2, SubSeqProperties
<1> QED
  BY <1>2, <1>3 DEF Fronted, n

LEMMA NextData ==
  ASSUME NEW rem \in Nat, NEW b, NEW hdr
  PROVE  LET n == Advance(b, AsUsize(rem))
         IN  TarNext(ReceivingData(rem), b, hdr) =
               IF n < rem THEN Result(ReceivingData(rem - n), n)
               ELSE Result(ReceivedData, n)
<1>1. TarNext(ReceivingData(rem), b, hdr) = NextReceivingData(ReceivingData(rem), b)
  BY DEF TarNext, ReceivingData, St
<1> QED
  BY <1>1, TagsOf DEF NextReceivingData

LEMMA NextAlign ==
  ASSUME NEW rem \in Nat, NEW b, NEW hdr
  PROVE  LET n == Advance(b, rem)
         IN  TarNext(AligningData(rem), b, hdr) =
               IF n < rem THEN Result(AligningData(rem - n), n)
               ELSE Result(AlignedData, n)
<1>1. TarNext(AligningData(rem), b, hdr) = NextAligningData(AligningData(rem), b)
  BY DEF TarNext, AligningData, St
<1> QED
  BY <1>1, TagsOf DEF NextAligningData

LEMMA NextEof ==
  ASSUME NEW rem \in Nat, NEW b, NEW hdr
  PROVE  LET n == Advance(b, rem)
         IN  TarNext(ReceivingEof(rem), b, hdr) =
               IF ~ AllZero(Fronted(b, n))
               THEN Failure(ReceivingEof(rem), "ExpectingEmptyBlock")
               ELSE IF n < rem THEN Result(ReceivingEof(rem - n), n)
               ELSE Result(ReceivedEof, n)
<1>1. TarNext(ReceivingEof(rem), b, hdr) = NextReceivingEof(ReceivingEof(rem), b)
  BY DEF TarNext, ReceivingEof, St
<1> QED
  BY <1>1, TagsOf DEF NextReceivingEof

LEMMA NextHeader ==
  ASSUME NEW rem \in Nat, NEW e \in BOOLEAN, NEW b \in Seq(Byte), NEW hdr,
         NEW z \in BOOLEAN, z <=> (e /\ AllZero(Fronted(b, Advance(b, rem))))
  PROVE  TarNext(ReceivingHeader(rem, e), b, hdr) =
           Result(AfterHeaderBytes(rem - Advance(b, rem), z), Advance(b, rem))
<1> DEFINE s == ReceivingHeader(rem, e)
           n == Advance(b, rem)
<1>1. TarNext(s, b, hdr) = NextReceivingHeader(s, b)
  BY DEF TarNext, ReceivingHeader, St
<1>2. n \in Nat /\ n <= rem
  BY AdvanceFacts, LenProperties
<1>3. s.rem = rem /\ s.empty = e
  BY DEF ReceivingHeader, St
<1>4. (e /\ AllZero(Fronted(b, n))) = z
  OBVIOUS
<1> HIDE DEF s
<1>5. NextReceivingHeader(s, b) =
        IF n < rem THEN Result(ReceivingHeader(rem - n, z), n)
        ELSE IF z THEN Result(ReceivingEof(BlockSize), n)
        ELSE Result(ReceivedHeader, n)
  BY <1>3, <1>4 DEF NextReceivingHeader
<1> HIDE DEF n
<1> QED
  BY <1>1, <1>2, <1>5 DEF AfterHeaderBytes, s, n

-----------------------------------------------------------------------------
(* The inductive invariant.  While a handle is alive State is in the data  *)
(* of its entry, in the alignment, or before the next header, which a      *)
(* consume of nothing may have begun; what was lent is of the data; and a  *)
(* call is one of the handle that is alive.                                *)
OfHandle(s) == \/ s.tag \in {"ReceivingData", "AligningData", "ExpectingHeader"}
               \/ s = ReceivingHeader(BlockSize, TRUE)

DataLeft(s) == IF s.tag = "ReceivingData" THEN s.rem ELSE 0

HandleInv ==
  entry # NoHeader =>
    /\ entry.size # BadSize /\ OfHandle(state)
    /\ Len(got) = entry.size - DataLeft(state)

LentInv ==
  lent > 0 => /\ poll = "idle" /\ entry # NoHeader
              /\ state.tag = "ReceivingData" /\ lent <= state.rem

CallInv ==
  poll # "idle" =>
    /\ call.op = "next_entry" => entry = NoHeader
    /\ call.op # "next_entry" => entry # NoHeader /\ call.hdr = entry
    /\ call.op # "none"

LentOK == lent \in 0 .. Len(Unread)

IInv == TypeOK /\ older = {} /\ HandleInv /\ LentInv /\ CallInv /\ ChecksHold

(* TypeOK in parts.                                                        *)
OpNames  == {"none", "next_entry", "read", "fill_buf", "skip"}
ResNames == {"none", "ok", "entry", "eof", "ioerror", "baddata",
             "badheader", "cancelled"}
PanicNames == {"none", "full", "checked", "size", "header", "past", "slice",
               "overlap", "skip", "unreachable"}
Markers  == {"ReceivedHeader", "ReceivedData", "AlignedData"}

SourceOK == hdrs \in Archives /\ bytes \in Seq(Byte) /\ fed \in 0 .. Len(bytes)

StateOK(s) == GoodState(s) /\ s.tag \notin Markers

StoreOK == /\ StateOK(state)
           /\ data \in Seq(Byte) /\ Len(data) <= Capacity
           /\ pos \in 0 .. Len(data) /\ (Unread = <<>> => data = <<>>)

CallOK == call \in [op : OpNames, n : ReadSizes \cup {0}, hdr : Handles \cup {NoHeader}]
RetOK  == ret \in [op : OpNames, hdr : Handles \cup {NoHeader},
                   room : ReadSizes \cup {0}, res : ResNames, n : Nat]

ControlOK == /\ CallOK /\ RetOK
             /\ poll \in {"idle", "running", "parked"} /\ panic \in PanicNames

HandleOK == /\ entry \in Handles \cup {NoHeader} /\ older \subseteq Handles
            /\ found \in Nat /\ got \in Seq(Byte)

LEMMA TypeParts ==
  TypeOK <=> SourceOK /\ StoreOK /\ ControlOK /\ HandleOK /\ LentOK
  BY DEF TypeOK, SourceOK, StoreOK, StateOK, ControlOK, CallOK, RetOK, HandleOK,
     LentOK, OpNames, ResNames, PanicNames, Markers

LEMMA TypePartsAfter ==
  (SourceOK /\ StoreOK /\ ControlOK /\ HandleOK /\ LentOK)' => TypeOK'
  BY TypeParts, PTL

LEMMA HandlesAreHeaders ==
  ASSUME SourceOK
  PROVE  /\ Handles \subseteq HeaderType /\ Handles \cup {NoHeader} \subseteq Header
         /\ NoHeader \notin Handles
<1>1. hdrs \in Seq(HeaderType)
  BY ArchivesAssumption DEF SourceOK
<1>2. Handles \subseteq HeaderType
  <2> SUFFICES ASSUME NEW k \in 1 .. Len(hdrs) PROVE hdrs[k] \in HeaderType
    BY DEF Handles
  <2> QED
    BY <1>1, ElementOfSeq
<1>3. NoHeader \notin HeaderType
  BY DEF HeaderType, NoHeader
<1> QED
  BY <1>2, <1>3 DEF Header

LEMMA UnreadFacts ==
  ASSUME StoreOK
  PROVE  /\ Unread \in Seq(Byte) /\ Len(Unread) = Len(data) - pos
         /\ Len(data) \in Nat
         /\ \A n \in 0 .. Len(Unread) : Ahead(n) \in Seq(Byte) /\ Len(Ahead(n)) = n
         /\ Unread # <<>> => Len(Unread) > 0
<1>1. Len(data) \in Nat /\ data \in Seq(Byte) /\ pos \in 0 .. Len(data)
  BY LenProperties DEF StoreOK
<1>2. Unread \in Seq(Byte) /\ Len(Unread) = Len(data) - pos
  BY <1>1, SubSeqProperties DEF Unread
<1>3. \A n \in 0 .. Len(Unread) : Ahead(n) \in Seq(Byte) /\ Len(Ahead(n)) = n
  BY <1>1, <1>2, SubSeqProperties DEF Ahead
<1>4. Unread # <<>> => Len(Unread) > 0
  BY <1>1, <1>2, EmptySeq
<1> QED
  BY <1>1, <1>2, <1>3, <1>4

-----------------------------------------------------------------------------
(* What each kind of step leaves of the invariant.                         *)
NoStaleHandles == ~ Stale
SizesFit == \A hs \in Archives : \A k \in 1 .. Len(hs) : hs[k].size < UsizeMod

(* A call that goes on, is held up, returns or panics.                     *)
ControlMoves ==
  /\ ControlOK'
  /\ panic' = panic \/ panic' \in {"size", "slice", "overlap", "skip", "unreachable"}
  /\ poll' = "idle" \/ (call' = call /\ poll # "idle")

LEMMA ReturnMoves ==
  ASSUME ControlOK, SourceOK, UNCHANGED source, NEW res \in ResNames, NEW n \in Nat,
         Return(res, n)
  PROVE  /\ ControlMoves /\ poll' = "idle" /\ panic' = panic
         /\ ret' = [op |-> call.op, hdr |-> call.hdr, room |-> call.n,
                    res |-> res, n |-> n]
<1>1. Handles' = Handles
  BY DEF Handles, source
<1>2. NoCall \in [op : OpNames, n : ReadSizes \cup {0}, hdr : Handles \cup {NoHeader}]
  BY DEF NoCall, OpNames
<1>3. CallOK' /\ call' = NoCall
  BY <1>1, <1>2 DEF Return, CallOK
<1>4. RetOK'
  BY <1>1 DEF Return, RetOK, ControlOK, CallOK
<1> QED
  BY <1>3, <1>4 DEF Return, ControlOK, ControlMoves

LEMMA PanicMoves ==
  ASSUME ControlOK, SourceOK, UNCHANGED source,
         NEW what \in {"size", "slice", "overlap", "skip", "unreachable"}, Panic(what)
  PROVE  ControlMoves /\ poll' = "idle" /\ ret' = ret
<1>1. Handles' = Handles
  BY DEF Handles, source
<1>2. CallOK' /\ RetOK'
  BY <1>1 DEF Panic, CallOK, RetOK, ControlOK
<1> QED
  BY <1>2 DEF Panic, ControlOK, ControlMoves, PanicNames

LEMMA ContinueMoves ==
  ASSUME ControlOK, SourceOK, UNCHANGED source, Continue
  PROVE  ControlMoves /\ poll' = poll /\ ret' = ret
<1>1. Handles' = Handles
  BY DEF Handles, source
<1>2. CallOK' /\ RetOK'
  BY <1>1 DEF Continue, control, CallOK, RetOK, ControlOK
<1> QED
  BY <1>2 DEF Continue, control, ControlOK, ControlMoves

LEMMA LeaveMoves ==
  ASSUME ControlOK, SourceOK, UNCHANGED source, NEW res \in IoFaults, Leave(res),
         poll # "idle"
  PROVE  /\ ControlMoves
         /\ ret' = ret \/ ret'.res = "ioerror"
<1>1. CASE res = "pending"
  <2>1. Handles' = Handles
    BY DEF Handles, source
  <2>2. CallOK' /\ RetOK'
    BY <1>1, <2>1 DEF Leave, CallOK, RetOK, ControlOK
  <2> QED
    BY <1>1, <2>2 DEF Leave, ControlOK, ControlMoves
<1>2. CASE res = "ioerror"
  <2>1. Return("ioerror", 0)
    BY <1>2 DEF Leave
  <2> QED
    BY <2>1, ReturnMoves DEF ResNames
<1> QED
  BY <1>1, <1>2 DEF IoFaults

(* A step that moves no byte and opens no handle.                          *)
LEMMA Stays ==
  ASSUME IInv, ControlMoves, UNCHANGED <<source, fed, archive, handle>>,
         lent = 0
  PROVE  IInv'
<1> USE DEF source, archive, handle
<1>1. Handles' = Handles /\ Unread' = Unread
  BY DEF Handles, Unread
<1>2. SourceOK' /\ StoreOK' /\ HandleOK' /\ LentOK'
  BY <1>1, TypeParts DEF IInv, SourceOK, StoreOK, HandleOK, LentOK
<1>3. TypeOK'
  BY <1>2, TypePartsAfter DEF ControlMoves
<1>4. HandleInv' /\ LentInv' /\ CallInv' /\ ChecksHold'
  BY DEF IInv, HandleInv, LentInv, CallInv, ChecksHold, ControlMoves
<1> QED
  BY <1>3, <1>4 DEF IInv

(* Bytes are consumed.                                                     *)
LEMMA Consumes ==
  ASSUME StoreOK, NEW amt \in 0 .. Len(Unread), NEW o, o.panic = "none",
         StateOK(o.state), Consume(o, amt)
  PROVE  StoreOK' /\ state' = o.state /\ Len(Unread') = Len(Unread) - amt
<1>1. state' = o.state /\ Commit(amt)
  BY DEF Consume
<1>2. /\ data \in Seq(Byte) /\ Len(data) \in Nat /\ pos \in 0 .. Len(data)
      /\ Len(Unread) = Len(data) - pos /\ amt \in Nat /\ Len(data) <= Capacity
  BY UnreadFacts DEF StoreOK
<1>3. CASE pos + amt = Len(data)
  <2>1. data' = <<>> /\ pos' = 0
    BY <1>1, <1>3 DEF Commit
  <2>2. Unread' = <<>>
    BY <2>1, SubSeqEmpty DEF Unread
  <2> QED
    BY <1>1, <1>2, <1>3, <2>1, <2>2, ReaderFacts DEF StoreOK
<1>4. CASE pos + amt # Len(data)
  <2>1. data' = data /\ pos' = pos + amt
    BY <1>1, <1>4 DEF Commit
  <2>2. pos' \in 0 .. Len(data)
    BY <1>2, <2>1
  <2>3. Unread' = SubSeq(data, pos' + 1, Len(data))
    BY <2>1 DEF Unread
  <2>4. Len(Unread') = Len(data) - pos'
    BY <1>2, <2>2, <2>3, SubSeqProperties
  <2>5. Len(Unread') > 0
    BY <1>2, <1>4, <2>1, <2>2, <2>4
  <2>6. Unread' # <<>>
    BY <2>5
  <2> QED
    BY <1>1, <1>2, <1>4, <2>1, <2>2, <2>4, <2>6 DEF StoreOK
<1> QED
  BY <1>3, <1>4

LEMMA ConsumeKeeps ==
  ASSUME IInv, ControlMoves, UNCHANGED <<source, fed, entry, older, found>>,
         NEW amt \in 0 .. Len(Unread), NEW o, o.panic = "none", StateOK(o.state),
         Consume(o, amt), got' \in Seq(Byte),
         entry # NoHeader => /\ OfHandle(o.state)
                             /\ Len(got') = entry.size - DataLeft(o.state),
         lent' \in Nat, lent' + amt <= Len(Unread),
         lent' > 0 => /\ poll' = "idle" /\ entry # NoHeader
                      /\ o.state.tag = "ReceivingData" /\ lent' <= o.state.rem
  PROVE  IInv'
<1>1. SourceOK /\ StoreOK /\ HandleOK
  BY TypeParts DEF IInv
<1>2. StoreOK' /\ state' = o.state /\ Len(Unread') = Len(Unread) - amt
  BY <1>1, Consumes
<1>3. Len(Unread) \in Nat
  BY <1>1, UnreadFacts, LenProperties
<1>4. LentOK'
  BY <1>2, <1>3 DEF LentOK
<1>5. Handles' = Handles
  BY DEF Handles, source
<1>6. SourceOK' /\ HandleOK'
  BY <1>1, <1>5 DEF SourceOK, HandleOK, source
<1>7. TypeOK'
  BY <1>2, <1>4, <1>6, TypePartsAfter DEF ControlMoves
<1>8. HandleInv' /\ LentInv'
  BY <1>2 DEF IInv, HandleInv, LentInv
<1>9. CallInv' /\ ChecksHold'
  BY DEF IInv, CallInv, ChecksHold, ControlMoves
<1> QED
  BY <1>7, <1>8, <1>9 DEF IInv

-----------------------------------------------------------------------------
(* Consumes of the handle that is alive.                                   *)
LEMMA NowFacts ==
  ASSUME IInv
  PROVE  /\ SourceOK /\ StoreOK /\ ControlOK /\ HandleOK /\ LentOK
         /\ StateOK(state) /\ GoodState(state) /\ state.rem \in Nat
         /\ call.hdr \in Header /\ entry \in Header /\ NoHeader \in Header
         /\ got \in Seq(Byte) /\ Len(got) \in Nat
         /\ Unread \in Seq(Byte) /\ Len(Unread) \in Nat /\ lent \in 0 .. Len(Unread)
         /\ poll # "idle" => lent = 0
<1>1. SourceOK /\ StoreOK /\ ControlOK /\ HandleOK /\ LentOK
  BY TypeParts DEF IInv
<1>2. StateOK(state) /\ GoodState(state) /\ state.rem \in Nat
  BY <1>1, Canonical DEF StoreOK, StateOK
<1>3. call.hdr \in Header /\ entry \in Header /\ NoHeader \in Header
  BY <1>1, HandlesAreHeaders DEF ControlOK, CallOK, HandleOK
<1>4. got \in Seq(Byte) /\ Len(got) \in Nat
  BY <1>1, LenProperties DEF HandleOK
<1>5. /\ Unread \in Seq(Byte) /\ Len(Unread) \in Nat /\ lent \in 0 .. Len(Unread)
      /\ poll # "idle" => lent = 0
  BY <1>1, UnreadFacts, LenProperties DEF LentOK, IInv, LentInv
<1> QED
  BY <1>1, <1>2, <1>3, <1>4, <1>5

LEMMA EntryFacts ==
  ASSUME IInv, SizesFit, entry # NoHeader
  PROVE  /\ entry \in Handles /\ entry.size \in Nat
         /\ Len(got) = entry.size - DataLeft(state)
         /\ state.tag = "ReceivingData" =>
              state = ReceivingData(state.rem) /\ AsUsize(state.rem) = state.rem
         /\ state.tag = "AligningData" => state = AligningData(state.rem)
         /\ OfHandle(state) /\ entry.size # BadSize
<1>1. entry \in Handles /\ entry \in HeaderType
  BY NowFacts, HandlesAreHeaders DEF HandleOK
<1>2. entry.size # BadSize /\ OfHandle(state) /\ Len(got) = entry.size - DataLeft(state)
  BY DEF IInv, HandleInv
<1>3. entry.size \in Nat
  BY <1>1, <1>2 DEF HeaderType
<1>4. entry.size < UsizeMod
  BY <1>1, NowFacts DEF SizesFit, Handles, SourceOK
<1>5. ASSUME state.tag = "ReceivingData"
      PROVE  state = ReceivingData(state.rem) /\ AsUsize(state.rem) = state.rem
  <2>1. state.rem \in Nat /\ state.rem <= entry.size
    BY <1>2, <1>3, <1>5, NowFacts DEF DataLeft
  <2>2. state.rem < UsizeMod
    BY <1>3, <1>4, <2>1, UsizeAssumption
  <2> QED
    BY <1>5, <2>2, NowFacts, Canonical DEF AsUsize
<1> QED
  BY <1>1, <1>2, <1>3, <1>5, NowFacts, Canonical

LEMMA AheadNothing ==
  ASSUME IInv
  PROVE  Ahead(0) = <<>>
  BY SubSeqEmpty DEF Ahead

LEMMA HandleStates ==
  /\ \A rem \in Nat : LET s == ReceivingData(rem)
                     IN  StateOK(s) /\ OfHandle(s) /\ DataLeft(s) = rem
  /\ \A rem \in 0 .. BlockSize - 1 : LET s == AligningData(rem)
                     IN  StateOK(s) /\ OfHandle(s) /\ DataLeft(s) = 0
  /\ LET s == ExpectingHeader
     IN  StateOK(s) /\ OfHandle(s) /\ DataLeft(s) = 0
  /\ LET s == ReceivingHeader(BlockSize, TRUE)
     IN  StateOK(s) /\ OfHandle(s) /\ DataLeft(s) = 0
  BY ReaderFacts
     DEF GoodState, StateType, Tags, StateOK, Markers, OfHandle, DataLeft,
         ReceivingData, AligningData, ExpectingHeader, ReceivingHeader, St

(* The state that a consume of `amt' bytes of the entry leaves.            *)
AfterTake(amt) ==
  CASE state.tag = "ReceivingData" ->
         IF amt < state.rem THEN ReceivingData(state.rem - amt)
         ELSE AligningData(Align(entry.size))
    [] state.tag = "AligningData" -> IF state.rem > 0 THEN state ELSE ExpectingHeader
    [] OTHER -> ReceivingHeader(BlockSize, TRUE)

LEMMA EntryConsumes ==
  ASSUME IInv, SizesFit, entry # NoHeader, NEW amt \in 0 .. Len(Unread),
         IF state.tag = "ReceivingData" THEN amt <= state.rem ELSE amt = 0
  PROVE  LET o == Consumed(state, Ahead(amt), entry)
         IN  /\ o.panic = "none" /\ StateOK(o.state) /\ OfHandle(o.state)
             /\ got \o Ahead(amt) \in Seq(Byte)
             /\ Len(got \o Ahead(amt)) = entry.size - DataLeft(o.state)
             /\ o.state = AfterTake(amt)
<1> DEFINE o == Consumed(state, Ahead(amt), entry)
<1>1. /\ Ahead(amt) \in Seq(Byte) /\ Len(Ahead(amt)) = amt /\ amt \in Nat
      /\ state.rem \in Nat /\ entry \in Header /\ entry.size \in Nat
      /\ entry.size # BadSize /\ GoodState(state)
      /\ Len(got) = entry.size - DataLeft(state)
      /\ DataLeft(state) \in Nat
  BY NowFacts, EntryFacts, UnreadFacts DEF DataLeft
<1>2. /\ got \o Ahead(amt) \in Seq(Byte)
      /\ Len(got \o Ahead(amt)) = entry.size - DataLeft(state) + amt
  <2> DEFINE b == Ahead(amt)
  <2>1. b \in Seq(Byte) /\ Len(b) = amt /\ got \in Seq(Byte)
    BY <1>1, NowFacts
  <2> HIDE DEF b
  <2>2. got \o b \in Seq(Byte) /\ Len(got \o b) = Len(got) + Len(b)
    BY <2>1, ConcatProperties
  <2>3. Len(got \o b) = entry.size - DataLeft(state) + amt
    BY <1>1, <2>1, <2>2
  <2> QED
    BY <2>2, <2>3 DEF b
<1>3. CASE state.tag = "ReceivingData" /\ amt < state.rem
  <2>1. o = [state |-> ReceivingData(state.rem - amt), panic |-> "none"]
    BY <1>1, <1>3, EntryFacts, ConsumedData
  <2>2. state.rem - amt \in Nat /\ DataLeft(state) = state.rem
    BY <1>1, <1>3 DEF DataLeft
  <2>3. /\ o.panic = "none" /\ o.state = ReceivingData(state.rem - amt)
        /\ StateOK(o.state) /\ OfHandle(o.state) /\ DataLeft(o.state) = state.rem - amt
    BY <2>1, <2>2, HandleStates
  <2> HIDE DEF o
  <2>4. Len(got \o Ahead(amt)) = entry.size - DataLeft(o.state)
    BY <1>1, <1>2, <2>2, <2>3
  <2>5. o.state = AfterTake(amt)
    BY <1>3, <2>3 DEF AfterTake
  <2> QED
    BY <1>2, <2>3, <2>4, <2>5 DEF o
<1>4. CASE state.tag = "ReceivingData" /\ ~ (amt < state.rem)
  <2>1. amt = state.rem
    BY <1>1, <1>4
  <2>2. o = [state |-> AligningData(Align(entry.size)), panic |-> "none"]
    BY <1>1, <1>4, <2>1, EntryFacts, ConsumedData
  <2>3. Align(entry.size) \in 0 .. BlockSize - 1
    BY <1>1, AlignRange
  <2>4. /\ o.panic = "none" /\ StateOK(o.state) /\ OfHandle(o.state)
        /\ DataLeft(o.state) = 0 /\ DataLeft(state) = state.rem
        /\ o.state = AligningData(Align(entry.size))
    BY <1>4, <2>2, <2>3, HandleStates DEF DataLeft
  <2> HIDE DEF o
  <2>5. Len(got \o Ahead(amt)) = entry.size - DataLeft(o.state)
    BY <1>1, <1>2, <2>1, <2>4
  <2>6. o.state = AfterTake(amt)
    BY <1>4, <2>4 DEF AfterTake
  <2> QED
    BY <1>2, <2>4, <2>5, <2>6 DEF o
<1>5. CASE state.tag # "ReceivingData"
  <2>1. amt = 0 /\ Ahead(amt) = <<>> /\ DataLeft(state) = 0
    BY <1>5, AheadNothing DEF DataLeft
  <2> SUFFICES o.panic = "none" /\ StateOK(o.state) /\ OfHandle(o.state)
               /\ DataLeft(o.state) = 0 /\ o.state = AfterTake(amt)
    BY <1>1, <1>2, <1>5, <2>1
  <2>2. CASE state.tag = "AligningData"
    <3> DEFINE s1 == IF 0 < state.rem THEN AligningData(state.rem - 0)
                     ELSE ExpectingHeader
    <3>1. o = [state |-> s1, panic |-> "none"]
      <4>1. state = AligningData(state.rem) /\ Len(Ahead(amt)) = 0
        BY <1>1, <2>1, <2>2, EntryFacts
      <4>2. Len(Ahead(amt)) <= state.rem
        BY <1>1, <4>1
      <4>3. Consumed(AligningData(state.rem), Ahead(amt), entry) =
              [state |-> IF Len(Ahead(amt)) < state.rem
                         THEN AligningData(state.rem - Len(Ahead(amt)))
                         ELSE ExpectingHeader,
               panic |-> "none"]
        BY <1>1, <4>2, ConsumedAlign
      <4> QED
        BY <4>1, <4>3
    <3>2. state.rem \in 0 .. BlockSize - 1
      BY <1>1, <2>2, ReaderFacts DEF GoodState
    <3>3. StateOK(s1) /\ OfHandle(s1) /\ DataLeft(s1) = 0
      BY <3>2, HandleStates
    <3>4. s1 = AfterTake(amt)
      <4>1. state = AligningData(state.rem)
        BY <2>2, EntryFacts
      <4>2. state.rem - 0 = state.rem /\ (0 < state.rem <=> state.rem > 0)
        BY <3>2
      <4> QED
        BY <2>2, <4>1, <4>2 DEF AfterTake
    <3> QED
      BY <3>1, <3>3, <3>4
  <2>3. ASSUME o = [state |-> ReceivingHeader(BlockSize, TRUE), panic |-> "none"],
               state.tag \in {"ExpectingHeader", "ReceivingHeader"}
        PROVE  o.panic = "none" /\ StateOK(o.state) /\ OfHandle(o.state)
               /\ DataLeft(o.state) = 0 /\ o.state = AfterTake(amt)
    <3> DEFINE s1 == ReceivingHeader(BlockSize, TRUE)
    <3>1. StateOK(s1) /\ OfHandle(s1) /\ DataLeft(s1) = 0
      BY HandleStates
    <3>3. s1 = AfterTake(amt)
      BY <2>3 DEF AfterTake
    <3> HIDE DEF s1
    <3>2. o = [state |-> s1, panic |-> "none"]
      BY <2>3 DEF s1
    <3> HIDE DEF o
    <3> QED
      BY <3>1, <3>2, <3>3
  <2>4. CASE state.tag = "ExpectingHeader"
    <3>1. state = ExpectingHeader /\ state.tag \in {"ExpectingHeader", "ReceivingHeader"}
      BY <1>1, <2>4, Canonical
    <3> QED
      BY <1>1, <2>1, <2>3, <3>1, ConsumedBefore
  <2>5. CASE state = ReceivingHeader(BlockSize, TRUE)
    <3> DEFINE b == Ahead(amt)
    <3>1. b \in Seq(Byte) /\ Len(b) = 0 /\ AllZero(b)
      BY <1>1, <2>1 DEF AllZero
    <3> HIDE DEF b
    <3>2. ASSUME NEW z \in BOOLEAN, z <=> (TRUE /\ AllZero(b))
          PROVE  Consumed(ReceivingHeader(BlockSize, TRUE), b, entry) =
                   [state |-> AfterHeaderBytes(BlockSize - Len(b), z), panic |-> "none"]
      <4>1. TRUE \in BOOLEAN /\ Len(b) <= BlockSize /\ Len(b) < BlockSize
        BY <3>1, ReaderFacts
      <4>2. Len(b) < BlockSize \/ z
        BY <4>1
      <4>3. BlockSize \in Nat
        BY ReaderFacts
      <4> QED
        BY <1>1, <3>1, <3>2, <4>1, <4>2, <4>3, ConsumedPart
    <3>3. Consumed(ReceivingHeader(BlockSize, TRUE), b, entry) =
            [state |-> AfterHeaderBytes(BlockSize - Len(b), TRUE), panic |-> "none"]
      BY <3>1, <3>2, Zenon
    <3>4. AfterHeaderBytes(BlockSize - Len(b), TRUE) = ReceivingHeader(BlockSize, TRUE)
      BY <3>1, ReaderFacts DEF AfterHeaderBytes
    <3>5. state.tag \in {"ExpectingHeader", "ReceivingHeader"}
      BY <2>5 DEF ReceivingHeader, St
    <3>6. o = [state |-> ReceivingHeader(BlockSize, TRUE), panic |-> "none"]
      BY <2>5, <3>3, <3>4 DEF b
    <3> HIDE DEF o
    <3> QED
      BY <2>3, <3>5, <3>6
  <2> QED
    BY <1>5, <2>2, <2>4, <2>5, EntryFacts DEF OfHandle
<1> QED
  BY <1>3, <1>4, <1>5

-----------------------------------------------------------------------------
(* The reads of the object.                                                *)
LEMMA FillInv ==
  ASSUME IInv, FillStep
  PROVE  IInv'
<1>1. /\ SourceOK /\ StoreOK /\ ControlOK /\ HandleOK /\ LentOK
      /\ lent = 0 /\ poll = "running" /\ data = <<>> /\ Room > 0
  <2>1. Fills
    BY DEF FillStep, FillBuf, FillStalls, FillEnds
  <2>2. data = <<>> /\ Len(data) = 0
    BY <2>1, NowFacts DEF Fills, StoreOK
  <2> QED
    BY <2>1, <2>2, NowFacts, ReaderFacts DEF Fills, Room
<1>2. CASE FillBuf
  <2>1. PICK n \in 1 .. FillLen :
          /\ data' = data \o SubSeq(bytes, fed + 1, fed + n)
          /\ fed' = fed + n
    <3>1. FillLen \in Nat /\ FillLen > 0
      BY <1>1, <1>2, LenProperties, ReaderFacts
         DEF FillBuf, FillLen, Room, Left, SourceOK, StoreOK
    <3>2. (IF ShortReads THEN 1 .. FillLen ELSE {FillLen}) \subseteq 1 .. FillLen
      BY <3>1
    <3> QED
      BY <1>2, <3>2 DEF FillBuf
  <2>2. n \in Nat /\ n > 0 /\ n <= Capacity /\ fed + n <= Len(bytes)
    BY <1>1, LenProperties, ReaderFacts DEF FillLen, Room, Left, SourceOK, StoreOK
  <2>3. /\ SubSeq(bytes, fed + 1, fed + n) \in Seq(Byte)
        /\ Len(SubSeq(bytes, fed + 1, fed + n)) = n
    <3>1. fed \in Nat /\ Len(bytes) \in Nat /\ bytes \in Seq(Byte)
      BY <1>1, LenProperties DEF SourceOK
    <3>2. \A i \in fed + 1 .. fed + n : bytes[i] \in Byte
      BY <2>2, <3>1, ElementOfSeq
    <3> QED
      BY <2>2, <3>1, <3>2, SubSeqProperties
  <2>4. data' = SubSeq(bytes, fed + 1, fed + n)
    BY <1>1, <2>1, <2>3, ConcatEmptySeq
  <2>5. pos = 0
    BY <1>1 DEF StoreOK
  <2>6. data' \in Seq(Byte) /\ Len(data') = n /\ pos' = 0 /\ state' = state
    BY <1>2, <2>3, <2>4, <2>5 DEF FillBuf
  <2>7. Unread' = data'
    BY <2>6, SubSeqFull DEF Unread
  <2>8. StoreOK'
    BY <1>1, <2>2, <2>6, <2>7 DEF StoreOK
  <2>9. Handles' = Handles
    BY <1>2 DEF FillBuf, source, Handles
  <2>10. SourceOK' /\ ControlOK' /\ HandleOK' /\ LentOK'
    BY <1>1, <1>2, <2>1, <2>2, <2>6, <2>7, <2>9
       DEF FillBuf, source, control, handle, SourceOK, ControlOK, CallOK, RetOK,
           HandleOK, LentOK
  <2>11. TypeOK'
    BY <2>8, <2>10, TypePartsAfter
  <2>12. HandleInv' /\ LentInv' /\ CallInv' /\ ChecksHold' /\ older' = {}
    BY <1>2 DEF IInv, FillBuf, control, handle, HandleInv, LentInv, CallInv, ChecksHold
  <2> QED
    BY <2>11, <2>12 DEF IInv
<1>3. CASE FillStalls
  <2>1. PICK res \in Faults : Leave(res)
    BY <1>3 DEF FillStalls
  <2>2. ControlMoves
    BY <1>1, <1>3, <2>1, ReaderFacts, LeaveMoves DEF FillStalls
  <2> QED
    BY <1>1, <1>3, <2>2, Stays DEF FillStalls
<1>4. CASE FillEnds
  <2>1. Return("baddata", 0) \/ Return("eof", 0)
    BY <1>1, <1>4, ReaderFacts DEF FillEnds
  <2>2. ControlMoves
    BY <1>1, <1>4, <2>1, ReturnMoves DEF FillEnds, ResNames
  <2> QED
    BY <1>1, <1>4, <2>2, Stays DEF FillEnds
<1> QED
  BY <1>2, <1>3, <1>4 DEF FillStep

-----------------------------------------------------------------------------
(* The reads of an entry.                                                  *)
LEMMA ReadTurnFacts ==
  ASSUME IInv, SizesFit, ReadTurn
  PROVE  /\ entry # NoHeader /\ call.hdr = entry /\ lent = 0 /\ poll = "running"
         /\ Unread \in Seq(Byte) /\ Len(Unread) > 0 /\ Len(Unread) \in Nat
         /\ OfHandle(state) /\ state.rem \in Nat
  BY NowFacts, EntryFacts, UnreadFacts DEF ReadTurn, Filled, IInv, CallInv

(* The answer is data exactly while State is in the data.                  *)
LEMMA AfterReadIs ==
  ASSUME IInv, SizesFit, ReadTurn
  PROVE  /\ state.tag = "ReceivingData" =>
              /\ AfterRead.n = Advance(Unread, state.rem)
              /\ AfterRead.err = "none"
              /\ AfterRead.n \in 0 .. Len(Unread) /\ AfterRead.n <= state.rem
              /\ AfterRead.n = 0 => state.rem = 0
              /\ AfterRead.state.tag \in {"ReceivingData", "ReceivedData"}
         /\ state.tag = "AligningData" =>
              /\ AfterRead.n \in 0 .. Len(Unread) /\ AfterRead.n <= state.rem
              /\ AfterRead = IF AfterRead.n < state.rem
                             THEN Result(AligningData(state.rem - AfterRead.n), AfterRead.n)
                             ELSE Result(AlignedData, AfterRead.n)
         /\ state.tag \in {"ExpectingHeader", "ReceivingHeader"} =>
              AfterRead.state.tag \in {"ReceivingHeader", "ReceivingEof", "ReceivedHeader"}
<1>1. /\ Unread \in Seq(Byte) /\ state.rem \in Nat /\ GoodState(state)
      /\ Len(Unread) \in Nat /\ Len(Unread) > 0
  BY NowFacts, ReadTurnFacts
<1>2. ASSUME state.tag = "ReceivingData"
      PROVE  /\ AfterRead.n = Advance(Unread, state.rem)
             /\ AfterRead.err = "none"
             /\ AfterRead.n \in 0 .. Len(Unread) /\ AfterRead.n <= state.rem
             /\ AfterRead.n = 0 => state.rem = 0
             /\ AfterRead.state.tag \in {"ReceivingData", "ReceivedData"}
  <2> DEFINE n == Advance(Unread, state.rem)
  <2>1. state = ReceivingData(state.rem) /\ AsUsize(state.rem) = state.rem
    BY <1>2, EntryFacts, ReadTurnFacts
  <2>2. TarNext(ReceivingData(state.rem), Unread, call.hdr) =
          IF Advance(Unread, AsUsize(state.rem)) < state.rem
          THEN Result(ReceivingData(state.rem - Advance(Unread, AsUsize(state.rem))),
                      Advance(Unread, AsUsize(state.rem)))
          ELSE Result(ReceivedData, Advance(Unread, AsUsize(state.rem)))
    BY <1>1, NextData
  <2>3. AfterRead = IF n < state.rem THEN Result(ReceivingData(state.rem - n), n)
                    ELSE Result(ReceivedData, n)
    BY <2>1, <2>2 DEF AfterRead
  <2>4. n \in 0 .. Len(Unread) /\ n <= state.rem /\ (n = 0 => state.rem = 0)
    BY <1>1 DEF Advance
  <2> HIDE DEF n
  <2>5. AfterRead.n = n /\ AfterRead.err = "none"
        /\ AfterRead.state.tag \in {"ReceivingData", "ReceivedData"}
    BY <2>3 DEF Result, ReceivingData, ReceivedData, St
  <2> QED
    BY <2>4, <2>5 DEF n
<1>3. ASSUME state.tag = "AligningData"
      PROVE  /\ AfterRead.n \in 0 .. Len(Unread) /\ AfterRead.n <= state.rem
             /\ AfterRead = IF AfterRead.n < state.rem
                            THEN Result(AligningData(state.rem - AfterRead.n), AfterRead.n)
                            ELSE Result(AlignedData, AfterRead.n)
  <2> DEFINE n == Advance(Unread, state.rem)
  <2>1. state = AligningData(state.rem)
    BY <1>1, <1>3, Canonical
  <2>2. TarNext(AligningData(state.rem), Unread, call.hdr) =
          IF n < state.rem THEN Result(AligningData(state.rem - n), n)
          ELSE Result(AlignedData, n)
    BY <1>1, NextAlign
  <2>3. AfterRead = IF n < state.rem THEN Result(AligningData(state.rem - n), n)
                    ELSE Result(AlignedData, n)
    BY <2>1, <2>2 DEF AfterRead
  <2>4. n \in 0 .. Len(Unread) /\ n <= state.rem
    BY <1>1, AdvanceFacts
  <2> HIDE DEF n
  <2>5. AfterRead.n = n
    BY <2>3 DEF Result
  <2> QED
    BY <2>3, <2>4, <2>5
<1>4. ASSUME state.tag \in {"ExpectingHeader", "ReceivingHeader"}
      PROVE  AfterRead.state.tag \in {"ReceivingHeader", "ReceivingEof", "ReceivedHeader"}
  BY <1>4 DEF AfterRead, TarNext, NextReceivingHeader, Result, ReceivingHeader,
     ReceivingEof, ReceivedHeader, St
<1> QED
  BY <1>2, <1>3, <1>4

(* The bytes that a call takes of the entry.                               *)
LEMMA TakeInv ==
  ASSUME IInv, SizesFit, ReadTurn, state.tag = "ReceivingData",
         NEW amt \in 0 .. Len(Unread), amt <= state.rem,
         ControlMoves, Consume(Consumed(state, Ahead(amt), call.hdr), amt),
         Takes(amt), UNCHANGED <<source, fed, lent>>
  PROVE  IInv'
<1> DEFINE o == Consumed(state, Ahead(amt), entry)
<1>1. entry # NoHeader /\ call.hdr = entry /\ lent = 0 /\ Len(Unread) \in Nat
  BY ReadTurnFacts
<1>2. /\ o.panic = "none" /\ StateOK(o.state) /\ OfHandle(o.state)
      /\ got \o Ahead(amt) \in Seq(Byte)
      /\ Len(got \o Ahead(amt)) = entry.size - DataLeft(o.state)
  BY <1>1, EntryConsumes
<1>3. Consume(o, amt)
  BY <1>1
<1> HIDE DEF o
<1>4. got' = got \o Ahead(amt) /\ UNCHANGED <<entry, older, found>>
  BY DEF Takes
<1>5. lent' \in Nat /\ lent' = 0 /\ lent' + amt <= Len(Unread)
  BY <1>1
<1> QED
  BY <1>1, <1>2, <1>3, <1>4, <1>5, ConsumeKeeps

(* The bytes of the alignment, which belong to no call.                    *)
LEMMA PassInv ==
  ASSUME IInv, NEW amt \in 0 .. Len(Unread), NEW o, o.panic = "none",
         StateOK(o.state), Consume(o, amt), ControlMoves, lent = 0,
         entry # NoHeader => /\ OfHandle(o.state)
                             /\ DataLeft(o.state) = DataLeft(state),
         UNCHANGED <<source, fed, handle>>
  PROVE  IInv'
<1>1. /\ UNCHANGED <<source, fed, entry, older, found>> /\ got' = got /\ lent' = 0
      /\ got' \in Seq(Byte) /\ Len(Unread) \in Nat
  BY NowFacts DEF handle
<1>2. entry # NoHeader => /\ OfHandle(o.state)
                          /\ Len(got') = entry.size - DataLeft(o.state)
  BY <1>1 DEF IInv, HandleInv
<1>3. lent' \in Nat /\ lent' + amt <= Len(Unread)
  BY <1>1
<1> QED
  BY <1>1, <1>2, <1>3, ConsumeKeeps

LEMMA DataStep ==
  ASSUME IInv, SizesFit, HasData
  PROVE  /\ ReadTurn /\ state.tag = "ReceivingData"
         /\ entry # NoHeader /\ call.hdr = entry /\ lent = 0 /\ poll = "running"
         /\ AfterRead.n \in 0 .. Len(Unread) /\ AfterRead.n <= state.rem
         /\ AfterRead.n = 0 => state.rem = 0
         /\ Len(Unread) \in Nat /\ Len(Unread) > 0 /\ state.rem \in Nat
<1>1. ReadTurn
  BY DEF HasData
<1>2. state.tag = "ReceivingData"
  <2>1. state.tag \in {"ReceivingData", "AligningData", "ExpectingHeader",
                       "ReceivingHeader"}
    BY <1>1, ReadTurnFacts DEF OfHandle, ReceivingHeader, St
  <2>2. AfterRead.state.tag \in {"ReceivingData", "ReceivedData"}
    BY DEF HasData
  <2>3. state.tag # "AligningData"
    BY <1>1, <2>2, AfterReadIs DEF Result, AligningData, AlignedData, St
  <2> QED
    BY <1>1, <2>1, <2>2, <2>3, AfterReadIs
<1> QED
  BY <1>1, <1>2, ReadTurnFacts, AfterReadIs

LEMMA LendsInv ==
  ASSUME IInv, SizesFit, Lends
  PROVE  IInv'
<1>1. HasData /\ Return("ok", AfterRead.n) /\ lent' = AfterRead.n
      /\ UNCHANGED <<source, fed, archive, entry, older, found, got>>
  BY DEF Lends
<1>2. /\ entry # NoHeader /\ state.tag = "ReceivingData"
      /\ AfterRead.n \in 0 .. Len(Unread) /\ AfterRead.n <= state.rem
      /\ AfterRead.n \in Nat
  BY <1>1, DataStep
<1>3. SourceOK /\ StoreOK /\ ControlOK /\ HandleOK
  BY NowFacts
<1>4. ControlMoves /\ poll' = "idle"
  BY <1>1, <1>2, <1>3, ReturnMoves DEF ResNames
<1>5. Handles' = Handles /\ Unread' = Unread /\ state' = state
  BY <1>1 DEF source, archive, Handles, Unread
<1>6. SourceOK' /\ StoreOK' /\ HandleOK' /\ LentOK'
  BY <1>1, <1>2, <1>3, <1>5
     DEF source, archive, SourceOK, StoreOK, HandleOK, LentOK
<1>7. TypeOK'
  BY <1>4, <1>6, TypePartsAfter DEF ControlMoves
<1>8. HandleInv' /\ LentInv' /\ CallInv' /\ ChecksHold' /\ older' = {}
  BY <1>1, <1>2, <1>4, <1>5
     DEF IInv, HandleInv, LentInv, CallInv, ChecksHold, ControlMoves
<1> QED
  BY <1>7, <1>8 DEF IInv

LEMMA ReadsInv ==
  ASSUME IInv, SizesFit, Reads
  PROVE  IInv'
<1> DEFINE amt == ReadLen
           o   == Consumed(state, Ahead(amt), call.hdr)
<1>1. HasData /\ call.op = "read" /\ Consume(o, amt) /\ ReturnUnless(o.panic, "ok", amt)
      /\ Takes(amt) /\ UNCHANGED <<source, fed, lent>>
  BY DEF Reads
<1>2. ReadTurn /\ state.tag = "ReceivingData" /\ call.hdr = entry /\ entry # NoHeader
  BY <1>1, DataStep
<1>3. amt \in 0 .. Len(Unread) /\ amt <= state.rem /\ amt \in Nat
  <2>1. call.n \in Nat
    <3>1. call.n \in ReadSizes \cup {0}
      BY NowFacts DEF ControlOK, CallOK
    <3>2. \A m \in ReadSizes \cup {0} : m \in Nat
      BY ReaderFacts
    <3> QED
      BY <3>1, <3>2
  <2> QED
    BY <1>1, <2>1, DataStep DEF ReadLen
<1>4. o.panic = "none"
  BY <1>2, <1>3, EntryConsumes
<1> HIDE DEF amt, o
<1>5. Return("ok", amt)
  BY <1>1, <1>4 DEF ReturnUnless
<1>6. ControlMoves
  BY <1>1, <1>3, <1>5, NowFacts, ReturnMoves DEF ResNames
<1> QED
  BY <1>1, <1>2, <1>3, <1>6, TakeInv DEF o

LEMMA SkipsInv ==
  ASSUME IInv, SizesFit, Skips
  PROVE  IInv'
<1> DEFINE amt == AfterRead.n
           o   == Consumed(state, Ahead(amt), call.hdr)
<1>1. HasData /\ Takes(amt) /\ UNCHANGED <<source, fed, lent>>
  BY DEF Skips
<1>2. /\ ReadTurn /\ state.tag = "ReceivingData" /\ call.hdr = entry
      /\ entry # NoHeader /\ lent = 0 /\ poll = "running"
      /\ amt \in 0 .. Len(Unread) /\ amt <= state.rem /\ amt \in Nat
  BY <1>1, DataStep
<1>3. CASE amt = 0
  <2>1. Panic("skip") /\ UNCHANGED archive
    BY <1>3 DEF Skips
  <2>2. ControlMoves
    BY <1>1, <2>1, NowFacts, PanicMoves
  <2>3. got' = got
    <3>1. Ahead(amt) = <<>>
      BY <1>3, AheadNothing
    <3>2. got' = got \o <<>>
      BY <1>1, <3>1 DEF Takes
    <3> QED
      BY <3>2, NowFacts, ConcatEmptySeq
  <2>4. UNCHANGED handle
    BY <1>1, <2>3 DEF Takes, handle
  <2> QED
    BY <1>1, <1>2, <2>1, <2>2, <2>4, Stays
<1>4. CASE amt # 0
  <2>1. Consume(o, amt) /\ ContinueUnless(o.panic)
    BY <1>4 DEF Skips
  <2>2. o.panic = "none"
    BY <1>2, EntryConsumes
  <2> HIDE DEF amt, o
  <2>3. Continue
    BY <2>1, <2>2 DEF ContinueUnless
  <2>4. ControlMoves
    BY <1>1, <2>3, NowFacts, ContinueMoves
  <2> QED
    BY <1>1, <1>2, <2>1, <2>4, TakeInv DEF o
<1> QED
  BY <1>3, <1>4

LEMMA ReadAlignsIs ==
  ASSUME IInv, SizesFit, ReadAligns
  PROVE  LET n == AfterRead.n
             o == Consumed(state, Ahead(n), NoHeader)
         IN  /\ entry # NoHeader /\ lent = 0 /\ state.rem \in Nat /\ GoodState(state)
             /\ state.tag = "AligningData" /\ state = AligningData(state.rem)
             /\ n \in 0 .. Len(Unread) /\ n < state.rem /\ n \in Nat
             /\ o = [state |-> AligningData(state.rem - n), panic |-> "none"]
<1> DEFINE n == AfterRead.n
           o == Consumed(state, Ahead(n), NoHeader)
<1>1. /\ ReadTurn /\ AfterRead.state.tag = "AligningData"
      /\ Consume(o, n) /\ ContinueUnless(o.panic)
      /\ UNCHANGED <<source, fed, handle>>
  BY DEF ReadAligns
<1>2. /\ entry # NoHeader /\ lent = 0 /\ state.rem \in Nat /\ GoodState(state)
      /\ NoHeader \in Header
  BY <1>1, ReadTurnFacts, NowFacts
<1>3. state.tag = "AligningData"
  <2>1. state.tag \in {"ReceivingData", "AligningData", "ExpectingHeader",
                       "ReceivingHeader"}
    BY <1>1, ReadTurnFacts DEF OfHandle, ReceivingHeader, St
  <2> QED
    BY <1>1, <2>1, AfterReadIs
<1>4. n \in 0 .. Len(Unread) /\ n < state.rem /\ n \in Nat
  <2>1. AfterRead.state # AlignedData
    BY <1>1 DEF AlignedData, St
  <2>2. n \in 0 .. Len(Unread) /\ n <= state.rem
    BY <1>1, <1>3, AfterReadIs
  <2>3. n < state.rem
    BY <1>1, <1>3, <2>1, AfterReadIs DEF Result
  <2> QED
    BY <2>2, <2>3
<1>5. o = [state |-> AligningData(state.rem - n), panic |-> "none"]
  <2>1. Ahead(n) \in Seq(Byte) /\ Len(Ahead(n)) = n
    BY <1>4, UnreadFacts, NowFacts
  <2>2. state = AligningData(state.rem)
    BY <1>2, <1>3, Canonical
  <2>3. Len(Ahead(n)) <= state.rem
    BY <1>2, <1>4, <2>1
  <2>4. Consumed(AligningData(state.rem), Ahead(n), NoHeader) =
          [state |-> IF Len(Ahead(n)) < state.rem
                     THEN AligningData(state.rem - Len(Ahead(n)))
                     ELSE ExpectingHeader,
           panic |-> "none"]
    BY <1>2, <2>1, <2>3, ConsumedAlign
  <2> HIDE DEF n
  <2> QED
    BY <1>4, <2>1, <2>2, <2>4 DEF o
<1>6. state = AligningData(state.rem)
  BY <1>2, <1>3, Canonical
<1> QED
  BY <1>2, <1>3, <1>4, <1>5, <1>6, Zenon

LEMMA ReadAlignsInv ==
  ASSUME IInv, SizesFit, ReadAligns
  PROVE  IInv'
<1> DEFINE n == AfterRead.n
           o == Consumed(state, Ahead(n), NoHeader)
<1>1. /\ ReadTurn /\ Consume(o, n) /\ ContinueUnless(o.panic)
      /\ UNCHANGED <<source, fed, handle>>
  BY DEF ReadAligns
<1>2. /\ entry # NoHeader /\ lent = 0 /\ state.rem \in Nat /\ GoodState(state)
      /\ state.tag = "AligningData"
      /\ n \in 0 .. Len(Unread) /\ n < state.rem /\ n \in Nat
  BY ReadAlignsIs
<1>3. o = [state |-> AligningData(state.rem - n), panic |-> "none"]
  BY ReadAlignsIs
<1> HIDE DEF n
<1>6. state.rem - n \in 0 .. BlockSize - 1
  BY <1>2, ReaderFacts DEF GoodState
<1>7. /\ o.panic = "none" /\ StateOK(o.state) /\ OfHandle(o.state)
      /\ DataLeft(o.state) = DataLeft(state)
  BY <1>2, <1>3, <1>6, HandleStates DEF DataLeft
<1> HIDE DEF o
<1>8. Continue
  BY <1>1, <1>7 DEF ContinueUnless
<1>9. ControlMoves
  BY <1>1, <1>8, NowFacts, ContinueMoves
<1> QED
  BY <1>1, <1>2, <1>7, <1>9, PassInv

LEMMA ReadEndsIs ==
  ASSUME IInv, SizesFit, ReadEnds
  PROVE  LET n == AfterRead.n
             o == ConsumedAtEnd(Consumed(state, Ahead(n), call.hdr))
             t == IF call.op = "read" THEN ReceivingHeader(BlockSize, TRUE)
                  ELSE ExpectingHeader
         IN  /\ entry # NoHeader /\ lent = 0
             /\ state.tag = "AligningData" /\ state = AligningData(state.rem)
             /\ n \in 0 .. Len(Unread) /\ n = state.rem /\ n \in Nat
             /\ o = [state |-> t, panic |-> "none"]
             /\ StateOK(t) /\ OfHandle(t) /\ DataLeft(t) = DataLeft(state)
<1> DEFINE n == AfterRead.n
           c == Consumed(state, Ahead(n), call.hdr)
           o == ConsumedAtEnd(c)
<1>1. /\ ReadTurn /\ AfterRead.state = AlignedData
      /\ Consume(o, n)
      /\ IF call.op = "skip" /\ o.panic = "none" /\ o.state # ExpectingHeader
         THEN Panic("skip") ELSE ReturnUnless(o.panic, "ok", 0)
      /\ UNCHANGED <<source, fed, handle>>
  BY DEF ReadEnds
<1>2. /\ entry # NoHeader /\ lent = 0 /\ state.rem \in Nat /\ GoodState(state)
      /\ call.hdr \in Header
  BY <1>1, ReadTurnFacts, NowFacts
<1>3. state.tag = "AligningData"
  <2>1. state.tag \in {"ReceivingData", "AligningData", "ExpectingHeader",
                       "ReceivingHeader"}
    BY <1>1, ReadTurnFacts DEF OfHandle, ReceivingHeader, St
  <2>2. AfterRead.state.tag = "AlignedData"
    BY <1>1 DEF AlignedData, St
  <2> QED
    BY <1>1, <2>1, <2>2, AfterReadIs
<1>4. n \in 0 .. Len(Unread) /\ n = state.rem /\ n \in Nat
  <2>1. n \in 0 .. Len(Unread) /\ n <= state.rem /\ n \in Nat
    BY <1>1, <1>3, AfterReadIs
  <2>2. ~ (n < state.rem)
    <3>1. ASSUME n < state.rem PROVE FALSE
      <4>1. AfterRead.state = AligningData(state.rem - n)
        BY <1>1, <1>3, <3>1, AfterReadIs DEF Result
      <4> QED
        BY <1>1, <4>1 DEF AligningData, AlignedData, St
    <3> QED
      BY <3>1
  <2> QED
    BY <1>2, <2>1, <2>2
<1>5. c = [state |-> ExpectingHeader, panic |-> "none"]
  <2>1. Ahead(n) \in Seq(Byte) /\ Len(Ahead(n)) = n
    BY <1>4, UnreadFacts, NowFacts
  <2>2. state = AligningData(state.rem)
    BY <1>2, <1>3, Canonical
  <2>3. Len(Ahead(n)) <= state.rem /\ ~ (Len(Ahead(n)) < state.rem)
    BY <1>2, <1>4, <2>1
  <2>4. Consumed(AligningData(state.rem), Ahead(n), call.hdr) =
          [state |-> IF Len(Ahead(n)) < state.rem
                     THEN AligningData(state.rem - Len(Ahead(n)))
                     ELSE ExpectingHeader,
           panic |-> "none"]
    BY <1>2, <2>1, <2>3, ConsumedAlign
  <2> QED
    BY <2>2, <2>3, <2>4
<1> HIDE DEF c
<1>6. CASE call.op = "read"
  <2>1. o = Consumed(ExpectingHeader, <<>>, call.hdr)
    BY <1>5, <1>6 DEF ConsumedAtEnd
  <2>2. o = [state |-> ReceivingHeader(BlockSize, TRUE), panic |-> "none"]
    BY <1>2, <2>1, ConsumedBefore
  <2>3. LET t == ReceivingHeader(BlockSize, TRUE)
        IN  StateOK(t) /\ OfHandle(t) /\ DataLeft(t) = DataLeft(state)
    BY <1>3, HandleStates DEF DataLeft
  <2>4. state = AligningData(state.rem)
    BY <1>2, <1>3, Canonical
  <2> HIDE DEF o, n
  <2> QED
    BY <1>2, <1>3, <1>4, <1>6, <2>2, <2>3, <2>4 DEF n, o, c
<1>7. CASE call.op # "read"
  <2>1. o = [state |-> ExpectingHeader, panic |-> "none"]
    BY <1>5, <1>7 DEF ConsumedAtEnd
  <2>2. LET t == ExpectingHeader
        IN  StateOK(t) /\ OfHandle(t) /\ DataLeft(t) = DataLeft(state)
    BY <1>3, HandleStates DEF DataLeft
  <2>3. state = AligningData(state.rem)
    BY <1>2, <1>3, Canonical
  <2> HIDE DEF o, n
  <2> QED
    BY <1>2, <1>3, <1>4, <1>7, <2>1, <2>2, <2>3 DEF n, o, c
<1> QED
  BY <1>6, <1>7

LEMMA ReadEndsInv ==
  ASSUME IInv, SizesFit, ReadEnds
  PROVE  IInv'
<1> DEFINE n == AfterRead.n
           o == ConsumedAtEnd(Consumed(state, Ahead(n), call.hdr))
           t == IF call.op = "read" THEN ReceivingHeader(BlockSize, TRUE)
                ELSE ExpectingHeader
<1>1. /\ ReadTurn /\ Consume(o, n)
      /\ IF call.op = "skip" /\ o.panic = "none" /\ o.state # ExpectingHeader
         THEN Panic("skip") ELSE ReturnUnless(o.panic, "ok", 0)
      /\ UNCHANGED <<source, fed, handle>>
  BY DEF ReadEnds
<1>2. /\ lent = 0 /\ n \in 0 .. Len(Unread)
      /\ o = [state |-> t, panic |-> "none"]
      /\ StateOK(t) /\ OfHandle(t) /\ DataLeft(t) = DataLeft(state)
  BY ReadEndsIs
<1>3. call.op = "skip" => t = ExpectingHeader
  OBVIOUS
<1> HIDE DEF t
<1>4. /\ o.panic = "none" /\ StateOK(o.state) /\ OfHandle(o.state)
      /\ DataLeft(o.state) = DataLeft(state)
      /\ call.op = "skip" => o.state = ExpectingHeader
  BY <1>2, <1>3
<1> HIDE DEF n, o
<1>5. Return("ok", 0)
  BY <1>1, <1>4 DEF ReturnUnless
<1>6. ControlMoves
  BY <1>1, <1>5, NowFacts, ReturnMoves DEF ResNames
<1> QED
  BY <1>1, <1>2, <1>4, <1>6, PassInv

LEMMA ReadInv ==
  ASSUME IInv, SizesFit, ReadStep
  PROVE  IInv'
<1>1. CASE ReadRefused
  <2>1. Panic("unreachable") \/ Return("baddata", 0)
    BY <1>1 DEF ReadRefused
  <2>2. ControlMoves
    BY <1>1, <2>1, NowFacts, PanicMoves, ReturnMoves DEF ReadRefused, ResNames
  <2>3. lent = 0
    BY <1>1, ReadTurnFacts DEF ReadRefused
  <2> QED
    BY <1>1, <2>2, <2>3, Stays DEF ReadRefused
<1>2. CASE ReadNothing
  <2>1. ControlMoves
    BY <1>2, NowFacts, ReturnMoves DEF ReadNothing, ResNames
  <2>2. lent = 0
    BY <1>2, NowFacts DEF ReadNothing
  <2> QED
    BY <1>2, <2>1, <2>2, Stays DEF ReadNothing
<1> QED
  BY <1>1, <1>2, LendsInv, ReadsInv, SkipsInv, ReadAlignsInv, ReadEndsInv DEF ReadStep

-----------------------------------------------------------------------------
(* next_entry.  No handle is alive while it runs.                          *)
LEMMA NextTurnFacts ==
  ASSUME IInv, NextEntryTurn
  PROVE  /\ entry = NoHeader /\ lent = 0 /\ poll = "running" /\ call.op = "next_entry"
         /\ Unread \in Seq(Byte) /\ Len(Unread) \in Nat
         /\ GoodState(state) /\ state.rem \in Nat /\ state.empty \in BOOLEAN
         /\ state.tag \notin Markers /\ state.tag # "ReceivedEof"
         /\ NoHeader \in Header
  BY NowFacts, Canonical
     DEF NextEntryTurn, Filled, IInv, CallInv, Terminal, StateOK

LEMMA AfterHeader ==
  ASSUME IInv, NextEntryTurn, state.tag = "ReceivingHeader",
         NEW z \in BOOLEAN,
         z <=> (state.empty /\ AllZero(Ahead(AfterNext.n)))
  PROVE  /\ AfterNext = Result(AfterHeaderBytes(state.rem - AfterNext.n, z), AfterNext.n)
         /\ AfterNext.n \in 0 .. Len(Unread) /\ AfterNext.n <= state.rem
         /\ state = ReceivingHeader(state.rem, state.empty)
         /\ state.rem \in 1 .. BlockSize
         /\ Ahead(AfterNext.n) \in Seq(Byte) /\ Len(Ahead(AfterNext.n)) = AfterNext.n
<1> DEFINE n == Advance(Unread, state.rem)
<1>1. state = ReceivingHeader(state.rem, state.empty) /\ state.rem \in 1 .. BlockSize
  BY NextTurnFacts, Canonical DEF GoodState
<1>2. ASSUME NEW y \in BOOLEAN, y <=> (state.empty /\ AllZero(Fronted(Unread, n)))
      PROVE  AfterNext = Result(AfterHeaderBytes(state.rem - n, y), n)
  <2>1. TarNext(ReceivingHeader(state.rem, state.empty), Unread, NoHeader) =
          Result(AfterHeaderBytes(state.rem - n, y), n)
    BY <1>2, NextTurnFacts, NextHeader
  <2> QED
    BY <1>1, <2>1 DEF AfterNext
<1>3. n \in 0 .. Len(Unread) /\ n <= state.rem
      /\ Fronted(Unread, n) \in Seq(Byte) /\ Len(Fronted(Unread, n)) = n
  BY NextTurnFacts, AdvanceFacts
<1> HIDE DEF n
<1>4. AfterNext.n = n
  <2> DEFINE y == state.empty /\ AllZero(Fronted(Unread, n))
  <2>1. y \in BOOLEAN
    BY NextTurnFacts
  <2>2. AfterNext = Result(AfterHeaderBytes(state.rem - n, y), n)
    BY <1>2, <2>1, Zenon
  <2> HIDE DEF y
  <2> QED
    BY <2>2 DEF Result
<1>5. Fronted(Unread, n) = Ahead(n)
  BY DEF Fronted, Ahead
<1>6. AfterNext = Result(AfterHeaderBytes(state.rem - n, z), n)
  BY <1>2, <1>4, <1>5
<1> QED
  BY <1>1, <1>3, <1>4, <1>5, <1>6

LEMMA AfterAlign ==
  ASSUME IInv, NextEntryTurn, state.tag = "AligningData"
  PROVE  /\ AfterNext = IF AfterNext.n < state.rem
                        THEN Result(AligningData(state.rem - AfterNext.n), AfterNext.n)
                        ELSE Result(AlignedData, AfterNext.n)
         /\ AfterNext.n \in 0 .. Len(Unread) /\ AfterNext.n <= state.rem
         /\ state = AligningData(state.rem)
<1> DEFINE n == Advance(Unread, state.rem)
<1>1. state = AligningData(state.rem)
  BY NextTurnFacts, Canonical
<1>2. TarNext(AligningData(state.rem), Unread, NoHeader) =
        IF n < state.rem THEN Result(AligningData(state.rem - n), n)
        ELSE Result(AlignedData, n)
  BY NextTurnFacts, NextAlign
<1>3. AfterNext = IF n < state.rem THEN Result(AligningData(state.rem - n), n)
                  ELSE Result(AlignedData, n)
  BY <1>1, <1>2 DEF AfterNext
<1>4. n \in 0 .. Len(Unread) /\ n <= state.rem
  BY NextTurnFacts, AdvanceFacts
<1> HIDE DEF n
<1>5. AfterNext.n = n
  BY <1>3 DEF Result
<1> QED
  BY <1>1, <1>3, <1>4, <1>5

LEMMA AfterEof ==
  ASSUME IInv, NextEntryTurn, state.tag = "ReceivingEof"
  PROVE  /\ state = ReceivingEof(state.rem) /\ state.rem \in 1 .. BlockSize
         /\ AfterNext.err \in {"none", "ExpectingEmptyBlock"}
         /\ AfterNext.err = "none" =>
              /\ AfterNext = IF AfterNext.n < state.rem
                             THEN Result(ReceivingEof(state.rem - AfterNext.n), AfterNext.n)
                             ELSE Result(ReceivedEof, AfterNext.n)
              /\ AfterNext.n \in 0 .. Len(Unread) /\ AfterNext.n <= state.rem
              /\ AllZero(Ahead(AfterNext.n))
<1> DEFINE n == Advance(Unread, state.rem)
<1>1. state = ReceivingEof(state.rem) /\ state.rem \in 1 .. BlockSize
  BY NextTurnFacts, Canonical DEF GoodState
<1>2. TarNext(ReceivingEof(state.rem), Unread, NoHeader) =
        IF ~ AllZero(Fronted(Unread, n))
        THEN Failure(ReceivingEof(state.rem), "ExpectingEmptyBlock")
        ELSE IF n < state.rem THEN Result(ReceivingEof(state.rem - n), n)
        ELSE Result(ReceivedEof, n)
  BY NextTurnFacts, NextEof
<1>3. AfterNext = IF ~ AllZero(Fronted(Unread, n))
                  THEN Failure(ReceivingEof(state.rem), "ExpectingEmptyBlock")
                  ELSE IF n < state.rem THEN Result(ReceivingEof(state.rem - n), n)
                  ELSE Result(ReceivedEof, n)
  BY <1>1, <1>2 DEF AfterNext
<1>4. n \in 0 .. Len(Unread) /\ n <= state.rem
  BY NextTurnFacts, AdvanceFacts
<1> HIDE DEF n
<1>5. CASE ~ AllZero(Fronted(Unread, n))
  BY <1>1, <1>3, <1>5 DEF Failure
<1>6. CASE AllZero(Fronted(Unread, n))
  <2>1. AfterNext = IF n < state.rem THEN Result(ReceivingEof(state.rem - n), n)
                    ELSE Result(ReceivedEof, n)
    BY <1>3, <1>6
  <2>2. AfterNext.n = n /\ AfterNext.err = "none"
    BY <2>1 DEF Result
  <2>3. Ahead(n) = Fronted(Unread, n)
    BY DEF Fronted, Ahead
  <2> QED
    BY <1>1, <1>4, <1>6, <2>1, <2>2, <2>3
<1> QED
  BY <1>5, <1>6

(* What next_entry consumes on its way: no check fails.                    *)
LEMMA PartOfHeader ==
  ASSUME IInv, NextEntryTurn, state.tag = "ReceivingHeader",
         AfterNext.state # ReceivedHeader
  PROVE  LET o == Consumed(state, Ahead(AfterNext.n), NoHeader)
         IN  /\ o.panic = "none" /\ StateOK(o.state)
             /\ AfterNext.n \in 0 .. Len(Unread) /\ AfterNext.n <= state.rem
             /\ \E z \in BOOLEAN :
                  /\ z <=> (state.empty /\ AllZero(Ahead(AfterNext.n)))
                  /\ AfterNext.n < state.rem \/ z
                  /\ o.state = AfterHeaderBytes(state.rem - AfterNext.n, z)
<1> DEFINE n == AfterNext.n
<1>1. PICK z \in BOOLEAN : z <=> (state.empty /\ AllZero(Ahead(n)))
  OBVIOUS
<1>2. /\ AfterNext = Result(AfterHeaderBytes(state.rem - n, z), n)
      /\ n \in 0 .. Len(Unread) /\ n <= state.rem
      /\ state = ReceivingHeader(state.rem, state.empty)
      /\ state.rem \in 1 .. BlockSize
      /\ Ahead(n) \in Seq(Byte) /\ Len(Ahead(n)) = n
      /\ Len(Unread) \in Nat /\ state.empty \in BOOLEAN /\ NoHeader \in Header
  BY <1>1, AfterHeader, NextTurnFacts
<1>3. AfterHeaderBytes(state.rem - n, z) # ReceivedHeader
  BY <1>2 DEF Result
<1>9. z <=> (state.empty /\ AllZero(Ahead(n)))
  BY <1>1
<1> HIDE DEF n
<1>4. n < state.rem \/ z
  BY <1>2, <1>3 DEF AfterHeaderBytes
<1> DEFINE s1 == AfterHeaderBytes(state.rem - n, z)
<1>5. Consumed(state, Ahead(n), NoHeader) = [state |-> s1, panic |-> "none"]
  <2>1. /\ state.rem \in Nat /\ Len(Ahead(n)) <= state.rem
        /\ Len(Ahead(n)) < state.rem \/ z
    BY <1>2, <1>4
  <2>2. Consumed(ReceivingHeader(state.rem, state.empty), Ahead(n), NoHeader) =
          [state |-> AfterHeaderBytes(state.rem - Len(Ahead(n)), z), panic |-> "none"]
    <3> DEFINE b == Ahead(n)
    <3>1. b \in Seq(Byte) /\ Len(b) <= state.rem /\ (Len(b) < state.rem \/ z)
      BY <1>2, <2>1
    <3>2. z <=> (state.empty /\ AllZero(b))
      BY <1>9
    <3> HIDE DEF b
    <3>3. Consumed(ReceivingHeader(state.rem, state.empty), b, NoHeader) =
            [state |-> AfterHeaderBytes(state.rem - Len(b), z), panic |-> "none"]
      BY <1>2, <2>1, <3>1, <3>2, ConsumedPart
    <3> QED
      BY <3>3 DEF b
  <2> QED
    BY <1>2, <2>2
<1>6. StateOK(s1)
  <2>1. CASE n < state.rem
    <3>1. s1 = ReceivingHeader(state.rem - n, z)
      BY <1>2, <2>1 DEF AfterHeaderBytes
    <3>2. state.rem - n \in 1 .. BlockSize
      BY <1>2, <2>1, ReaderFacts
    <3> QED
      BY <3>1, <3>2, GoodStates, TagsOf DEF StateOK, Markers
  <2>2. CASE ~ (n < state.rem)
    <3>1. s1 = ReceivingEof(BlockSize)
      BY <1>2, <1>4, <2>2 DEF AfterHeaderBytes
    <3> QED
      BY <3>1, GoodStates, TagsOf, ReaderFacts DEF StateOK, Markers
  <2> QED
    BY <2>1, <2>2
<1> DEFINE o == Consumed(state, Ahead(n), NoHeader)
<1>7. o.panic = "none" /\ o.state = s1 /\ StateOK(o.state)
  <2> HIDE DEF s1
  <2> QED
    BY <1>5, <1>6
<1> HIDE DEF o
<1>8. \E y \in BOOLEAN : /\ y <=> (state.empty /\ AllZero(Ahead(n)))
                         /\ n < state.rem \/ y
                         /\ o.state = AfterHeaderBytes(state.rem - n, y)
  BY <1>4, <1>7, <1>9, Zenon
<1> QED
  BY <1>2, <1>7, <1>8, Zenon DEF n, o

LEMMA PartOfPadding ==
  ASSUME IInv, NextEntryTurn, state.tag = "AligningData"
  PROVE  LET o == Consumed(state, Ahead(AfterNext.n), NoHeader)
         IN  /\ o.panic = "none" /\ StateOK(o.state)
             /\ AfterNext.n \in 0 .. Len(Unread) /\ AfterNext.n <= state.rem
             /\ o.state = IF AfterNext.n < state.rem
                          THEN AligningData(state.rem - AfterNext.n)
                          ELSE ExpectingHeader
<1> DEFINE n == AfterNext.n
           s1 == IF n < state.rem THEN AligningData(state.rem - n) ELSE ExpectingHeader
<1>1. /\ n \in 0 .. Len(Unread) /\ n <= state.rem /\ state = AligningData(state.rem)
      /\ Len(Unread) \in Nat /\ NoHeader \in Header /\ state.rem \in Nat
      /\ state.rem < BlockSize
  BY AfterAlign, NextTurnFacts DEF GoodState
<1>2. Ahead(n) \in Seq(Byte) /\ Len(Ahead(n)) = n
  BY <1>1, NowFacts, UnreadFacts
<1> HIDE DEF n
<1>3. Consumed(AligningData(state.rem), Ahead(n), NoHeader) =
        [state |-> IF Len(Ahead(n)) < state.rem
                   THEN AligningData(state.rem - Len(Ahead(n)))
                   ELSE ExpectingHeader,
         panic |-> "none"]
  BY <1>1, <1>2, ConsumedAlign
<1>4. Consumed(state, Ahead(n), NoHeader) = [state |-> s1, panic |-> "none"]
  BY <1>1, <1>2, <1>3
<1>5. StateOK(s1)
  BY <1>1, HandleStates, ReaderFacts
<1> DEFINE o == Consumed(state, Ahead(n), NoHeader)
<1>6. o.panic = "none" /\ o.state = s1 /\ StateOK(o.state)
  <2> HIDE DEF s1
  <2> QED
    BY <1>4, <1>5
<1> QED
  BY <1>1, <1>6, Zenon DEF n, o

LEMMA PartOfEof ==
  ASSUME IInv, NextEntryTurn, state.tag = "ReceivingEof", AfterNext.err = "none"
  PROVE  LET o == Consumed(state, Ahead(AfterNext.n), NoHeader)
         IN  /\ o.panic = "none" /\ StateOK(o.state)
             /\ AfterNext.n \in 0 .. Len(Unread) /\ AfterNext.n <= state.rem
             /\ AllZero(Ahead(AfterNext.n))
             /\ o.state = IF AfterNext.n < state.rem
                          THEN ReceivingEof(state.rem - AfterNext.n)
                          ELSE ReceivedEof
<1> DEFINE n == AfterNext.n
           s1 == IF n < state.rem THEN ReceivingEof(state.rem - n) ELSE ReceivedEof
<1>1. /\ n \in 0 .. Len(Unread) /\ n <= state.rem /\ state = ReceivingEof(state.rem)
      /\ Len(Unread) \in Nat /\ NoHeader \in Header /\ state.rem \in Nat
      /\ state.rem \in 1 .. BlockSize /\ AllZero(Ahead(n))
  BY AfterEof, NextTurnFacts
<1>2. Ahead(n) \in Seq(Byte) /\ Len(Ahead(n)) = n
  BY <1>1, NowFacts, UnreadFacts
<1> HIDE DEF n
<1>3. Consumed(ReceivingEof(state.rem), Ahead(n), NoHeader) =
        [state |-> IF Len(Ahead(n)) < state.rem
                   THEN ReceivingEof(state.rem - Len(Ahead(n)))
                   ELSE ReceivedEof,
         panic |-> "none"]
  BY <1>1, <1>2, ConsumedEof
<1>4. Consumed(state, Ahead(n), NoHeader) = [state |-> s1, panic |-> "none"]
  BY <1>1, <1>2, <1>3
<1>5. StateOK(s1)
  <2>1. n < state.rem => state.rem - n \in 1 .. BlockSize
    BY <1>1, ReaderFacts
  <2> QED
    BY <2>1, GoodStates, TagsOf DEF StateOK, Markers
<1> DEFINE o == Consumed(state, Ahead(n), NoHeader)
<1>6. o.panic = "none" /\ o.state = s1 /\ StateOK(o.state)
  <2> HIDE DEF s1
  <2> QED
    BY <1>4, <1>5
<1> QED
  BY <1>1, <1>6, Zenon DEF n, o

LEMMA BeforeHeader ==
  ASSUME IInv, NextEntryTurn, state.tag = "ExpectingHeader"
  PROVE  LET o == Consumed(state, Ahead(AfterNext.n), NoHeader)
         IN  /\ o.panic = "none" /\ StateOK(o.state)
             /\ AfterNext.n \in 0 .. Len(Unread) /\ AfterNext.n = 0
             /\ o.state = ReceivingHeader(BlockSize, TRUE)
<1>1. state = ExpectingHeader /\ NoHeader \in Header /\ Len(Unread) \in Nat
  BY NextTurnFacts, Canonical
<1>2. AfterNext.n = 0
  BY <1>1 DEF AfterNext, TarNext, ExpectingHeader, St, Result
<1> DEFINE s1 == ReceivingHeader(BlockSize, TRUE)
<1>3. Consumed(state, Ahead(AfterNext.n), NoHeader) = [state |-> s1, panic |-> "none"]
  BY <1>1, <1>2, AheadNothing, ConsumedBefore
<1>4. StateOK(s1)
  BY HandleStates
<1>5. AfterNext.n \in 0 .. Len(Unread)
  BY <1>1, <1>2
<1> DEFINE o == Consumed(state, Ahead(AfterNext.n), NoHeader)
<1>6. o.panic = "none" /\ o.state = s1 /\ StateOK(o.state)
  <2> HIDE DEF s1
  <2> QED
    BY <1>3, <1>4
<1> QED
  BY <1>2, <1>5, <1>6, Zenon DEF o

LEMMA NextEntryPasses ==
  ASSUME IInv, NextEntryTurn, AfterNext.err = "none",
         AfterNext.state.tag \in {"ReceivingHeader", "ReceivingEof", "AligningData",
                                  "AlignedData", "ReceivedEof"}
  PROVE  LET o == Consumed(state, Ahead(AfterNext.n), NoHeader)
         IN  /\ o.panic = "none" /\ StateOK(o.state)
             /\ AfterNext.n \in 0 .. Len(Unread)
<1>1. state.tag \in Tags /\ state.tag \notin Markers /\ state.tag # "ReceivedEof"
  BY NextTurnFacts DEF GoodState, StateType
<1>2. state.tag # "ReceivingData"
  <2>1. ASSUME state.tag = "ReceivingData" PROVE FALSE
    <3>1. AfterNext = NextReceivingData(state, Unread)
      BY <2>1 DEF AfterNext, TarNext
    <3>2. AfterNext.state.tag \in {"ReceivingData", "ReceivedData"}
      BY <3>1 DEF NextReceivingData, Result, ReceivingData, ReceivedData, St
    <3> QED
      BY <3>2
  <2> QED
    BY <2>1
<1>3. AfterNext.state # ReceivedHeader
  BY TagsOf
<1> QED
  BY <1>1, <1>2, <1>3, PartOfHeader, PartOfPadding, PartOfEof, BeforeHeader
     DEF Tags, Markers

LEMMA MovesInv ==
  ASSUME IInv, NextEntryMoves \/ NextEntryEnds
  PROVE  IInv'
<1> DEFINE n == AfterNext.n
           o == Consumed(state, Ahead(n), NoHeader)
<1>1. NextEntryTurn /\ AfterNext.err = "none" /\ Consume(o, n)
      /\ (ContinueUnless(o.panic) \/ ReturnUnless(o.panic, "none", 0))
      /\ UNCHANGED <<source, fed, handle>>
  BY DEF NextEntryMoves, NextEntryEnds
<1>2. AfterNext.state.tag \in {"ReceivingHeader", "ReceivingEof", "AligningData",
                               "AlignedData", "ReceivedEof"}
  BY TagsOf DEF NextEntryMoves, NextEntryEnds
<1>3. o.panic = "none" /\ StateOK(o.state) /\ n \in 0 .. Len(Unread)
  BY <1>1, <1>2, NextEntryPasses
<1>4. entry = NoHeader /\ lent = 0
  BY <1>1, NextTurnFacts
<1> HIDE DEF n, o
<1>5. Continue \/ Return("none", 0)
  BY <1>1, <1>3 DEF ContinueUnless, ReturnUnless
<1>6. ControlMoves
  BY <1>1, <1>5, NowFacts, ContinueMoves, ReturnMoves DEF ResNames
<1> QED
  BY <1>1, <1>3, <1>4, <1>6, PassInv

(* The last bytes of a header are there.                                   *)
LEMMA HeaderEnds ==
  ASSUME IInv, NextEntryTurn, AfterNext.state = ReceivedHeader
  PROVE  LET n == AfterNext.n
         IN  /\ state.tag = "ReceivingHeader"
             /\ state = ReceivingHeader(state.rem, state.empty)
             /\ state.rem \in 1 .. BlockSize /\ state.empty \in BOOLEAN
             /\ n \in 0 .. Len(Unread) /\ n = state.rem
             /\ Ahead(n) \in Seq(Byte) /\ Len(Ahead(n)) = n
             /\ ~ (state.empty /\ AllZero(Ahead(n)))
             /\ \A h \in Header \ {NoHeader} :
                  LET o == Consumed(state, Ahead(n), h)
                  IN  IF h.size = BadSize THEN o.panic = "size"
                      ELSE o = [state |-> ReceivingData(h.size), panic |-> "none"]
<1> DEFINE n == AfterNext.n
<1>2. state.tag = "ReceivingHeader"
  <2>1. state.tag \in Tags /\ state.tag \notin Markers /\ state.tag # "ReceivedEof"
    BY NextTurnFacts DEF GoodState, StateType
  <2>2. AfterNext.state.tag = "ReceivedHeader"
    BY TagsOf
  <2> QED
    BY <2>1, <2>2 DEF Tags, Markers, AfterNext, TarNext, NextReceivingData,
       NextAligningData, NextReceivingEof, Result, Failure, ReceivingHeader,
       ReceivingData, ReceivedData, AligningData, AlignedData, ReceivingEof,
       ReceivedEof, St
<1>3. PICK z \in BOOLEAN : z <=> (state.empty /\ AllZero(Ahead(n)))
  OBVIOUS
<1>4. /\ AfterNext = Result(AfterHeaderBytes(state.rem - n, z), n)
      /\ n \in 0 .. Len(Unread) /\ n <= state.rem
      /\ state = ReceivingHeader(state.rem, state.empty)
      /\ state.rem \in 1 .. BlockSize
      /\ Ahead(n) \in Seq(Byte) /\ Len(Ahead(n)) = n
      /\ Len(Unread) \in Nat /\ state.empty \in BOOLEAN
  BY <1>2, <1>3, AfterHeader, NextTurnFacts
<1> HIDE DEF n
<1>5. n = state.rem /\ ~ z
  <2>1. AfterHeaderBytes(state.rem - n, z) = ReceivedHeader
    BY <1>4 DEF Result
  <2>2. AfterHeaderBytes(state.rem - n, z).tag = "ReceivedHeader"
    BY <2>1, TagsOf
  <2> QED
    BY <1>4, <2>2, TagsOf DEF AfterHeaderBytes
<1>6. ~ (state.empty /\ AllZero(Ahead(n)))
  BY <1>3, <1>5
<1>7. ASSUME NEW h \in Header \ {NoHeader}
      PROVE  LET o == Consumed(state, Ahead(n), h)
             IN  IF h.size = BadSize THEN o.panic = "size"
                 ELSE o = [state |-> ReceivingData(h.size), panic |-> "none"]
  <2>1. Len(Ahead(n)) = state.rem /\ state.rem \in Nat
    BY <1>4, <1>5
  <2>2. LET c == Consumed(ReceivingHeader(state.rem, state.empty), Ahead(n), h)
        IN  IF h.size = BadSize THEN c.panic = "size"
            ELSE c = [state |-> ReceivingData(h.size), panic |-> "none"]
    BY <1>4, <1>6, <2>1, ConsumedHeader
  <2> QED
    BY <1>4, <2>2
<1> QED
  BY <1>2, <1>4, <1>5, <1>6, <1>7, Zenon DEF n

LEMMA OpensInv ==
  ASSUME IInv, NoStaleHandles, NextEntryOpens
  PROVE  IInv'
<1> DEFINE n == AfterNext.n
           b == Ahead(BlockSize)
<1>1. /\ NextEntryTurn /\ AfterNext.state = ReceivedHeader /\ AfterNext.err = "none"
      /\ UNCHANGED <<source, fed, lent>>
  BY DEF NextEntryOpens
<1>2. entry = NoHeader /\ lent = 0 /\ poll = "running"
  BY <1>1, NextTurnFacts
<1>3. CASE UNCHANGED <<archive, entry, older, found, got>>
           /\ (Panic("slice") \/ Return("badheader", 0) \/ Panic("size"))
  <2>1. ControlMoves
    BY <1>1, <1>3, NowFacts, PanicMoves, ReturnMoves DEF ResNames
  <2>2. UNCHANGED <<source, fed, archive, handle>>
    BY <1>1, <1>3 DEF handle
  <2> QED
    BY <1>2, <2>1, <2>2, Stays
<1>4. ASSUME NEW h \in HeadersIn(b), NEW o, o = Consumed(state, Ahead(n), h),
             Opens(h, o, n)
      PROVE  IInv'
  <2>1. h \in Handles /\ h \in Header /\ h # NoHeader /\ h \in HeaderType
    BY <1>4, NowFacts, HandlesAreHeaders DEF HeadersIn, Handles
  <2>2. n \in 0 .. Len(Unread) /\ Len(Unread) \in Nat
    BY <1>1, HeaderEnds, NextTurnFacts
  <2>6. IF h.size = BadSize THEN o.panic = "size"
        ELSE o = [state |-> ReceivingData(h.size), panic |-> "none"]
    BY <1>1, <1>4, <2>1, HeaderEnds
  <2> HIDE DEF n
  <2>7. CASE h.size = BadSize
    <3>1. o.panic = "size"
      BY <2>6, <2>7
    <3>2. UNCHANGED <<archive, entry, older, found, got>> /\ Panic("size")
      BY <1>4, <3>1 DEF Opens, Consume, ReturnUnless
    <3> QED
      BY <1>3, <3>2
  <2>8. CASE h.size # BadSize
    <3>1. o.panic = "none" /\ o.state = ReceivingData(h.size) /\ h.size \in Nat
      BY <2>1, <2>6, <2>8 DEF HeaderType
    <3>2. /\ Consume(o, n) /\ Return("entry", 0) /\ entry' = h /\ Outlives
          /\ found' = found + 1 /\ got' = <<>>
      BY <1>4, <3>1 DEF Opens, ReturnUnless
    <3>3. older' = {}
      BY <3>2 DEF Outlives, NoStaleHandles, IInv
    <3>4. StateOK(o.state) /\ OfHandle(o.state) /\ DataLeft(o.state) = h.size
      BY <3>1, HandleStates
    <3>5. StoreOK' /\ state' = o.state
      BY <2>2, <3>1, <3>2, <3>4, NowFacts, Consumes
    <3>6. ControlMoves /\ poll' = "idle" /\ panic' = panic
      BY <1>1, <3>2, NowFacts, ReturnMoves DEF ResNames
    <3>7. Handles' = Handles
      BY <1>1 DEF source, Handles
    <3>8. got' \in Seq(Byte) /\ Len(got') = 0
      BY <3>2
    <3>9. SourceOK' /\ HandleOK'
      BY <1>1, <2>1, <3>2, <3>3, <3>7, <3>8, NowFacts DEF source, SourceOK, HandleOK
    <3>10. LentOK'
      <4>1. Len(Unread') \in Nat
        BY <2>2, <3>1, <3>2, <3>4, NowFacts, Consumes
      <4> QED
        BY <1>1, <1>2, <4>1 DEF LentOK
    <3>11. TypeOK'
      BY <3>5, <3>6, <3>9, <3>10, TypePartsAfter DEF ControlMoves
    <3>12. HandleInv'
      BY <2>8, <3>1, <3>2, <3>4, <3>5, <3>8 DEF HandleInv
    <3>13. LentInv' /\ CallInv' /\ ChecksHold'
      BY <1>1, <1>2, <3>6 DEF LentInv, CallInv, ChecksHold, IInv
    <3> QED
      BY <3>3, <3>11, <3>12, <3>13 DEF IInv
  <2> QED
    BY <2>7, <2>8
<1> QED
  BY <1>3, <1>4 DEF NextEntryOpens

LEMMA NextEntryInv ==
  ASSUME IInv, NoStaleHandles, NextEntryStep
  PROVE  IInv'
<1>1. CASE NextEntryOver
  <2>1. ControlMoves
    BY <1>1, NowFacts, ReturnMoves DEF NextEntryOver, ResNames
  <2> QED
    BY <1>1, <2>1, NowFacts, Stays DEF NextEntryOver
<1>2. CASE NextEntryFails
  <2>1. AfterNext.err # "panic"
    <3>1. NextEntryTurn /\ AfterNext.err # "none"
      BY <1>2 DEF NextEntryFails
    <3>2. state.tag \in Tags /\ state.tag \notin Markers /\ state.tag # "ReceivedEof"
      BY <3>1, NextTurnFacts DEF GoodState, StateType
    <3> QED
      BY <3>2 DEF Tags, Markers, AfterNext, TarNext, NextReceivingHeader,
         NextReceivingData, NextAligningData, NextReceivingEof, Result, Failure
  <2>2. Return("baddata", 0)
    BY <1>2, <2>1 DEF NextEntryFails
  <2>3. ControlMoves
    BY <1>2, <2>2, NowFacts, ReturnMoves DEF NextEntryFails, ResNames
  <2> QED
    BY <1>2, <2>3, NextTurnFacts, Stays DEF NextEntryFails
<1>3. CASE NextEntryOverlaps
  <2>1. ControlMoves
    BY <1>3, NowFacts, PanicMoves DEF NextEntryOverlaps
  <2> QED
    BY <1>3, <2>1, NextTurnFacts, Stays DEF NextEntryOverlaps
<1> QED
  BY <1>1, <1>2, <1>3, OpensInv, MovesInv DEF NextEntryStep

-----------------------------------------------------------------------------
(* The task.                                                               *)
LEMMA OneHandle ==
  ASSUME IInv, NEW h \in Live
  PROVE  h = entry /\ entry # NoHeader
  BY DEF Live, IInv

LEMMA BeginInv ==
  ASSUME IInv, NEW op \in OpNames \ {"none"}, NEW hdr \in Handles \cup {NoHeader},
         NEW n \in ReadSizes \cup {0}, Begin(op, hdr, n),
         IF op = "next_entry" THEN entry = NoHeader
         ELSE entry # NoHeader /\ hdr = entry
  PROVE  IInv'
<1>1. /\ panic = "none" /\ poll' = "running" /\ lent' = 0
      /\ call' = [op |-> op, n |-> n, hdr |-> hdr]
      /\ UNCHANGED <<source, fed, archive, ret, panic, entry, older, found, got>>
  BY DEF Begin
<1>2. Handles' = Handles /\ Unread' = Unread
  BY <1>1 DEF source, archive, Handles, Unread
<1>3. SourceOK' /\ StoreOK' /\ HandleOK' /\ LentOK'
  BY <1>1, <1>2, NowFacts DEF source, archive, SourceOK, StoreOK, HandleOK, LentOK
<1>4. ControlOK'
  BY <1>1, <1>2, NowFacts DEF ControlOK, CallOK, RetOK
<1>5. TypeOK'
  BY <1>3, <1>4, TypePartsAfter
<1>6. HandleInv' /\ LentInv' /\ CallInv' /\ ChecksHold' /\ older' = {}
  BY <1>1 DEF archive, IInv, HandleInv, LentInv, CallInv, ChecksHold
<1> QED
  BY <1>5, <1>6 DEF IInv

LEMMA ConsumeEntryInv ==
  ASSUME IInv, SizesFit, NEW h \in Live, NEW amt \in 0 .. lent, ConsumeEntry(h, amt)
  PROVE  IInv'
<1> DEFINE o == Consumed(state, Ahead(amt), h)
<1>1. /\ poll = "idle" /\ amt <= lent /\ Consume(o, amt) /\ ContinueUnless(o.panic)
      /\ Takes(amt) /\ lent' = lent - amt /\ UNCHANGED <<source, fed>>
  BY DEF ConsumeEntry
<1>2. h = entry /\ entry # NoHeader
  BY OneHandle
<1>3. /\ lent \in 0 .. Len(Unread) /\ lent \in Nat /\ Len(Unread) \in Nat
      /\ amt \in 0 .. Len(Unread) /\ amt \in Nat /\ state.rem \in Nat
  BY NowFacts
<1>4. lent > 0 => state.tag = "ReceivingData" /\ lent <= state.rem
  BY DEF IInv, LentInv
<1>5. IF state.tag = "ReceivingData" THEN amt <= state.rem ELSE amt = 0
  BY <1>3, <1>4
<1>6. /\ o.panic = "none" /\ StateOK(o.state) /\ OfHandle(o.state)
      /\ got \o Ahead(amt) \in Seq(Byte)
      /\ Len(got \o Ahead(amt)) = entry.size - DataLeft(o.state)
      /\ o.state = AfterTake(amt)
  BY <1>2, <1>3, <1>5, EntryConsumes
<1> HIDE DEF o
<1>7. Continue
  BY <1>1, <1>6 DEF ContinueUnless
<1>8. ControlMoves /\ poll' = poll
  BY <1>1, <1>7, NowFacts, ContinueMoves
<1>9. lent' \in Nat /\ lent' + amt <= Len(Unread)
  BY <1>1, <1>3
<1>10. lent' > 0 => o.state.tag = "ReceivingData" /\ lent' <= o.state.rem
  <2>1. SUFFICES ASSUME lent' > 0
                 PROVE  o.state.tag = "ReceivingData" /\ lent' <= o.state.rem
    OBVIOUS
  <2>2. lent > 0 /\ amt < lent
    BY <1>1, <1>3, <2>1
  <2>3. o.state = ReceivingData(state.rem - amt)
    <3>1. state.tag = "ReceivingData" /\ amt < state.rem
      BY <1>3, <1>4, <2>2
    <3> QED
      BY <1>6, <3>1 DEF AfterTake
  <2>4. lent - amt <= state.rem - amt
    BY <1>3, <1>4, <2>2
  <2> QED
    BY <1>1, <2>3, <2>4, TagsOf
<1>11. got' = got \o Ahead(amt) /\ UNCHANGED <<entry, older, found>>
  BY <1>1 DEF Takes
<1> QED
  BY <1>1, <1>2, <1>3, <1>6, <1>8, <1>9, <1>10, <1>11, ConsumeKeeps

LEMMA DropInv ==
  ASSUME IInv, DropEntry
  PROVE  IInv'
<1>1. /\ entry' = NoHeader /\ lent' = 0 /\ poll = "idle"
      /\ UNCHANGED <<source, fed, archive, control, older, found, got>>
  BY DEF DropEntry
<1>2. Handles' = Handles /\ Unread' = Unread
  BY <1>1 DEF source, archive, Handles, Unread
<1>3. SourceOK' /\ StoreOK' /\ HandleOK' /\ LentOK'
  BY <1>1, <1>2, NowFacts DEF source, archive, SourceOK, StoreOK, HandleOK, LentOK
<1>4. ControlOK'
  BY <1>1, <1>2, NowFacts DEF control, ControlOK, CallOK, RetOK
<1>5. TypeOK'
  BY <1>3, <1>4, TypePartsAfter
<1>6. HandleInv' /\ LentInv' /\ CallInv' /\ ChecksHold' /\ older' = {}
  BY <1>1 DEF control, IInv, HandleInv, LentInv, CallInv, ChecksHold
<1> QED
  BY <1>5, <1>6 DEF IInv

LEMMA TaskInv ==
  ASSUME IInv, NoStaleHandles, SizesFit, Task
  PROVE  IInv'
<1>1. CASE NextEntry
  <2>1. entry = NoHeader /\ Begin("next_entry", NoHeader, 0)
    BY <1>1 DEF NextEntry, NoStaleHandles
  <2> QED
    BY <2>1, BeginInv DEF OpNames
<1>2. ASSUME NEW op \in {"read", "fill_buf", "skip"}, NEW n \in ReadSizes \cup {0},
             ReadCall(op, n)
      PROVE  IInv'
  <2>1. PICK h \in Live : Begin(op, h, n)
    BY <1>2 DEF ReadCall
  <2>2. h = entry /\ entry # NoHeader /\ h \in Handles \cup {NoHeader}
    BY OneHandle, NowFacts DEF HandleOK
  <2> QED
    BY <2>1, <2>2, BeginInv DEF OpNames
<1>3. CASE Fill
  BY <1>2, <1>3 DEF Fill
<1>4. CASE Skip
  BY <1>2, <1>4 DEF Skip
<1>5. ASSUME NEW n \in ReadSizes, Read(n) PROVE IInv'
  BY <1>2, <1>5 DEF Read
<1>6. CASE Cancel
  <2>1. Return("cancelled", 0) /\ poll = "parked"
        /\ UNCHANGED <<source, fed, archive, handle>>
    BY <1>6 DEF Cancel
  <2>2. ControlMoves
    BY <2>1, NowFacts, ReturnMoves DEF ResNames
  <2> QED
    BY <2>1, <2>2, NowFacts, Stays
<1> QED
  BY <1>1, <1>3, <1>4, <1>5, <1>6, DropInv, ConsumeEntryInv DEF Task

LEMMA WakeInv ==
  ASSUME IInv, Wake
  PROVE  IInv'
<1>1. poll = "parked" /\ poll' = "running"
      /\ UNCHANGED <<source, fed, archive, call, ret, panic, handle>>
  BY DEF Wake
<1>2. ControlMoves
  <2>1. Handles' = Handles
    BY <1>1 DEF source, Handles
  <2> QED
    BY <1>1, <2>1, NowFacts DEF ControlMoves, ControlOK, CallOK, RetOK
<1> QED
  BY <1>1, <1>2, NowFacts, Stays

LEMMA InitInv ==
  ASSUME Init
  PROVE  IInv
<1>1. /\ fed = 0 /\ state = ExpectingHeader /\ data = <<>> /\ pos = 0
      /\ call = NoCall /\ poll = "idle" /\ panic = "none"
      /\ ret = [op |-> "none", hdr |-> NoHeader, room |-> 0, res |-> "none", n |-> 0]
      /\ entry = NoHeader /\ older = {} /\ lent = 0 /\ found = 0 /\ got = <<>>
      /\ hdrs \in Archives
  BY DEF Init
<1>2. bytes \in Seq(Byte)
  <2>1. PICK end \in Ends :
          \E n \in IF Truncated THEN 0 .. Len(EntriesBytes(hdrs) \o end)
                   ELSE {Len(EntriesBytes(hdrs) \o end)} :
            bytes = SubSeq(EntriesBytes(hdrs) \o end, 1, n)
    BY DEF Init
  <2> DEFINE whole == EntriesBytes(hdrs) \o end
  <2>2. whole \in Seq(Byte) /\ Len(whole) \in Nat
    <3>1. EntriesBytes(hdrs) \in Seq(Byte)
      <4>1. hdrs \in Seq(HeaderType) /\ Len(hdrs) \in 0 .. Len(hdrs)
        BY <1>1, ArchivesAssumption, LenProperties
      <4> QED
        BY <4>1, LaidType DEF EntriesBytes
    <3> QED
      BY <3>1, EndsAssumption, ConcatProperties, LenProperties
  <2> HIDE DEF whole
  <2>3. PICK n \in IF Truncated THEN 0 .. Len(whole) ELSE {Len(whole)} :
          bytes = SubSeq(whole, 1, n)
    BY <2>1 DEF whole
  <2>4. n \in 0 .. Len(whole)
    BY <2>2, <2>3
  <2>5. \A i \in 1 .. n : whole[i] \in Byte
    BY <2>2, <2>4, ElementOfSeq
  <2> QED
    BY <2>2, <2>3, <2>4, <2>5, SubSeqProperties
<1>3. SourceOK
  BY <1>1, <1>2, LenProperties DEF SourceOK
<1>4. Unread = <<>>
  BY <1>1, SubSeqEmpty DEF Unread
<1>5. StateOK(ExpectingHeader)
  BY HandleStates
<1>6. StoreOK
  BY <1>1, <1>4, <1>5, ReaderFacts DEF StoreOK
<1>7. ControlOK
  BY <1>1 DEF ControlOK, CallOK, RetOK, NoCall, OpNames, ResNames, PanicNames
<1>8. HandleOK
  BY <1>1 DEF HandleOK
<1>9. LentOK
  BY <1>1, <1>4 DEF LentOK
<1>10. TypeOK
  BY <1>3, <1>6, <1>7, <1>8, <1>9, TypeParts
<1>11. HandleInv /\ LentInv /\ CallInv /\ ChecksHold
  BY <1>1 DEF HandleInv, LentInv, CallInv, ChecksHold
<1> QED
  BY <1>1, <1>10, <1>11 DEF IInv

LEMMA NextInv ==
  ASSUME IInv, NoStaleHandles, SizesFit, [Next]_vars
  PROVE  IInv'
<1>1. CASE UNCHANGED vars
  BY <1>1 DEF vars, IInv, TypeOK, HandleInv, LentInv, CallInv, ChecksHold, Unread,
     Handles
<1>2. CASE Next
  BY <1>2, FillInv, ReadInv, NextEntryInv, TaskInv, WakeInv DEF Next, Step
<1> QED
  BY <1>1, <1>2

-----------------------------------------------------------------------------
(* No bytes mean the end of the entry.                                     *)
GotGrows == got' = got \/ \E amt \in 0 .. Len(Unread) : got' = got \o Ahead(amt)

(* Once the data is complete it stays so.                                  *)
LEMMA StaysFull ==
  ASSUME IInv, IInv', SizesFit, entry # NoHeader, entry' = entry, GotGrows,
         Len(got) = entry.size
  PROVE  Len(got') = entry'.size
<1>1. entry.size \in Nat /\ Len(got) \in Nat /\ got \in Seq(Byte)
  BY EntryFacts, NowFacts
<1>2. state' \in StateType /\ got' \in Seq(Byte)
  BY DEF IInv, TypeOK, GoodState
<1>3. DataLeft(state') \in Nat /\ Len(got') \in Nat
  BY <1>2, LenProperties DEF DataLeft, StateType
<1>4. Len(got') = entry.size - DataLeft(state')
  BY DEF IInv, HandleInv
<1>5. Len(got') >= Len(got)
  <2>1. CASE got' = got
    BY <1>1, <2>1
  <2>2. ASSUME NEW amt \in 0 .. Len(Unread), got' = got \o Ahead(amt)
        PROVE  Len(got') >= Len(got)
    <3>1. Ahead(amt) \in Seq(Byte) /\ Len(Ahead(amt)) = amt /\ amt \in Nat
      BY NowFacts, UnreadFacts
    <3> DEFINE b == Ahead(amt)
    <3>2. b \in Seq(Byte) /\ Len(b) = amt /\ got' = got \o b
      BY <2>2, <3>1
    <3> HIDE DEF b
    <3>3. Len(got \o b) = Len(got) + Len(b)
      BY <1>1, <3>2, ConcatProperties
    <3>4. Len(got') = Len(got) + amt
      BY <3>2, <3>3
    <3> QED
      BY <1>1, <3>1, <3>4
  <2> QED
    BY <2>1, <2>2 DEF GotGrows
<1> QED
  BY <1>1, <1>3, <1>4, <1>5

LEMMA SameAnswer ==
  ASSUME IInv, IInv', SizesFit, NoBytesAtTheEndOnly, ret' = ret,
         entry' \in {entry, NoHeader}, GotGrows
  PROVE  NoBytesAtTheEndOnly'
<1>1. Ended' <=> Ended
  BY DEF Ended
<1> SUFFICES ASSUME entry' # NoHeader, Ended PROVE Len(got') = entry'.size
  BY <1>1 DEF NoBytesAtTheEndOnly
<1> QED
  BY StaysFull DEF NoBytesAtTheEndOnly

LEMMA OtherAnswer ==
  ASSUME NEW res \in ResNames, NEW n \in Nat, Return(res, n),
         res # "ok" \/ n # 0 \/ (call.op = "read" /\ ~ (call.n > 0))
  PROVE  NoBytesAtTheEndOnly'
<1>1. ret' = [op |-> call.op, hdr |-> call.hdr, room |-> call.n, res |-> res, n |-> n]
  BY DEF Return
<1>2. ~ Ended'
  BY <1>1 DEF Ended
<1> QED
  BY <1>2 DEF NoBytesAtTheEndOnly

LEMMA ReadAnswers ==
  ASSUME IInv, IInv', SizesFit, NoBytesAtTheEndOnly, ReadStep
  PROVE  NoBytesAtTheEndOnly'
<1>1. CASE Lends \/ Reads \/ Skips
  <2>1. /\ HasData /\ state.tag = "ReceivingData" /\ entry # NoHeader
        /\ AfterRead.n \in 0 .. Len(Unread) /\ AfterRead.n \in Nat
        /\ AfterRead.n = 0 => state.rem = 0
        /\ call.op = "read" => call.n > 0
    BY <1>1, DataStep DEF Lends, Reads, Skips, HasData, ReadTurn
  <2>2. entry' = entry
    BY <1>1 DEF Lends, Reads, Skips, Takes
  <2>3. call.n \in Nat
    <3>1. call.n \in ReadSizes \cup {0}
      BY NowFacts DEF ControlOK, CallOK
    <3>2. \A m \in ReadSizes \cup {0} : m \in Nat
      BY ReaderFacts
    <3> QED
      BY <3>1, <3>2
  <2>4. GotGrows
    <3>1. ReadLen \in 0 .. Len(Unread)
      BY <2>1, <2>3, NowFacts DEF ReadLen
    <3> QED
      BY <1>1, <2>1, <3>1 DEF Lends, Reads, Skips, Takes, GotGrows
  <2>5. AfterRead.n = 0 => Len(got') = entry'.size
    <3>1. ASSUME AfterRead.n = 0 PROVE Len(got) = entry.size
      <4>1. DataLeft(state) = 0
        BY <2>1, <3>1 DEF DataLeft
      <4> QED
        BY <2>1, <4>1, EntryFacts
    <3> QED
      BY <2>1, <2>2, <2>4, <3>1, StaysFull
  <2>6. CASE Lends
    <3>1. Return("ok", AfterRead.n)
      BY <2>6 DEF Lends
    <3>2. CASE AfterRead.n = 0
      BY <2>5, <3>2 DEF NoBytesAtTheEndOnly
    <3>3. CASE AfterRead.n # 0
      BY <2>1, <3>1, <3>3, OtherAnswer DEF ResNames
    <3> QED
      BY <3>2, <3>3
  <2>7. CASE Reads
    <3>1. PICK o : ReturnUnless(o.panic, "ok", ReadLen)
      BY <2>7 DEF Reads
    <3>2. CASE AfterRead.n = 0
      BY <2>5, <3>2 DEF NoBytesAtTheEndOnly
    <3>3. CASE AfterRead.n # 0
      <4>1. ReadLen \in Nat /\ ReadLen # 0
        BY <2>1, <2>3, <2>7, <3>3 DEF ReadLen, Reads
      <4>2. CASE o.panic = "none"
        BY <3>1, <4>1, <4>2, OtherAnswer DEF ReturnUnless, ResNames
      <4>3. CASE o.panic # "none"
        BY <2>2, <2>4, <3>1, <4>3, SameAnswer DEF ReturnUnless, Panic
      <4> QED
        BY <4>2, <4>3
    <3> QED
      BY <3>2, <3>3
  <2>8. CASE Skips
    <3>1. ret' = ret
      BY <2>8 DEF Skips, Panic, ContinueUnless, Continue, control
    <3> QED
      BY <2>2, <2>4, <3>1, SameAnswer
  <2> QED
    BY <1>1, <2>6, <2>7, <2>8
<1>2. CASE ReadAligns
  <2>1. ret' = ret /\ entry' = entry /\ GotGrows
    BY <1>2 DEF ReadAligns, ContinueUnless, Continue, control, Panic, handle, GotGrows
  <2> QED
    BY <2>1, SameAnswer
<1>3. CASE ReadEnds
  <2>1. ReadTurn /\ AfterRead.state = AlignedData /\ UNCHANGED handle
    BY <1>3 DEF ReadEnds
  <2>2. entry # NoHeader /\ entry' = entry /\ GotGrows
    BY <2>1, ReadTurnFacts DEF handle, GotGrows
  <2>3. state.tag # "ReceivingData"
    BY <2>1, AfterReadIs, TagsOf
  <2>4. Len(got) = entry.size
    <3>1. DataLeft(state) = 0
      BY <2>3 DEF DataLeft
    <3> QED
      BY <2>2, <3>1, EntryFacts
  <2> QED
    BY <2>2, <2>4, StaysFull DEF NoBytesAtTheEndOnly
<1>4. CASE ReadRefused
  <2>1. Panic("unreachable") \/ Return("baddata", 0)
    BY <1>4 DEF ReadRefused
  <2>2. CASE Panic("unreachable")
    BY <1>4, <2>2, SameAnswer DEF ReadRefused, Panic, handle, GotGrows
  <2>3. CASE Return("baddata", 0)
    BY <2>3, OtherAnswer DEF ResNames
  <2> QED
    BY <2>1, <2>2, <2>3
<1>5. CASE ReadNothing
  BY <1>5, OtherAnswer DEF ReadNothing, ResNames
<1> QED
  BY <1>1, <1>2, <1>3, <1>4, <1>5 DEF ReadStep

LEMMA NextAnswers ==
  ASSUME IInv, IInv', NoStaleHandles, SizesFit, NoBytesAtTheEndOnly, [Next]_vars
  PROVE  NoBytesAtTheEndOnly'
<1>1. ASSUME ret' = ret, entry' = entry, got' = got PROVE NoBytesAtTheEndOnly'
  BY <1>1, SameAnswer DEF GotGrows
<1>2. ASSUME NEW res \in ResNames \ {"ok"}, Return(res, 0) PROVE NoBytesAtTheEndOnly'
  BY <1>2, OtherAnswer
<1>3. CASE UNCHANGED vars
  BY <1>1, <1>3 DEF vars
<1>4. CASE FillBuf
  BY <1>1, <1>4 DEF FillBuf, control, handle
<1>5. CASE FillStalls
  <2>1. PICK res \in IoFaults : Leave(res)
    BY <1>5, ReaderFacts DEF FillStalls
  <2>2. ret' = ret \/ Return("ioerror", 0)
    BY <2>1 DEF Leave, IoFaults
  <2> QED
    BY <1>1, <1>2, <1>5, <2>2 DEF FillStalls, handle, ResNames
<1>6. CASE FillEnds
  <2>1. ret' = ret \/ Return("baddata", 0) \/ Return("eof", 0)
    BY <1>6 DEF FillEnds, Panic
  <2> QED
    BY <1>1, <1>2, <1>6, <2>1 DEF FillEnds, handle, ResNames
<1>7. CASE NextEntryStep
  <2>1. CASE entry' = entry /\ got' = got
             /\ (ret' = ret \/ Return("none", 0) \/ Return("badheader", 0)
                 \/ Return("baddata", 0))
    BY <1>1, <1>2, <2>1 DEF ResNames
  <2>2. CASE Return("entry", 0)
    BY <1>2, <2>2 DEF ResNames
  <2>3. ASSUME NextEntryOpens
        PROVE  \/ Return("entry", 0)
               \/ /\ entry' = entry /\ got' = got
                  /\ ret' = ret \/ Return("badheader", 0)
    BY <2>3 DEF NextEntryOpens, Opens, ReturnUnless, Panic
  <2>4. ASSUME NextEntryMoves \/ NextEntryEnds
        PROVE  entry' = entry /\ got' = got /\ (ret' = ret \/ Return("none", 0))
    BY <2>4 DEF NextEntryMoves, NextEntryEnds, ReturnUnless, ContinueUnless, Continue,
       control, Panic, handle
  <2> QED
    BY <1>7, <2>1, <2>2, <2>3, <2>4
       DEF NextEntryStep, NextEntryOver, NextEntryFails, NextEntryOverlaps, Panic, handle
<1>8. CASE Task
  <2>1. CASE NextEntry \/ Fill \/ Skip \/ \E n \in ReadSizes : Read(n)
    BY <1>1, <2>1 DEF NextEntry, Fill, Skip, Read, ReadCall, Begin
  <2>2. CASE DropEntry
    <3>1. ret' = ret /\ entry' = NoHeader /\ got' = got
      BY <2>2 DEF DropEntry, control
    <3> QED
      BY <3>1 DEF NoBytesAtTheEndOnly
  <2>3. CASE Cancel
    BY <1>2, <2>3 DEF Cancel, ResNames
  <2>4. ASSUME NEW h \in Live, NEW amt \in 0 .. lent, ConsumeEntry(h, amt)
        PROVE  NoBytesAtTheEndOnly'
    <3>1. ret' = ret
      BY <2>4 DEF ConsumeEntry, ContinueUnless, Continue, control, Panic
    <3>2. entry' = entry /\ got' = got \o Ahead(amt)
      BY <2>4 DEF ConsumeEntry, Takes
    <3>3. amt \in 0 .. Len(Unread)
      BY NowFacts
    <3> QED
      BY <3>1, <3>2, <3>3, SameAnswer DEF GotGrows
  <2> QED
    BY <1>8, <2>1, <2>2, <2>3, <2>4 DEF Task
<1>9. CASE Wake
  BY <1>1, <1>9 DEF Wake, handle
<1> QED
  BY <1>3, <1>4, <1>5, <1>6, <1>7, <1>8, <1>9, ReadAnswers DEF Next, Step, FillStep

-----------------------------------------------------------------------------
(* The theorems.                                                           *)

(* The inductive invariant holds of every behaviour of a task that keeps   *)
(* no old handle, on archives whose sizes a usize can hold.                *)
THEOREM ReaderInvariant ==
  ASSUME NoStaleHandles, SizesFit
  PROVE  Spec => []IInv
<1>1. Init => IInv
  BY InitInv
<1>2. IInv /\ [Next]_vars => IInv'
  BY NextInv
<1> QED
  BY <1>1, <1>2, PTL DEF Spec

(* The values the reader keeps are of their types: the pointers of the     *)
(* buffer are in order, the buffer is cleared whenever it is read up, and  *)
(* State is in no marker between two steps (read/mod.rs:180, 240).         *)
THEOREM ReaderTypeCorrect ==
  ASSUME NoStaleHandles, SizesFit
  PROVE  Spec => []TypeOK
<1>1. IInv => TypeOK
  BY DEF IInv
<1> QED
  BY <1>1, ReaderInvariant, PTL

(* The unwraps and assertions of consume hold, as its comment says, and    *)
(* the buffer has room whenever it is read into (read/mod.rs:191, 230).    *)
THEOREM ConsumeNeverFails ==
  ASSUME NoStaleHandles, SizesFit
  PROVE  Spec => []ChecksHold
<1>1. IInv => ChecksHold
  BY DEF IInv
<1> QED
  BY <1>1, ReaderInvariant, PTL

(* A read into some room, a fill_buf and a skip that answer with no bytes  *)
(* do so when all the data of the entry was consumed (read/mod.rs:94).     *)
THEOREM NoBytesMeanTheEnd ==
  ASSUME NoStaleHandles, SizesFit
  PROVE  Spec => []NoBytesAtTheEndOnly
<1>1. Init => NoBytesAtTheEndOnly
  BY DEF Init, NoBytesAtTheEndOnly
<1>2. IInv /\ IInv' /\ NoBytesAtTheEndOnly /\ [Next]_vars => NoBytesAtTheEndOnly'
  BY NextAnswers
<1> QED
  BY <1>1, <1>2, ReaderInvariant, PTL DEF Spec
=============================================================================
