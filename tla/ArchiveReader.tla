--------------------------- MODULE ArchiveReader ----------------------------
(***************************************************************************)
(* The reading half of the crate (src/read/mod.rs, with Archive and Entry  *)
(* of src/lib.rs and Buf of src/shared/buffer.rs): an Archive over an      *)
(* AsyncRead object that holds an archive or a part of one, the task that  *)
(* calls it and the object's answers.  A poll of the stream of entries is  *)
(* one of next_entry, by a task that may still use older handles.          *)
(*                                                                         *)
(* A call goes "idle" -> "running" -> "idle"; a poll that returns Pending  *)
(* leaves it "parked" until the task is woken (Wake) or drops the future   *)
(* (Cancel).  While a call runs a step is either one read of the object    *)
(* into the empty buffer (poll_fill_buf) or the rest of one turn of the    *)
(* loop of its poll_ function; nothing else can take a step meanwhile.     *)
(***************************************************************************)
EXTENDS ArchiveFormat, FiniteSets

CONSTANTS
  Archives,   \* the archives that may be read, each the sequence of headers
  Ends,       \* what may follow the last entry: an empty block and more
  Truncated,  \* whether the source may end before the archive does
  Capacity,   \* bytes of the buffer
  ReadSizes,  \* the room the task offers to a read
  ShortReads, \* whether the object may read less than there is room for
  Faults,     \* what the io object may answer, of IoFaults
  Stale,      \* the task uses handles that are older than a poll of Entries
  Careful     \* the task keeps to the documented use of the handles

IoFaults == {"pending", "ioerror"}

(* Archive::with_capacity takes a non-zero number of blocks.               *)
ASSUME ArchivesAssumption == Archives \subseteq Seq(HeaderType)
(* No header is an empty block, which would be the end of the archive; the *)
(* bytes of different entries of an archive are told apart by their ids.   *)
ASSUME HeadersAssumption ==
  /\ BlockSize > 1
  /\ \A hs \in Archives : \A j, k \in 1 .. Len(hs) :
       hs[j].lead < BlockSize /\ (hs[j].id = hs[k].id => j = k)
ASSUME ReaderCapacityAssumption ==
  Capacity \in Nat \ {0} /\ Capacity % BlockSize = 0
ASSUME EndsAssumption ==
  \A end \in Ends : /\ end \in Seq(Byte) /\ Len(end) >= EofLen
                   /\ AllZero(SubSeq(end, 1, BlockSize))
ASSUME ReaderFlagsAssumption ==
  /\ ReadSizes \subseteq Nat
  /\ Faults \subseteq IoFaults
  /\ {Truncated, ShortReads, Stale, Careful} \subseteq BOOLEAN

VARIABLES
  hdrs,   \* the headers of the archive in the source
  bytes,  \* the bytes of the source
  fed,    \* how many of them the object has given
  state,  \* Archive.state
  data,   \* buf[..cap] of Archive.buf
  pos,    \* its read pointer
  call,   \* the call in progress: its name, its handle, the room of a read
  poll,   \* "idle", "running" or "parked"
  ret,    \* what the last call returned
  panic,  \* the assertion that stopped the program, "none" before
  entry,  \* the header of the last Entry handle if alive, or NoHeader
  older,  \* those of the handles before it, if the task still uses them
  lent,   \* bytes lent by poll_fill_buf that may still be consumed
  found,  \* history: how many entries next_entry has returned
  got     \* history: the data consumed of the last one

source  == <<hdrs, bytes>>
archive == <<state, data, pos>>
control == <<call, poll, ret, panic>>
handle  == <<entry, older, lent, found, got>>
vars    == <<hdrs, bytes, fed, state, data, pos, call, poll, ret, panic,
             entry, older, lent, found, got>>

-----------------------------------------------------------------------------
(* Calls and their results.                                                *)

NoCall == [op |-> "none", n |-> 0, hdr |-> NoHeader]

Return(res, n) ==
  /\ poll' = "idle"
  /\ ret' = [op |-> call.op, hdr |-> call.hdr, room |-> call.n,
             res |-> res, n |-> n]
  /\ call' = NoCall
  /\ UNCHANGED panic

Continue == UNCHANGED control

Panic(what) ==
  /\ panic' = what
  /\ poll' = "idle"
  /\ UNCHANGED <<call, ret>>

(* A panic within the consume that comes before the answer.                *)
ReturnUnless(what, res, n) ==
  IF what = "none" THEN Return(res, n) ELSE Panic(what)
ContinueUnless(what) == IF what = "none" THEN Continue ELSE Panic(what)

Leave(res) ==
  IF res = "pending"
  THEN poll' = "parked" /\ UNCHANGED <<call, ret, panic>>
  ELSE Return(res, 0)

-----------------------------------------------------------------------------
(* Buf, and poll_fill_buf.                                                 *)

Unread    == SubSeq(data, pos + 1, Len(data))
Room      == Capacity - Len(data)
Left      == Len(bytes) - fed
FillLen   == IF Room < Left THEN Room ELSE Left
Terminal  == state.tag = "ReceivedEof"

(* poll_next_state goes on: the buffer has bytes.                          *)
Filled == poll = "running" /\ Unread # <<>>

(* A call that reads: not a next_entry after the end, nor a read of no     *)
(* bytes, which return before they look at the buffer.                     *)
Fills ==
  /\ poll = "running" /\ Unread = <<>>
  /\ call.op = "next_entry" => ~ Terminal
  /\ call.op = "read" => call.n > 0

FillBuf ==
  /\ Fills /\ Room > 0 /\ Left > 0
  /\ \E n \in IF ShortReads THEN 1 .. FillLen ELSE {FillLen} :
       /\ data' = data \o SubSeq(bytes, fed + 1, fed + n)
       /\ fed' = fed + n
  /\ UNCHANGED <<source, state, pos, control, handle>>

FillStalls ==
  /\ Fills
  /\ \E res \in Faults : Leave(res)
  /\ UNCHANGED <<source, fed, archive, handle>>

(* Mutants: the end of the source is taken for the end of the entry, or of *)
(* the archive.                                                            *)
EndOfSourceIsEnd ==
  /\ Fills /\ (Room = 0 \/ Left = 0)
  /\ IF Room = 0 THEN Panic("full")
     ELSE Return(IF call.op = "next_entry" THEN "eof" ELSE "ok", 0)
  /\ UNCHANGED <<source, fed, archive, handle>>

EndOfSourceIsNone ==
  /\ Fills /\ (Room = 0 \/ Left = 0)
  /\ IF Room = 0 THEN Panic("full") ELSE Return("none", 0)
  /\ UNCHANGED <<source, fed, archive, handle>>

(* No bytes: an assertion that there is room for some, and the end of the  *)
(* source, which State::next refuses to go on from if it is terminal.      *)
FillEnds ==
  /\ Fills /\ (Room = 0 \/ Left = 0)
  /\ IF Room = 0 THEN Panic("full")
     ELSE Return(IF Terminal THEN "baddata" ELSE "eof", 0)
  /\ UNCHANGED <<source, fed, archive, handle>>

FillStep == FillBuf \/ FillStalls \/ FillEnds

-----------------------------------------------------------------------------
(* consume: State takes the bytes `b', then one more transition if that    *)
(* left it in a marker or with nothing to wait for.  The outcome is the    *)
(* new state and the assertion that failed, if any.                        *)

Settling == {ReceivingHeader(0, FALSE), ReceivedHeader, ReceivingData(0),
             ReceivedData, AligningData(0), AlignedData, ReceivingEof(0)}

Settled(t, hdr) ==
  IF t.state \in Settling THEN TarNext(t.state, <<>>, hdr) ELSE Result(t.state, 0)

Outcome(t, s, amt) ==
  [state |-> s.state,
   panic |-> CASE t.err # "none"    -> "checked"
               [] s.err = "BadSize" -> "size"
               [] s.err = "panic"   -> "header"
               [] t.n # amt         -> "past"
               [] OTHER             -> "none"]

SettledOutcome(t, amt, hdr) == Outcome(t, Settled(t, hdr), amt)

(* Mutants: no transition follows; a consume of nothing is ignored.        *)
Unsettled(s, b, hdr) ==
  Outcome(TakeSlices(s, b, hdr), Result(TakeSlices(s, b, hdr).state, 0), Len(b))

NothingConsumed(s, b, hdr) ==
  IF b = <<>> THEN [state |-> s, panic |-> "none"]
  ELSE SettledOutcome(TakeSlices(s, b, hdr), Len(b), hdr)

Consumed(s, b, hdr) == SettledOutcome(TakeSlices(s, b, hdr), Len(b), hdr)

(* Mutant: clear() is called while bytes are left.                         *)
CommitClears(amt) == amt >= 0 /\ data' = <<>> /\ pos' = 0

(* The read pointer moves on, and the buffer is cleared at its end.        *)
Commit(amt) ==
  IF pos + amt = Len(data) THEN data' = <<>> /\ pos' = 0
  ELSE pos' = pos + amt /\ UNCHANGED data

Consume(o, amt) ==
  IF o.panic = "none" THEN state' = o.state /\ Commit(amt)
  ELSE UNCHANGED archive

(* The next `n' bytes that are not consumed.                               *)
Ahead(n) == SubSeq(Unread, 1, n)

-----------------------------------------------------------------------------
(* poll_next_entry.  `r' is what poll_next_state returns.                  *)

NextEntryTurn == Filled /\ call.op = "next_entry" /\ ~ Terminal
AfterNext     == TarNext(state, Unread, NoHeader)

(* The archive is over.                                                    *)
NextEntryOver ==
  /\ poll = "running" /\ call.op = "next_entry" /\ Terminal
  /\ Return("none", 0)
  /\ UNCHANGED <<source, fed, archive, handle>>

(* Block::as_header: a header if the block is one and its checksum is      *)
(* right, taken from what is in the buffer.                                *)
IsHeader(block, h) == h.sum = "ok" /\ block = HeaderBytes(h)
HeadersIn(block)   == {h \in {hdrs[k] : k \in 1 .. Len(hdrs)} : IsHeader(block, h)}

(* The handle before stays usable: the lifetime of an Entry is that of the *)
(* archive's borrow, which Entries transmutes it to.                       *)
Outlives ==
  older' = IF Stale /\ entry # NoHeader THEN older \cup {entry} ELSE older

(* Mutant: the handle is made before the archive is moved past the header. *)
OpensUnconsumed(h, o, amt) ==
  /\ amt >= 0
  /\ UNCHANGED archive
  /\ ReturnUnless(o.panic, "entry", 0)
  /\ IF o.panic = "none"
     THEN entry' = h /\ Outlives /\ found' = found + 1 /\ got' = <<>>
     ELSE UNCHANGED <<entry, older, found, got>>

Opens(h, o, amt) ==
  /\ Consume(o, amt)
  /\ ReturnUnless(o.panic, "entry", 0)
  /\ IF o.panic = "none"
     THEN entry' = h /\ Outlives /\ found' = found + 1 /\ got' = <<>>
     ELSE UNCHANGED <<entry, older, found, got>>

(* buf[..BLOCK_SIZE] of a buffer that may be shorter.  A header that is    *)
(* refused is not consumed.                                                *)
NextEntryOpens ==
  /\ NextEntryTurn /\ AfterNext.state = ReceivedHeader /\ AfterNext.err = "none"
  /\ IF Len(Unread) < BlockSize
     THEN Panic("slice") /\ UNCHANGED <<archive, entry, older, found, got>>
     ELSE IF HeadersIn(Ahead(BlockSize)) = {}
     THEN Return("badheader", 0) /\ UNCHANGED <<archive, entry, older, found, got>>
     ELSE \E h \in HeadersIn(Ahead(BlockSize)) :
            \E o \in {Consumed(state, Ahead(AfterNext.n), h)} :
              Opens(h, o, AfterNext.n)
  /\ UNCHANGED <<source, fed, lent>>

NextEntryEnds ==
  /\ NextEntryTurn /\ AfterNext.state = ReceivedEof /\ AfterNext.err = "none"
  /\ \E o \in {Consumed(state, Ahead(AfterNext.n), NoHeader)} :
        Consume(o, AfterNext.n) /\ ReturnUnless(o.panic, "none", 0)
  /\ UNCHANGED <<source, fed, handle>>

NextEntryMoves ==
  /\ NextEntryTurn /\ AfterNext.err = "none"
  /\ AfterNext.state.tag \in {"ReceivingHeader", "ReceivingEof",
                              "AligningData", "AlignedData"}
  /\ \E o \in {Consumed(state, Ahead(AfterNext.n), NoHeader)} :
        Consume(o, AfterNext.n) /\ ContinueUnless(o.panic)
  /\ UNCHANGED <<source, fed, handle>>

(* The second block of the end marker is not empty.                        *)
NextEntryFails ==
  /\ NextEntryTurn /\ AfterNext.err # "none"
  /\ IF AfterNext.err = "panic" THEN Panic("header") ELSE Return("baddata", 0)
  /\ UNCHANGED <<source, fed, archive, handle>>

NextEntryOverlaps ==
  /\ NextEntryTurn /\ AfterNext.err = "none"
  /\ AfterNext.state.tag \in {"ExpectingHeader", "ReceivingData", "ReceivedData"}
  /\ Panic("overlap")
  /\ UNCHANGED <<source, fed, archive, handle>>

NextEntryStep == \/ NextEntryOver \/ NextEntryOpens \/ NextEntryEnds
                 \/ NextEntryMoves \/ NextEntryFails \/ NextEntryOverlaps

-----------------------------------------------------------------------------
(* poll_read_entry and what each caller does with the bytes it returns.    *)

ReadTurn  == /\ Filled /\ call.op \in {"read", "fill_buf", "skip"}
             /\ call.op = "read" => call.n > 0
AfterRead == TarNext(state, Unread, call.hdr)
HasData   == /\ ReadTurn /\ AfterRead.err = "none"
             /\ AfterRead.state.tag \in {"ReceivingData", "ReceivedData"}

(* `amt' bytes of data are consumed by the call in progress.               *)
Takes(amt) == got' = got \o Ahead(amt) /\ UNCHANGED <<entry, older, found>>

(* Mutant: the bytes in the buffer are lent past the end of the entry.     *)
LendsBuffer ==
  /\ HasData /\ call.op = "fill_buf"
  /\ Return("ok", Len(Unread)) /\ lent' = Len(Unread)
  /\ UNCHANGED <<source, fed, archive, entry, older, found, got>>

Lends ==
  /\ HasData /\ call.op = "fill_buf"
  /\ Return("ok", AfterRead.n) /\ lent' = AfterRead.n
  /\ UNCHANGED <<source, fed, archive, entry, older, found, got>>

ReadLen == IF AfterRead.n < call.n THEN AfterRead.n ELSE call.n

Reads ==
  /\ HasData /\ call.op = "read"
  /\ \E o \in {Consumed(state, Ahead(ReadLen), call.hdr)} :
        Consume(o, ReadLen) /\ ReturnUnless(o.panic, "ok", ReadLen)
  /\ Takes(ReadLen)
  /\ UNCHANGED <<source, fed, lent>>

(* skip takes no bytes for the end of the entry and asserts that it is.    *)
Skips ==
  /\ HasData /\ call.op = "skip"
  /\ IF AfterRead.n = 0
     THEN Panic("skip") /\ UNCHANGED archive
     ELSE \E o \in {Consumed(state, Ahead(AfterRead.n), call.hdr)} :
             Consume(o, AfterRead.n) /\ ContinueUnless(o.panic)
  /\ Takes(AfterRead.n)
  /\ UNCHANGED <<source, fed, lent>>

ReadAligns ==
  /\ ReadTurn /\ AfterRead.err = "none" /\ AfterRead.state.tag = "AligningData"
  /\ \E o \in {Consumed(state, Ahead(AfterRead.n), NoHeader)} :
        Consume(o, AfterRead.n) /\ ContinueUnless(o.panic)
  /\ UNCHANGED <<source, fed, handle>>

(* The end of the entry: no bytes, which poll_read consumes again.         *)
ConsumedAtEnd(o) ==
  IF call.op = "read" /\ o.panic = "none" THEN Consumed(o.state, <<>>, call.hdr) ELSE o

ReadEnds ==
  /\ ReadTurn /\ AfterRead.err = "none" /\ AfterRead.state = AlignedData
  /\ \E o \in {ConsumedAtEnd(Consumed(state, Ahead(AfterRead.n), call.hdr))} :
         /\ Consume(o, AfterRead.n)
         /\ IF call.op = "skip" /\ o.panic = "none" /\ o.state # ExpectingHeader
            THEN Panic("skip") ELSE ReturnUnless(o.panic, "ok", 0)
  /\ UNCHANGED <<source, fed, handle>>

ReadRefused ==
  /\ ReadTurn
  /\ \/ AfterRead.err # "none"
     \/ AfterRead.state.tag \notin {"ReceivingData", "ReceivedData",
                                    "AligningData", "AlignedData"}
  /\ IF AfterRead.err = "none" THEN Panic("unreachable") ELSE Return("baddata", 0)
  /\ UNCHANGED <<source, fed, archive, handle>>

ReadNothing ==
  /\ poll = "running" /\ call.op = "read" /\ call.n = 0
  /\ Return("ok", 0)
  /\ UNCHANGED <<source, fed, archive, handle>>

ReadStep == \/ Lends \/ Reads \/ Skips \/ ReadAligns \/ ReadEnds
            \/ ReadRefused \/ ReadNothing

(* One turn of the loop of the call in progress, or the read before it.    *)
Step == FillStep \/ NextEntryStep \/ ReadStep

-----------------------------------------------------------------------------
(* The task.  The Entry handle borrows the archive, so next_entry needs it *)
(* gone; a handle from the stream can be kept, as `Stale' tells.  A        *)
(* careful task stops after an error, reads or skips an entry to its end,  *)
(* and does not read again once it was told the end: a read into some room *)
(* or a fill_buf of no bytes, or a skip.  Reading exactly the size of an   *)
(* entry with data is enough too.                                          *)

Failed == ret.res \in {"ioerror", "eof", "badheader", "baddata"}
Ended  == ret.res = "ok" /\ ret.n = 0 /\ (ret.op = "read" => ret.room > 0)

Live   == ({entry} \ {NoHeader}) \cup older

Begin(op, hdr, n) ==
  /\ poll = "idle" /\ panic = "none"
  /\ Careful => ~ Failed
  /\ poll' = "running"
  /\ call' = [op |-> op, n |-> n, hdr |-> hdr]
  /\ lent' = 0
  /\ UNCHANGED <<source, fed, archive, ret, panic, entry, older, found, got>>

NextEntry == (entry # NoHeader => Stale) /\ Begin("next_entry", NoHeader, 0)

ReadCall(op, n) ==
  \E h \in Live : (Careful => ~ Ended) /\ Begin(op, h, n)

Read(n) == (Careful => n > 0) /\ ReadCall("read", n)
Fill    == ReadCall("fill_buf", 0)
Skip    == ReadCall("skip", 0)

(* Entry::consume, at most of what was lent.                               *)
ConsumeEntry(h, amt) ==
  /\ poll = "idle" /\ panic = "none"
  /\ amt <= lent /\ (amt > 0 => h = ret.hdr) /\ (Careful => amt > 0)
  /\ \E o \in {Consumed(state, Ahead(amt), h)} :
        Consume(o, amt) /\ ContinueUnless(o.panic)
  /\ Takes(amt)
  /\ lent' = lent - amt
  /\ UNCHANGED <<source, fed>>

DropEntry ==
  /\ entry # NoHeader /\ poll = "idle" /\ panic = "none"
  /\ Careful => Ended \/ (Len(got) = entry.size /\ got # <<>>)
  /\ entry' = NoHeader /\ lent' = 0
  /\ UNCHANGED <<source, fed, archive, control, older, found, got>>

(* The executor polls again, or the task drops the future.                 *)
Wake ==
  /\ poll = "parked"
  /\ poll' = "running"
  /\ UNCHANGED <<source, fed, archive, call, ret, panic, handle>>

Cancel ==
  /\ poll = "parked"
  /\ Return("cancelled", 0)
  /\ UNCHANGED <<source, fed, archive, handle>>

Task == \/ NextEntry \/ Fill \/ Skip \/ DropEntry \/ Cancel
        \/ \E n \in ReadSizes : Read(n)
        \/ \E h \in Live, amt \in 0 .. lent : ConsumeEntry(h, amt)

(* The source holds an archive with its end, or the first part of them.    *)
Init ==
  /\ hdrs \in Archives
  /\ \E end \in Ends :
       LET whole == EntriesBytes(hdrs) \o end
       IN  \E n \in IF Truncated THEN 0 .. Len(whole) ELSE {Len(whole)} :
             bytes = SubSeq(whole, 1, n)
  /\ fed = 0 /\ state = ExpectingHeader
  /\ data = <<>> /\ pos = 0
  /\ call = NoCall /\ poll = "idle"
  /\ ret = [op |-> "none", hdr |-> NoHeader, room |-> 0, res |-> "none", n |-> 0]
  /\ panic = "none"
  /\ entry = NoHeader /\ older = {} /\ lent = 0
  /\ found = 0 /\ got = <<>>

Next == Step \/ Task \/ Wake

Spec == Init /\ [][Next]_vars

(* A poll runs to its end; a parked task is woken; an object that is       *)
(* polled for ever gives bytes at some time, or the end of the source.     *)
IoAnswers == FillBuf \/ FillEnds

FairSpec == Spec /\ WF_vars(Step) /\ WF_vars(Wake) /\ SF_vars(IoAnswers)

-----------------------------------------------------------------------------
(* The type invariant, with the bounds of the buffer's two pointers, that  *)
(* the buffer is cleared whenever it is read up (which is what makes room  *)
(* for the next read, read/mod.rs:240), and that consume leaves State in   *)
(* no marker but the end (read/mod.rs:208).                                *)
Handles == {hdrs[k] : k \in 1 .. Len(hdrs)}

TypeOK ==
  /\ hdrs \in Archives /\ bytes \in Seq(Byte)
  /\ GoodState(state)
  /\ state.tag \notin {"ReceivedHeader", "ReceivedData", "AlignedData"}
  /\ data \in Seq(Byte) /\ Len(data) <= Capacity
  /\ pos \in 0 .. Len(data) /\ (Unread = <<>> => data = <<>>)
  /\ fed \in 0 .. Len(bytes)
  /\ call \in [op : {"none", "next_entry", "read", "fill_buf", "skip"},
               n : ReadSizes \cup {0}, hdr : Handles \cup {NoHeader}]
  /\ poll \in {"idle", "running", "parked"}
  /\ ret \in [op : {"none", "next_entry", "read", "fill_buf", "skip"},
              hdr : Handles \cup {NoHeader}, room : ReadSizes \cup {0},
              res : {"none", "ok", "entry", "eof", "ioerror", "baddata",
                     "badheader", "cancelled"}, n : Nat]
  /\ panic \in {"none", "full", "checked", "size", "header", "past", "slice",
                "overlap", "skip", "unreachable"}
  /\ entry \in Handles \cup {NoHeader} /\ older \subseteq Handles
  /\ lent \in 0 .. Len(Unread)
  /\ found \in Nat /\ got \in Seq(Byte)

(* State stands in the archive exactly where the consumed bytes end, and   *)
(* the buffer holds the bytes that follow: whatever the object gave at a   *)
(* time, whatever was held up, cancelled, consumed in parts or read twice, *)
(* the reader never skips a byte nor takes one of an item for another's    *)
(* (consume, read/mod.rs:180).                                             *)
Start(k)  == Len(Laid(hdrs)[k - 1])
Offset == fed - Len(Unread)

StandsInArchive ==
  /\ found <= Len(hdrs)
  /\ Unread = SubSeq(bytes, Offset + 1, fed)
  /\ Offset = IF InEntry(state) THEN Start(found) + ItemOffset(state, hdrs[found])
                 ELSE Start(found + 1) + ItemOffset(state, NoHeader)

(* The handle is of the entry that was found last, and what was consumed   *)
(* through it is the beginning of that entry's data, all of it once State  *)
(* is past the data (poll_read_entry, read/mod.rs:94).                     *)
HandleReadsItsEntry ==
  /\ entry # NoHeader => entry = hdrs[found]
  /\ found > 0 =>
       /\ got = [i \in 1 .. Len(got) |-> DataByte(hdrs[found], i)]
       /\ Len(got) = hdrs[found].size
            - (IF state.tag = "ReceivingData" THEN state.rem ELSE 0)

(* None is answered only behind the last entry and both empty blocks,      *)
(* UnexpectedEof only when the source ends within the archive, and other   *)
(* refusals only for a header or an end that is not right, or for a header *)
(* that was begun in an earlier read (read/mod.rs:36, 166).                *)
EndIsEmpty ==
  \A i \in Len(EntriesBytes(hdrs)) + 1 .. Len(ArchiveBytes(hdrs)) :
    i <= fed => bytes[i] = ZeroByte

AnswersAreReal ==
  panic = "none" =>
    /\ ret.res = "none" /\ ret.op # "none" =>
         /\ found = Len(hdrs) /\ Offset = Start(found + 1) + EofLen
         /\ EndIsEmpty
    /\ ret.res = "eof" => fed = Len(bytes) /\ fed < Len(ArchiveBytes(hdrs))
    /\ ret.res = "badheader" /\ poll = "idle" =>
         hdrs[found + 1].sum # "ok" \/ state.rem < BlockSize
    /\ ret.res = "baddata" => ~ EndIsEmpty

(* A read into some room, a fill_buf and a skip that answer with no bytes  *)
(* do so at the end of the entry and not before (read/mod.rs:94, 141).     *)
NoBytesAtTheEndOnly ==
  entry # NoHeader /\ Ended => Len(got) = entry.size

(* "This should not fail because every slice within our buffer has already *)
(* been checked" (read/mod.rs:191): no caller makes the checks of consume  *)
(* fail, nor the assertion that the buffer has room for a read.            *)
ChecksHold == panic \notin {"checked", "header", "past", "full"}

(* The bytes a read or a fill_buf answers with are of the entry whose      *)
(* handle it was called on: "working with multiple entries concurrently is *)
(* not possible -- their data cannot be interleaved" (lib.rs:162).         *)
NotInterleaved ==
  ret.op \in {"read", "fill_buf"} /\ ret.res = "ok" /\ ret.n > 0 =>
    ret.hdr = hdrs[found]

(* A task that keeps to the documented use meets a panic in four cases     *)
(* only: a header was begun in an earlier read; its size does not parse;   *)
(* an entry without data is skipped, or read as an AsyncBufRead.           *)
CarefulReaderPanics ==
  Careful =>
    \/ panic = "none"
    \/ panic = "slice" /\ state.tag = "ReceivingHeader" /\ state.rem < BlockSize
    \/ panic = "size" /\ hdrs[found + 1].size = BadSize
    \/ panic \in {"skip", "overlap"} /\ hdrs[found].size = 0 /\ state = ReceivingData(0)

(* A call returns, or panics, if the object is not pending for ever: no    *)
(* loop of a poll_ function spins (read/mod.rs:48, 99, 138).               *)
CallsReturn == poll # "idle" ~> poll = "idle"

(* "Reads from the source object until the next entry header is received"  *)
(* (read/mod.rs:36): an entry whose header is right is found.              *)
HeadersAreFound ==
  panic # "slice" /\ (poll = "idle" /\ ret.res = "badheader" =>
                        hdrs[found + 1].sum # "ok")

(* "Reads until the end of this entry" (lib.rs:260): skip does not panic   *)
(* on an entry that was just found.                                        *)
SkipReachesTheEnd == panic # "skip"
=============================================================================
