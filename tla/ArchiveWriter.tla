--------------------------- MODULE ArchiveWriter ----------------------------
(***************************************************************************)
(* The writing half of the crate (src/write/mod.rs, with Archive and Entry *)
(* of src/lib.rs and Buf of src/shared/buffer.rs): an Archive over an      *)
(* AsyncWrite object, the task that calls it and the object's answers.     *)
(*                                                                         *)
(* A call goes "idle" -> "running" -> "idle"; a poll that returns Pending  *)
(* leaves it "parked" until the task is woken (Wake) or drops the future   *)
(* (Cancel).  While a call runs each step is one turn of the loop of its   *)
(* poll_ function, so nothing but that call can take a step.               *)
(***************************************************************************)
EXTENDS ArchiveFormat, FiniteSets
LOCAL INSTANCE SequencesExt

CONSTANTS
  Headers,      \* the headers the task may add
  MaxEntries,   \* bound on the entries of the archive
  Bufs,         \* what one write may offer: [len, ends], see Whole
  Capacity,     \* bytes of the buffer
  Vectored,     \* io.is_write_vectored()
  Debug,        \* whether debug assertions are compiled in
  Faults,       \* what the io object may answer, of IoFaults
  Careful       \* the task keeps to the documented use of the handles

IoFaults == {"pending", "ioerror", "writezero"}

ASSUME HeadersAssumption  == Headers \subseteq HeaderType
ASSUME CapacityAssumption == Capacity \in Nat /\ Capacity >= BlockSize
ASSUME BufsAssumption     ==
  \A bufs \in Bufs : /\ bufs.len \in Nat
                     /\ bufs.ends \subseteq 0 .. bufs.len
                     /\ bufs.len \in bufs.ends
ASSUME FlagsAssumption    ==
  /\ MaxEntries \in Nat
  /\ Faults \subseteq IoFaults
  /\ {Vectored, Debug, Careful} \subseteq BOOLEAN

VARIABLES
  state,    \* Archive.state
  data,     \* buf[..cap] of Archive.buf
  pos,      \* its read pointer: the bytes already sent to the io object
  out,      \* all the bytes the io object has accepted
  shut,     \* the io object was shut down
  call,     \* the call in progress
  poll,     \* "idle", "running", "parked", or "gone" with the Archive
  ret,      \* what the last call returned
  panic,    \* the assertion that stopped the program, "none" before
  entry,    \* the header of the live Entry handle, or NoHeader
  told,     \* bytes of its data that its task was told are written
  cur,      \* history: the header of the entry that is being archived
  head,     \* history: the header that was written for it
  done      \* history: the finished entries, each with its first byte's place

archive == <<state, data, pos>>
control == <<call, poll, ret, panic>>
handle  == <<entry, told>>
history == <<cur, head, done>>
vars    == <<state, data, pos, out, shut, call, poll, ret, panic,
             entry, told, cur, head, done>>

-----------------------------------------------------------------------------
(* Calls and their results.  `phase' tells the poll_finish_entry part of a *)
(* write or an Entry::finish ("align"), and the flush that ends the latter *)
(* ("flush"), from what comes before; a poll always begins with "body".    *)

Call(op, hdr, bufs) ==
  [op |-> op, hdr |-> hdr, bufs |-> bufs, phase |-> "body", taken |-> 0]
NoBufs == [len |-> 0, ends |-> {0}]
NoCall == Call("none", NoHeader, NoBufs)

Ret(res, n) == [op |-> call.op, res |-> res, n |-> n]

Return(res, n) ==
  /\ poll' = "idle"
  /\ ret' = Ret(res, n)
  /\ call' = NoCall
  /\ UNCHANGED panic

Continue == UNCHANGED control

Park ==
  /\ poll' = "parked"
  /\ call' = [call EXCEPT !.phase = "body", !.taken = 0]
  /\ UNCHANGED <<ret, panic>>

Panic(what) ==
  /\ panic' = what
  /\ poll' = "idle"
  /\ UNCHANGED <<call, ret>>

(* `ready!(..)?' of a poll that is not Ok.                                 *)
Leave(res) == IF res = "pending" THEN Park ELSE Return(res, 0)

Running(op, phase) ==
  poll = "running" /\ call.op = op /\ call.phase = phase

-----------------------------------------------------------------------------
(* Buf and poll_flush_buffered.                                            *)

Unsent == SubSeq(data, pos + 1, Len(data))

(* Every byte accepted so far, in order: the archive, sent or still here.  *)
Image == out \o Unsent

(* Mutant: clear() leaves the read pointer.                                *)
ClearedButPos == out' = Image /\ data' = <<>> /\ UNCHANGED pos

Flushed ==
  /\ out' = Image
  /\ data' = <<>>
  /\ pos' = 0

(* Mutant: what the object took before it failed is not committed.         *)
StopsUncommitted(res) ==
  /\ res \in Faults
  /\ \E k \in 0 .. Len(Unsent) - 1 : out' = out \o SubSeq(data, pos + 1, pos + k)
  /\ UNCHANGED <<data, pos>>

(* The io object takes a part of the buffer, in one write or many, then    *)
(* answers Pending, an error, or Ok(0), which becomes WriteZero.           *)
FlushStops(res) ==
  /\ res \in Faults
  /\ \E k \in 0 .. Len(Unsent) - 1 :
       /\ out' = out \o SubSeq(data, pos + 1, pos + k)
       /\ pos' = pos + k
  /\ UNCHANGED data

-----------------------------------------------------------------------------
(* poll_write_vectored.  `b' is the prefix of the slices that may be       *)
(* written and `whole' the bytes of the slices the prefix has in full; the *)
(* rest of `b' is its remainder.                                           *)

(* Mutant: an offer is passed through whatever its length.                 *)
DirectAlways(b) == Vectored

Direct(b)     == Vectored /\ Len(b) >= Capacity
NeedsFlush(b) == Direct(b) \/ Len(b) > Capacity - Len(data)

(* How many bytes the io object may take of slices passed to it: the whole *)
(* slices or a part of them, and once it took them all, more or less of    *)
(* the remainder, of which a failed write counts as zero bytes.            *)
DirectCounts(b, whole) ==
  {n \in 0 .. Len(b) :
     \/ 0 < n /\ n < whole
     \/ whole < n
     \/ n = whole /\ (whole = Len(b) \/ Faults # {})
     \/ n = 0 /\ "writezero" \in Faults}

Counts(b, whole) ==
  IF Direct(b) THEN DirectCounts(b, whole)
  ELSE IF Len(b) <= Capacity THEN {Len(b)} ELSE {Capacity}

(* Mutant: bytes are passed through ahead of those in the buffer.          *)
SendUnordered(b, n) ==
  IF Direct(b)
  THEN out' = out \o SubSeq(b, 1, n) /\ UNCHANGED <<data, pos>>
  ELSE IF NeedsFlush(b)
  THEN out' = Image /\ data' = SubSeq(b, 1, n) /\ pos' = 0
  ELSE data' = data \o SubSeq(b, 1, n) /\ UNCHANGED <<out, pos>>

(* n bytes of `b' are passed through, or put in the buffer.                *)
Send(b, n) ==
  IF Direct(b)
  THEN out' = Image \o SubSeq(b, 1, n) /\ data' = <<>> /\ pos' = 0
  ELSE IF NeedsFlush(b)
  THEN out' = Image /\ data' = SubSeq(b, 1, n) /\ pos' = 0
  ELSE data' = data \o SubSeq(b, 1, n) /\ UNCHANGED <<out, pos>>

(* The state is checked against all of `b' before anything is written and  *)
(* moved by what was.  OutgoingIsValid says that neither check can fail.   *)
Valid(b, hdr) ==
  LET r == TakeSlices(state, b, hdr)
  IN  r.err = "none" /\ r.n = Len(b)

(* Mutant: a write of no bytes leaves State alone.                         *)
WriteOfNothingIgnored(b, whole, hdr, n) ==
  /\ n \in Counts(b, whole)
  /\ Send(b, n)
  /\ state' = IF n = 0 THEN state
              ELSE TakeSlices(state, SubSeq(b, 1, n), hdr).state

PollWriteVectored(b, whole, hdr, n) ==
  /\ n \in Counts(b, whole)
  /\ Send(b, n)
  /\ state' = TakeSlices(state, SubSeq(b, 1, n), hdr).state

(* It returns before it has taken any byte of `b': the buffer could not be *)
(* flushed, or the io object refuses the first slices passed through.      *)
PollWriteFails(b, res) ==
  /\ \/ NeedsFlush(b) /\ FlushStops(res)
     \/ Direct(b) /\ Flushed /\ res \in Faults \ {"writezero"}
  /\ UNCHANGED state

-----------------------------------------------------------------------------
(* What the running step is about to write: `buf' of each poll_ function.  *)

DataFrom(h, from, n) == [i \in 1 .. n |-> DataByte(h, from + i)]

(* Mutant: the offer is not cut at the end of the entry.                   *)
OfferLen(bufs) == bufs.len

(* take_prefix(rem as usize) of what the task offers.                      *)
PrefixLen(bufs) ==
  IF bufs.len < AsUsize(state.rem) THEN bufs.len ELSE AsUsize(state.rem)

Whole(bufs) ==
  CHOOSE e \in bufs.ends \cup {0} :
    /\ e <= PrefixLen(bufs)
    /\ \A f \in bufs.ends : f <= PrefixLen(bufs) => f <= e

(* Mutants: a header is begun again; the end marker is written whole.      *)
OutgoingRestarted ==
  IF call.op = "add_entry" THEN HeaderBytes(call.hdr)
  ELSE IF Running("write", "body")
  THEN DataFrom(entry, told, PrefixLen(call.bufs))
  ELSE Zeros(IF state.tag = "ExpectingHeader" THEN BlockSize ELSE state.rem)

OutgoingWholeEnd ==
  IF call.op = "add_entry"
  THEN LET at == IF state.tag = "ExpectingHeader" THEN 0 ELSE BlockSize - state.rem
       IN  SubSeq(HeaderBytes(call.hdr), at + 1, BlockSize)
  ELSE IF Running("write", "body")
  THEN DataFrom(entry, told, PrefixLen(call.bufs))
  ELSE Zeros(IF state.tag = "ExpectingHeader" THEN BlockSize
             ELSE IF state.tag = "ReceivingEof" THEN EofLen ELSE state.rem)

Outgoing ==
  IF call.op = "add_entry"
  THEN LET at == IF state.tag = "ExpectingHeader" THEN 0 ELSE BlockSize - state.rem
       IN  SubSeq(HeaderBytes(call.hdr), at + 1, BlockSize)
  ELSE IF Running("write", "body")
  THEN DataFrom(entry, told, PrefixLen(call.bufs))
  ELSE Zeros(IF state.tag = "ExpectingHeader" THEN BlockSize ELSE state.rem)

OutgoingHeader == IF call.op = "add_entry" THEN call.hdr ELSE entry

-----------------------------------------------------------------------------
(* poll_write_header, then Entry::new.                                     *)

WritesHeader ==
  /\ Running("add_entry", "body")
  /\ \/ state.tag = "ExpectingHeader"
     \/ state.tag = "ReceivingHeader" /\ ~ state.empty

HeaderWrite ==
  /\ WritesHeader
  /\ \E n \in 0 .. BlockSize :
       /\ PollWriteVectored(Outgoing, Len(Outgoing), call.hdr, n)
       /\ IF n = 0 THEN Return("writezero", 0) ELSE Continue
       /\ IF n = 0 THEN UNCHANGED <<cur, head>>
          ELSE cur' = call.hdr /\ head' = call.hdr
  /\ UNCHANGED <<shut, handle, done>>

HeaderStalls ==
  /\ WritesHeader
  /\ \E res \in IoFaults : PollWriteFails(Outgoing, res) /\ Leave(res)
  /\ UNCHANGED <<shut, handle, history>>

(* An unparsable size leaves the state where it is, so the next add_entry  *)
(* comes here with another header; an unparsable checksum does not, and a  *)
(* checksum of zero fails the assertion of Entry::new.                     *)
HeaderOpensEntry ==
  /\ Running("add_entry", "body") /\ state = ReceivedHeader
  /\ LET r == TarNext(state, <<>>, call.hdr)
     IN  IF r.err # "none"
         THEN Return("badheader", 0) /\ UNCHANGED <<state, handle, cur>>
         ELSE /\ state' = r.state /\ cur' = call.hdr
              /\ \/ call.hdr.sum = "ok" /\ Return("ok", 0)
                    /\ entry' = call.hdr /\ told' = 0
                 \/ call.hdr.sum = "bad" /\ Return("badheader", 0)
                    /\ UNCHANGED handle
                 \/ call.hdr.sum = "zero" /\ Panic("header")
                    /\ UNCHANGED handle
  /\ UNCHANGED <<data, pos, out, shut, head, done>>

(* Mutant: it gives a handle while another entry is being written.         *)
OverlapOpensEntry ==
  /\ Running("add_entry", "body")
  /\ state.tag \in {"ReceivingData", "ReceivedData", "AligningData", "AlignedData"}
  /\ Return("ok", 0) /\ entry' = call.hdr /\ told' = 0
  /\ UNCHANGED <<archive, out, shut, history>>

HeaderOverlaps ==
  /\ Running("add_entry", "body")
  /\ state.tag \in {"ReceivingData", "ReceivedData", "AligningData", "AlignedData"}
  /\ Return("overlap", 0)
  /\ UNCHANGED <<archive, out, shut, handle, history>>

HeaderPanics ==
  /\ Running("add_entry", "body")
  /\ \/ state.tag = "ReceivingHeader" /\ state.empty
     \/ state.tag \in {"ReceivingEof", "ReceivedEof"}
  /\ Panic("state")
  /\ UNCHANGED <<archive, out, shut, handle, history>>

AddEntryStep == \/ HeaderWrite \/ HeaderStalls \/ HeaderOpensEntry
                \/ HeaderOverlaps \/ HeaderPanics

-----------------------------------------------------------------------------
(* poll_write_entry.  The write that brings the last byte of the entry     *)
(* goes on with poll_finish_entry.                                         *)

EntryWrite ==
  /\ Running("write", "body") /\ state.tag = "ReceivingData"
  /\ \E n \in 0 .. PrefixLen(call.bufs) :
       /\ PollWriteVectored(Outgoing, Whole(call.bufs), entry, n)
       /\ IF n # state.rem
          THEN Return("ok", n) /\ told' = told + n
          ELSE /\ UNCHANGED told
               /\ IF Debug /\ call.bufs.len # n
                  THEN Panic("debug")
                  ELSE /\ call' = [call EXCEPT !.phase = "align", !.taken = n]
                       /\ UNCHANGED <<poll, ret, panic>>
  /\ UNCHANGED <<shut, entry, history>>

EntryStalls ==
  /\ Running("write", "body") /\ state.tag = "ReceivingData"
  /\ \E res \in IoFaults : PollWriteFails(Outgoing, res) /\ Leave(res)
  /\ UNCHANGED <<shut, handle, history>>

EntryWritePanics ==
  /\ Running("write", "body") /\ state.tag # "ReceivingData"
  /\ Panic("state")
  /\ UNCHANGED <<archive, out, shut, handle, history>>

WriteStep == EntryWrite \/ EntryStalls \/ EntryWritePanics

-----------------------------------------------------------------------------
(* poll_finish_entry, called by a write and by Entry::finish.              *)

Finishing == Running("write", "align") \/ Running("finish_entry", "body")

(* Mutants: the write returns what it was offered; finish does not flush.  *)
FinishedAsOffered ==
  IF call.op = "write"
  THEN Return("ok", call.bufs.len) /\ told' = told + call.bufs.len
  ELSE call' = [call EXCEPT !.phase = "flush"] /\ UNCHANGED <<poll, ret, panic, told>>

FinishedUnflushed == Return("ok", call.taken) /\ told' = told + call.taken

(* Its Ok: the write returns what it took, Entry::finish goes on to flush. *)
EntryFinished ==
  IF call.op = "write"
  THEN Return("ok", call.taken) /\ told' = told + call.taken
  ELSE /\ call' = [call EXCEPT !.phase = "flush"]
       /\ UNCHANGED <<poll, ret, panic, told>>

AlignBegins ==
  /\ Finishing /\ state = ReceivedData
  /\ state' = TarNext(state, <<>>, entry).state
  /\ UNCHANGED <<data, pos, out, shut, control, handle, history>>

AlignWrite ==
  /\ Finishing /\ state.tag = "AligningData"
  /\ \E n \in 0 .. state.rem : PollWriteVectored(Outgoing, state.rem, entry, n)
  /\ UNCHANGED <<shut, control, handle, history>>

(* The write drops an error of poll_finish_entry, after a debug assertion. *)
AlignStalls ==
  /\ Finishing /\ state.tag = "AligningData"
  /\ \E res \in IoFaults :
       /\ PollWriteFails(Outgoing, res)
       /\ IF call.op = "write" /\ res # "pending"
          THEN IF Debug THEN Panic("debug") /\ UNCHANGED told
               ELSE Return("ok", call.taken) /\ told' = told + call.taken
          ELSE Leave(res) /\ UNCHANGED told
  /\ UNCHANGED <<shut, entry, history>>

AlignEnds ==
  /\ Finishing /\ state = AlignedData
  /\ state' = TarNext(state, <<>>, NoHeader).state
  /\ EntryFinished
  /\ done' = Append(done, [hdr |-> cur, head |-> head,
                           base |-> Len(Image) - EntryLen(cur)])
  /\ cur' = NoHeader /\ head' = NoHeader
  /\ UNCHANGED <<data, pos, out, shut, entry>>

AlignedAlready ==
  /\ Finishing /\ state = ExpectingHeader
  /\ EntryFinished
  /\ UNCHANGED <<archive, out, shut, entry, history>>

(* Mutant: an entry that is finished already may not be finished again.    *)
FinishedTwicePanics ==
  /\ Finishing
  /\ state.tag \notin {"ReceivedData", "AligningData", "AlignedData"}
  /\ Panic("state")
  /\ UNCHANGED <<archive, out, shut, handle, history>>

AlignPanics ==
  /\ Finishing
  /\ state.tag \in {"ReceivingHeader", "ReceivedHeader", "ReceivingData",
                    "ReceivingEof", "ReceivedEof"}
  /\ Panic("state")
  /\ UNCHANGED <<archive, out, shut, handle, history>>

FinishEntryStep == \/ AlignBegins \/ AlignWrite \/ AlignStalls \/ AlignEnds
                   \/ AlignedAlready \/ AlignPanics

-----------------------------------------------------------------------------
(* Archive::poll_flush: the buffer, then the io object.                    *)

Flushing == Running("flush", "body") \/ Running("finish_entry", "flush")

(* Mutant: only the io object is flushed.                                  *)
FlushesObjectOnly ==
  /\ Flushing /\ Return("ok", 0)
  /\ UNCHANGED <<archive, out, shut, handle, history>>

FlushReturns ==
  /\ Flushing /\ Flushed /\ Return("ok", 0)
  /\ UNCHANGED <<state, shut, handle, history>>

(* Pending or an error, from writing the buffer or from the object's flush.*)
FlushStalls ==
  /\ Flushing
  /\ \E res \in Faults :
       /\ FlushStops(res) \/ (Flushed /\ res # "writezero")
       /\ Leave(res)
  /\ UNCHANGED <<state, shut, handle, history>>

FlushStep == FlushReturns \/ FlushStalls

-----------------------------------------------------------------------------
(* poll_finish.                                                            *)

WritesEnd ==
  /\ Running("finish", "body")
  /\ \/ state.tag \in {"ExpectingHeader", "ReceivingEof"}
     \/ state.tag = "ReceivingHeader" /\ state.empty

EndWrite ==
  /\ WritesEnd
  /\ \E n \in 0 .. BlockSize :
       PollWriteVectored(Outgoing, Len(Outgoing), NoHeader, n)
  /\ UNCHANGED <<shut, control, handle, history>>

EndStalls ==
  /\ WritesEnd
  /\ \E res \in IoFaults : PollWriteFails(Outgoing, res) /\ Leave(res)
  /\ UNCHANGED <<shut, handle, history>>

(* Mutant: the object is shut down with bytes still in the buffer.         *)
ShutdownUnflushed ==
  /\ Running("finish", "body") /\ state = ReceivedEof
  /\ Return("ok", 0)
  /\ shut' = TRUE
  /\ UNCHANGED <<archive, out, handle, history>>

Shutdown ==
  /\ Running("finish", "body") /\ state = ReceivedEof
  /\ Flushed /\ Return("ok", 0)
  /\ shut' = TRUE
  /\ UNCHANGED <<state, handle, history>>

ShutdownStalls ==
  /\ Running("finish", "body") /\ state = ReceivedEof
  /\ \E res \in Faults :
       /\ FlushStops(res) \/ (Flushed /\ res # "writezero")
       /\ Leave(res)
  /\ UNCHANGED <<state, shut, handle, history>>

FinishPanics ==
  /\ Running("finish", "body")
  /\ \/ state.tag = "ReceivingHeader" /\ ~ state.empty
     \/ state.tag \in {"ReceivedHeader", "ReceivingData", "ReceivedData",
                       "AligningData", "AlignedData"}
  /\ Panic("state")
  /\ UNCHANGED <<archive, out, shut, handle, history>>

FinishStep == EndWrite \/ EndStalls \/ Shutdown \/ ShutdownStalls \/ FinishPanics

(* One turn of the loop of the call in progress.                           *)
Step == AddEntryStep \/ WriteStep \/ FinishEntryStep \/ FlushStep \/ FinishStep

-----------------------------------------------------------------------------
(* The task.  Archive is borrowed by the Entry handle, so add_entry and    *)
(* finish need the handle gone; the others go through the handle.          *)

Failed == ret.res \in {"badheader", "overlap", "ioerror", "writezero"}

(* What a task knows of its entry: it was told that all the data is taken. *)
Complete == told = entry.size

Begin(op, hdr, bufs) ==
  /\ poll = "idle" /\ panic = "none"
  /\ Careful => ~ Failed
  /\ poll' = "running"
  /\ call' = Call(op, hdr, bufs)
  /\ UNCHANGED <<archive, out, shut, ret, panic, handle, history>>

AddEntry(h) ==
  /\ entry = NoHeader /\ Len(done) < MaxEntries
  /\ Careful => ~ shut
  /\ Begin("add_entry", h, NoBufs)

Write(bufs) ==
  /\ entry # NoHeader
  /\ Careful => told + bufs.len <= entry.size
  /\ Begin("write", NoHeader, bufs)

Flush       == entry # NoHeader /\ Begin("flush", NoHeader, NoBufs)
FinishEntry == /\ entry # NoHeader /\ (Careful => Complete)
               /\ Begin("finish_entry", NoHeader, NoBufs)
Finish      == entry = NoHeader /\ Begin("finish", NoHeader, NoBufs)

DropEntry ==
  /\ entry # NoHeader /\ poll = "idle" /\ panic = "none"
  /\ Careful => Complete
  /\ entry' = NoHeader /\ told' = 0
  /\ UNCHANGED <<archive, out, shut, control, history>>

(* The executor polls again, or the task drops the future.                 *)
Wake ==
  /\ poll = "parked"
  /\ poll' = "running"
  /\ UNCHANGED <<archive, out, shut, call, ret, panic, handle, history>>

Cancel ==
  /\ poll = "parked" /\ ~ Careful
  /\ Return("cancelled", 0)
  /\ UNCHANGED <<archive, out, shut, handle, history>>

(* Archive::into_inner: the object comes back, the buffer is dropped.      *)
IntoInner ==
  /\ entry = NoHeader /\ poll = "idle" /\ panic = "none"
  /\ poll' = "gone" /\ data' = <<>> /\ pos' = 0
  /\ UNCHANGED <<state, out, shut, call, ret, panic, handle, history>>

Task == \/ \E h \in Headers : AddEntry(h)
        \/ \E bufs \in Bufs : Write(bufs)
        \/ Flush \/ FinishEntry \/ Finish \/ DropEntry \/ Cancel \/ IntoInner

Init ==
  /\ state = ExpectingHeader
  /\ data = <<>> /\ pos = 0
  /\ out = <<>> /\ shut = FALSE
  /\ call = NoCall /\ poll = "idle"
  /\ ret = [op |-> "none", res |-> "none", n |-> 0]
  /\ panic = "none"
  /\ entry = NoHeader /\ told = 0
  /\ cur = NoHeader /\ head = NoHeader /\ done = <<>>

Next == Step \/ Task \/ Wake

Spec == Init /\ [][Next]_vars

-----------------------------------------------------------------------------
(* The type invariant, with the bounds of the buffer's two pointers and of *)
(* the counters that State carries (state.rs:55, buffer.rs:6).             *)
CallType ==
  [op : {"none", "add_entry", "write", "flush", "finish_entry", "finish"},
   hdr : Headers \cup {NoHeader}, bufs : Bufs \cup {NoBufs},
   phase : {"body", "align", "flush"}, taken : Nat]

RetType ==
  [op : {"none", "add_entry", "write", "flush", "finish_entry", "finish"},
   res : {"none", "ok", "badheader", "overlap", "ioerror", "writezero",
          "cancelled"}, n : Nat]

StoreTypeOK ==
  /\ GoodState(state)
  /\ data \in Seq(Byte) /\ Len(data) <= Capacity
  /\ pos \in 0 .. Len(data)
  /\ out \in Seq(Byte) /\ shut \in BOOLEAN

ControlTypeOK ==
  /\ call \in CallType /\ poll \in {"idle", "running", "parked", "gone"}
  /\ ret \in RetType /\ panic \in {"none", "state", "debug", "header"}

HandleTypeOK == entry \in Headers \cup {NoHeader} /\ told \in Nat

HistoryTypeOK ==
  /\ cur \in Headers \cup {NoHeader} /\ head \in Headers \cup {NoHeader}
  /\ done \in Seq([hdr : Headers \cup {NoHeader}, head : Headers \cup {NoHeader},
                  base : Int])

TypeOK == StoreTypeOK /\ ControlTypeOK /\ HandleTypeOK /\ HistoryTypeOK

(* What the archive holds, sent or buffered, is the finished entries one   *)
(* after the other, each header, data and zeros, and then exactly the      *)
(* first bytes of the item that State says is being written: whatever the  *)
(* object accepted, failed or held up, no byte is lost, repeated, moved or *)
(* written past its place (poll_write_vectored, write/mod.rs:216).  Only   *)
(* into_inner may drop bytes, from the end (lib.rs:145).                   *)
EndOf(e) == e.base + EntryLen(e.hdr)
Base     == IF done = <<>> THEN 0 ELSE EndOf(done[Len(done)])
Total    == Base + ItemOffset(state, cur)

Holds(i, byte) == i <= Len(Image) => Image[i] = byte

FinishedEntries ==
  \A k \in 1 .. Len(done) :
    /\ done[k].base = IF k = 1 THEN 0 ELSE EndOf(done[k - 1])
    /\ \A i \in 1 .. EntryLen(done[k].hdr) :
         Holds(done[k].base + i, EntryByteUnder(done[k].head, done[k].hdr, i))

OpenByte(i) ==
  IF cur = NoHeader THEN ZeroByte ELSE EntryByteUnder(head, cur, i)

OpenItem == \A i \in 1 .. ItemOffset(state, cur) : Holds(Base + i, OpenByte(i))

ArchiveImage ==
  /\ FinishedEntries /\ OpenItem
  /\ IF poll = "gone" THEN Len(Image) <= Total ELSE Len(Image) = Total

(* The handle a task holds is of the entry that is in the archive, behind  *)
(* its own header (lib.rs:5: "use add_entry to write the header and get    *)
(* back an Entry"): the header is another one only if add_entry refused    *)
(* that one, after it was written, for its size (write/mod.rs:49).         *)
Behind(h, e, under) == h = e /\ (under # e => under.size = BadSize)

HandleIsOfArchive ==
  entry # NoHeader =>
    IF cur # NoHeader THEN Behind(entry, cur, head)
    ELSE Behind(entry, done[Len(done)].hdr, done[Len(done)].head)

(* Between two polls no header and no first block of the end marker is     *)
(* half written: a task that gives up add_entry or finish never leaves one *)
(* for another call to go on with (write/mod.rs:38, 158).  A part that was *)
(* passed through leaves room in the buffer for the rest.                  *)
BlocksAreWhole ==
  poll # "running" /\ panic = "none" /\ state.tag = "ReceivingHeader" =>
    state.rem = BlockSize

(* The lengths a task was told add up to the data that was taken: while    *)
(* data is missing they agree with State, and a task is never told more    *)
(* than the entry's size (poll_write_entry, write/mod.rs:67).              *)
ToldIsTaken ==
  entry # NoHeader =>
    /\ told <= entry.size
    /\ state.tag = "ReceivingData" => told = entry.size - state.rem

(* The checks of the outgoing bytes never fail, on the whole prefix nor on *)
(* any part the object may take of it: the error of write/mod.rs:229, the  *)
(* assertions of lines 231 and 280 and the `expect' of 279 are out of      *)
(* reach, which is why no action stands for them.                          *)
Writes ==
  \/ WritesHeader \/ WritesEnd
  \/ Running("write", "body") /\ state.tag = "ReceivingData"
  \/ Finishing /\ state.tag = "AligningData"

OutgoingIsValid ==
  Writes => \A n \in 0 .. Len(Outgoing) :
              Valid(SubSeq(Outgoing, 1, n), OutgoingHeader)

(* Once finish returned Ok the object has the whole archive: its entries   *)
(* and two empty blocks, with nothing left in the buffer (lib.rs:195).     *)
DoneBytes(k) == EntryBytesUnder(done[k].head, done[k].hdr)

FinishDelivers ==
  shut => out = FlattenSeq([k \in 1 .. Len(done) |-> DoneBytes(k)])
                  \o Zeros(EofLen)

(* When a flush, an Entry::finish or a finish returned Ok the object has   *)
(* all that was written, and keeps it if the Archive is then taken apart;  *)
(* the entry that was finished is sealed (write/mod.rs:287, 320).          *)
FlushDelivers ==
  poll \in {"idle", "gone"} /\ panic = "none" /\ ret.res = "ok" =>
    /\ ret.op \in {"flush", "finish_entry", "finish"} => Len(out) = Total
    /\ ret.op = "finish_entry" => state = ExpectingHeader

(* A task that keeps to the documented use meets a panic in five cases     *)
(* only (write/mod.rs:60, 89, 102, 143, 175).  The object is the cause of  *)
(* three: it holds up a write whose data is taken, which must then not be  *)
(* repeated; it takes a part of a header that begins with zeros; it fails  *)
(* while a write aligns the entry, which panics with debug assertions and  *)
(* without them is dropped, for a finish or a write of nothing to meet.    *)
RepeatsTakenWrite ==
  /\ panic = "state" /\ call.op = "write" /\ state.tag = "AligningData"
  /\ told < entry.size /\ "pending" \in Faults

HeaderIsCut ==
  /\ panic = "state" /\ call.op = "add_entry" /\ state.tag = "ReceivingHeader"
  /\ call.hdr.lead > 0 /\ Vectored

AlignmentFailed ==
  /\ state.tag = "AligningData" /\ Faults \cap {"ioerror", "writezero"} # {}
  /\ \/ panic = "debug" /\ Debug
     \/ panic = "state" /\ ~ Debug
          /\ (call.op = "finish" \/ (call.op = "write" /\ call.bufs.len = 0))

(* The other two need no fault: an entry of no data is finished, or let go *)
(* and the archive finished, without a write of nothing; and a write of    *)
(* nothing to an entry that was stepped over when its data was complete.   *)
EmptyEntryUnwritten ==
  /\ panic = "state" /\ state = ReceivingData(0) /\ cur.size = 0
  /\ call.op \in {"finish_entry", "finish"}

NothingIsWritten ==
  /\ panic = "state" /\ state.tag = "ExpectingHeader"
  /\ call.op = "write" /\ call.bufs.len = 0 /\ told = entry.size

CarefulPanics ==
  Careful =>
    \/ panic = "none"
    \/ RepeatsTakenWrite \/ HeaderIsCut \/ AlignmentFailed
    \/ EmptyEntryUnwritten \/ NothingIsWritten

Busy == poll \in {"running", "parked"}

(* The writer implements the log that ArchiveLog describes: at every step  *)
(* of every call the object has a prefix of the archive that is being      *)
(* written, no more than the buffer behind it, and no byte of it changes   *)
(* afterwards; finish shuts the object down only with all of a complete    *)
(* archive (lib.rs:48, 195; write/mod.rs:181, 216).                        *)
Log == INSTANCE ArchiveLog WITH
         entries <- done,
         open    <- [head |-> head, hdr |-> cur],
         at      <- ItemOffset(state, cur),
         sent    <- out,
         phase   <- IF poll = "gone" THEN "gone"
                    ELSE IF shut THEN "closed" ELSE "open"

ImplementsLog == Log!Spec

(* "We must not return an error or pending" once data was taken            *)
(* (write/mod.rs:256): a write that is pending has taken none of its data. *)
PendingTakesNothing ==
  poll = "parked" /\ call.op = "write" =>
    state = ReceivingData(entry.size - told)

(* "We already wrote some data" (write/mod.rs:257): an object that never   *)
(* answers Ok(0) is never the cause of a write of some bytes returning     *)
(* Ok(0).                                                                  *)
OkZeroMeansNothingOffered ==
  [][ EntryWrite /\ poll' = "idle" /\ ret'.n = 0 => Outgoing = <<>> ]_vars
=============================================================================
