---------------------------- MODULE SlicedWrites ----------------------------
(***************************************************************************)
(* poll_write_vectored (src/write/mod.rs:216) on the arrays of slices and  *)
(* the Buf that the code has.  ArchiveWriter knows of an offer its bytes,  *)
(* where its slices end, and of Buf the bytes written into it: here the    *)
(* same write is computed from the slices and the pointers, and compared.  *)
(***************************************************************************)
EXTENDS ArchiveWriter, Slices, Buf

(* The array of the running step: the slices the task passes to a write,   *)
(* or the one slice of poll_write_data.  Cuts is where those slices end.   *)
Cuts(bufs) ==
  LET cuts[n \in 0 .. Cardinality(bufs.ends \ {0})] ==
        IF n = 0 THEN 0
        ELSE CHOOSE e \in bufs.ends :
               /\ e > cuts[n - 1]
               /\ \A f \in bufs.ends : f > cuts[n - 1] => e <= f
  IN  cuts

SlicesOffered(bufs) ==
  [n \in 1 .. Cardinality(bufs.ends \ {0}) |->
     DataFrom(entry, told + Cuts(bufs)[n - 1], Cuts(bufs)[n] - Cuts(bufs)[n - 1])]

Offered == IF Running("write", "body") THEN SlicesOffered(call.bufs)
           ELSE <<Outgoing>>
Limit   == IF Running("write", "body") THEN AsUsize(state.rem)
           ELSE Len(Outgoing)

OfferedPrefix == TakePrefix(Offered, Limit)
SlicesLen(p)  == BytesLen(PrefixBuffers(p)) - Len(p.remainder)

(* The object takes n of the slices of a Prefix passed through; when that  *)
(* is all of them, the remainder is written too, and a write that is not   *)
(* Ok counts for nothing.                                                  *)
MayTake(len) ==
  IF len = 0 THEN {0}
  ELSE 1 .. len \cup (IF "writezero" \in Faults THEN {0} ELSE {})

PassedThrough(p) ==
  {n \in MayTake(SlicesLen(p)) : n < SlicesLen(p)} \cup
  {SlicesLen(p) + w : w \in MayTake(Len(p.remainder))
                              \cup (IF Faults = {} THEN {} ELSE {0})}

(* Archive.buf: what clear() leaves in the memory is there for good.       *)
OldByte == <<"data", 0, 0>>
TheBuf  == [NewBuf(Capacity) EXCEPT
              !.mem = data \o [i \in 1 .. Capacity - Len(data) |-> OldByte],
              !.cap = Len(data), !.pos = pos]

FilledBuf(p) ==
  FillFromSlices(IF NeedsFlush(Outgoing) THEN Clear(TheBuf) ELSE TheBuf,
                 PrefixBuffers(p))

-----------------------------------------------------------------------------
(* What a write takes does not depend on how it was cut into slices but    *)
(* for what may be passed through: the prefix has the bytes of the offer   *)
(* that the entry still lacks, and any part of it that the object took is  *)
(* its own first bytes (write/mod.rs:223, 251, 274).                       *)
PrefixAgrees(p) ==
  /\ Concat(PrefixBuffers(p)) = Outgoing
  /\ BytesLen(PrefixBuffers(p)) = Len(Outgoing)
  /\ Direct(Outgoing) => Counts(Outgoing, SlicesLen(p)) = PassedThrough(p)
  /\ Running("write", "body") => SlicesLen(p) = Whole(call.bufs)
  /\ \A n \in 0 .. Len(Outgoing) :
       Concat(PrefixBuffers(TakePrefixOf(p, n))) = SubSeq(Outgoing, 1, n)

(* The buffer takes the first bytes of the slices across their ends, as    *)
(* many as there is space for after the flush, behind what it has, and     *)
(* nothing that a clear left in its memory is sent (write/mod.rs:241, 267).*)
BufferAgrees(p) ==
  /\ BufferedBytes(TheBuf) = Unsent
  /\ \A k \in 0 .. Len(Unsent) :
       BufferedBytes(CommitRead(TheBuf, k)) = SubSeq(Unsent, k + 1, Len(Unsent))
  /\ NeedsFlush(Outgoing) = (Direct(Outgoing) \/ Len(Outgoing) > Remaining(TheBuf))
  /\ ~ Direct(Outgoing) =>
       \E f \in {FilledBuf(p)} :
         /\ Counts(Outgoing, SlicesLen(p)) = {f.n}
         /\ BufferedBytes(f.buf) =
              (IF NeedsFlush(Outgoing) THEN <<>> ELSE Unsent)
                 \o SubSeq(Outgoing, 1, f.n)

(* The two together, for every write of every call.                        *)
SlicesAreWritten ==
  Writes => \E p \in {OfferedPrefix} : PrefixAgrees(p) /\ BufferAgrees(p)
=============================================================================
