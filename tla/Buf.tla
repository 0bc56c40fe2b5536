--------------------------------- MODULE Buf --------------------------------
(***************************************************************************)
(* The internal buffer (src/shared/buffer.rs): memory with a write pointer *)
(* `cap' and a read pointer `pos', seen as two regions.  buffered() is     *)
(* mem[pos..cap] and commits to `pos', available() is mem[cap..] and       *)
(* commits to `cap'.  ArchiveWriter and ArchiveReader keep mem[..cap] as   *)
(* `data'; SlicedWrites relates the two.                                   *)
(*                                                                         *)
(* The module is pure: it declares operators only.                         *)
(***************************************************************************)
EXTENDS TarState

NewBuf(capacity) == [mem |-> Zeros(capacity), cap |-> 0, pos |-> 0]

(* The pointers are reset, the bytes stay.                                 *)
Clear(buf) == [buf EXCEPT !.cap = 0, !.pos = 0]

(* The bytes of buffered(), and the free space of available().             *)
BufferedBytes(buf) == SubSeq(buf.mem, buf.pos + 1, buf.cap)
Remaining(buf)     == Len(buf.mem) - buf.cap

(* commit of either region.                                                *)
CommitRead(buf, n)    == [buf EXCEPT !.pos = @ + n]
CommitWritten(buf, n) == [buf EXCEPT !.cap = @ + n]

(* available().bytes_mut()[..Len(b)] is overwritten.                       *)
CopyIn(buf, b) ==
  [buf EXCEPT !.mem = SubSeq(@, 1, buf.cap) \o b
                        \o SubSeq(@, buf.cap + Len(b) + 1, Len(@))]

(* Mutant: only a slice that fits as a whole is taken.                     *)
FillWholeOnly(buf, slice) ==
  IF Len(slice) > Remaining(buf) THEN [buf |-> buf, n |-> 0]
  ELSE [buf |-> CommitWritten(CopyIn(buf, slice), Len(slice)), n |-> Len(slice)]

(* fill: as much of the slice as there is space for.                       *)
Fill(buf, slice) ==
  LET n == IF Len(slice) < Remaining(buf) THEN Len(slice) ELSE Remaining(buf)
  IN  [buf |-> CommitWritten(CopyIn(buf, SubSeq(slice, 1, n)), n), n |-> n]

(* fill_from_slices: every slice in turn, the full buffer takes none.      *)
FillNext(acc, slice) ==
  LET filled == Fill(acc.buf, slice)
  IN  [buf |-> filled.buf, n |-> acc.n + filled.n]

Fillings(buf, slices) ==
  LET fillings[i \in 0 .. Len(slices)] ==
        IF i = 0 THEN [buf |-> buf, n |-> 0]
        ELSE FillNext(fillings[i - 1], slices[i])
  IN  fillings

FillFromSlices(buf, slices) == Fillings(buf, slices)[Len(slices)]
=============================================================================
