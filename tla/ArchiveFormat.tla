--------------------------- MODULE ArchiveFormat ----------------------------
(***************************************************************************)
(* The byte layout of an archive, as src/shared/test.rs builds it for the  *)
(* tests of the crate, and where in that layout each State stands.  This   *)
(* is the reference the state machine, the writer and the reader are       *)
(* compared with: none of it is used by their actions.                     *)
(***************************************************************************)
EXTENDS TarState

EntryLen(h) == BlockSize + h.size + Align(h.size)

EntryByte(h, i) ==
  IF i <= BlockSize THEN HeaderByte(h, i)
  ELSE IF i <= BlockSize + h.size THEN DataByte(h, i - BlockSize)
  ELSE ZeroByte

EntryBytes(h) == [i \in 1 .. EntryLen(h) |-> EntryByte(h, i)]

(* The entry `h' behind the header block of `head', which is not its own   *)
(* when add_entry failed on `head' after it was written.                   *)
EntryByteUnder(head, h, i) ==
  IF i <= BlockSize THEN HeaderByte(head, i) ELSE EntryByte(h, i)

EntryBytesUnder(head, h) ==
  [i \in 1 .. EntryLen(h) |-> EntryByteUnder(head, h, i)]

EofLen == 2 * BlockSize

(* The entries of the headers `hs', one after the other, without the end:  *)
(* Laid(hs)[k] is the first k of them.                                     *)
Laid(hs) ==
  LET laid[k \in 0 .. Len(hs)] ==
        IF k = 0 THEN <<>> ELSE laid[k - 1] \o EntryBytes(hs[k])
  IN  laid

EntriesBytes(hs) == Laid(hs)[Len(hs)]
ArchiveBytes(hs) == EntriesBytes(hs) \o Zeros(EofLen)

-----------------------------------------------------------------------------
(* An archive is a sequence of items: its entries, then the end marker.    *)
(* ItemOffset is how far into its item a State stands, `h' being the       *)
(* header of the entry for the states inside an entry.                     *)

InEntry(s) == s.tag \in {"ReceivedHeader", "ReceivingData", "ReceivedData",
                         "AligningData", "AlignedData"}

ItemOffset(s, h) ==
  CASE s.tag = "ExpectingHeader" -> 0
    [] s.tag = "ReceivingHeader" -> BlockSize - s.rem
    [] s.tag = "ReceivedHeader"  -> BlockSize
    [] s.tag = "ReceivingData"   -> BlockSize + h.size - s.rem
    [] s.tag = "ReceivedData"    -> BlockSize + h.size
    [] s.tag = "AligningData"    -> EntryLen(h) - s.rem
    [] s.tag = "AlignedData"     -> EntryLen(h)
    [] s.tag = "ReceivingEof"    -> EofLen - s.rem
    [] s.tag = "ReceivedEof"     -> EofLen
=============================================================================
