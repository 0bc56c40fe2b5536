------------------------------ MODULE TarState ------------------------------
(***************************************************************************)
(* The state machine of src/shared/state.rs: a value that represents a     *)
(* point of a TAR byte stream and is driven by the bytes that follow it.   *)
(* Both halves of the crate use it: the writer to validate what it is      *)
(* asked to write, the reader to find the boundaries of what it received.  *)
(*                                                                         *)
(* The module is pure: it declares constants and operators, no variables.  *)
(* A byte is a triple <<source, entry id, offset>>, so that a property can *)
(* tell every byte of every header and every entry from all others.  The   *)
(* code tells only zero bytes from the rest, and ZeroByte is one value.    *)
(***************************************************************************)
EXTENDS Integers, Sequences

CONSTANTS
  BlockSize,  \* BLOCK_SIZE: 512 in the code
  UsizeMod    \* 2^w for a usize of w bits

ASSUME BlockSizeAssumption == BlockSize \in Nat \ {0}
ASSUME UsizeAssumption     == UsizeMod \in Nat /\ BlockSize < UsizeMod

-----------------------------------------------------------------------------
(* Headers.  What the code asks of a tar::Header:                          *)
(*   id    tells it from the other headers of the archive;                 *)
(*   size  entry_size(), or BadSize when the field does not parse;         *)
(*   lead  how many of its bytes are zero before the first non-zero one;   *)
(*   sum   cksum(): "ok", "bad" (does not parse) or "zero" (not finalised).*)

BadSize  == -1
NoHeader == [id |-> 0, size |-> 0, lead |-> 0, sum |-> "ok"]

HeaderType ==
  [id : Nat \ {0}, size : Nat \cup {BadSize}, lead : 0 .. BlockSize,
   sum : {"ok", "bad", "zero"}]

ZeroByte       == <<"zero", 0, 0>>
DataByte(h, i) == <<"data", h.id, i>>
HeaderByte(h, i) == IF i <= h.lead THEN ZeroByte ELSE <<"hdr", h.id, i>>

Byte == {"zero", "data", "hdr"} \X Nat \X Nat

Zeros(n)       == [i \in 1 .. n |-> ZeroByte]
HeaderBytes(h) == [i \in 1 .. BlockSize |-> HeaderByte(h, i)]

AllZero(b) == \A i \in 1 .. Len(b) : b[i] = ZeroByte

(* The bytes from the end of an entry's data to the next block boundary.   *)
Align(size) ==
  IF size % BlockSize = 0 THEN 0 ELSE BlockSize - (size % BlockSize)

-----------------------------------------------------------------------------
(* State: the variants of the enum, with their fields.                     *)

St(tag, rem, empty) == [tag |-> tag, rem |-> rem, empty |-> empty]

ExpectingHeader          == St("ExpectingHeader", 0, FALSE)
ReceivingHeader(rem, e)  == St("ReceivingHeader", rem, e)
ReceivedHeader           == St("ReceivedHeader", 0, FALSE)
ReceivingData(rem)       == St("ReceivingData", rem, FALSE)
ReceivedData             == St("ReceivedData", 0, FALSE)
AligningData(rem)        == St("AligningData", rem, FALSE)
AlignedData              == St("AlignedData", 0, FALSE)
ReceivingEof(rem)        == St("ReceivingEof", rem, FALSE)
ReceivedEof              == St("ReceivedEof", 0, FALSE)

Tags == {"ExpectingHeader", "ReceivingHeader", "ReceivedHeader",
         "ReceivingData", "ReceivedData", "AligningData", "AlignedData",
         "ReceivingEof", "ReceivedEof"}
StateType == [tag : Tags, rem : Nat, empty : BOOLEAN]

-----------------------------------------------------------------------------
(* One transition: State::next.  `b' is the buffer, `hdr' the entry header *)
(* or NoHeader.  The result is the new state, the bytes consumed and an    *)
(* error, "panic" standing for an assertion that fails.                    *)

Errors == {"none", "panic", "BadSize", "ExpectingEmptyBlock", "Eof"}

Result(s, n) == [state |-> s, n |-> n, err |-> "none"]
Failure(s, e) == [state |-> s, n |-> 0, err |-> e]

Advance(b, max) == IF max < Len(b) THEN max ELSE Len(b)
Fronted(b, n)   == SubSeq(b, 1, n)

(* `rem as usize' of a u64 keeps the low bits only.                        *)
AsUsize(x) == IF x < UsizeMod THEN x ELSE x % UsizeMod

(* Mutant: an empty block is reported as a header.                         *)
EmptyBlockIsHeader(s, b) ==
  LET n == Advance(b, s.rem)
  IN  IF n < s.rem THEN Result(ReceivingHeader(s.rem - n, FALSE), n)
      ELSE Result(ReceivedHeader, n)

NextReceivingHeader(s, b) ==
  LET n     == Advance(b, s.rem)
      empty == s.empty /\ AllZero(Fronted(b, n))
  IN  IF n < s.rem THEN Result(ReceivingHeader(s.rem - n, empty), n)
      ELSE IF empty THEN Result(ReceivingEof(BlockSize), n)
      ELSE Result(ReceivedHeader, n)

(* Mutants: the counter is not reduced; an empty entry is never complete.  *)
DataNotCounted(s, b) ==
  LET n == Advance(b, AsUsize(s.rem))
  IN  IF n < s.rem THEN Result(s, n) ELSE Result(ReceivedData, n)

EmptyDataWaits(s, b) ==
  LET n == Advance(b, AsUsize(s.rem))
  IN  IF n < s.rem \/ n = 0 THEN Result(ReceivingData(s.rem - n), n)
      ELSE Result(ReceivedData, n)

NextReceivingData(s, b) ==
  LET n == Advance(b, AsUsize(s.rem))
  IN  IF n < s.rem THEN Result(ReceivingData(s.rem - n), n)
      ELSE Result(ReceivedData, n)

(* Mutant: an entry that ends on a block boundary is never aligned.        *)
NoPaddingWaits(s, b) ==
  LET n == Advance(b, s.rem)
  IN  IF n < s.rem \/ n = 0 THEN Result(AligningData(s.rem - n), n)
      ELSE Result(AlignedData, n)

NextAligningData(s, b) ==
  LET n == Advance(b, s.rem)
  IN  IF n < s.rem THEN Result(AligningData(s.rem - n), n)
      ELSE Result(AlignedData, n)

(* Mutant: the second block of the end marker is not looked at.            *)
EofNotChecked(s, b) ==
  LET n == Advance(b, s.rem)
  IN  IF n < s.rem THEN Result(ReceivingEof(s.rem - n), n)
      ELSE Result(ReceivedEof, n)

NextReceivingEof(s, b) ==
  LET n == Advance(b, s.rem)
  IN  IF ~ AllZero(Fronted(b, n)) THEN Failure(s, "ExpectingEmptyBlock")
      ELSE IF n < s.rem THEN Result(ReceivingEof(s.rem - n), n)
      ELSE Result(ReceivedEof, n)

(* The markers after a header and after its data need the header's size.   *)
NextOfEntry(s, hdr, next) ==
  IF hdr = NoHeader THEN Failure(s, "panic")
  ELSE IF hdr.size = BadSize THEN Failure(s, "BadSize")
  ELSE Result(next, 0)

TarNext(s, b, hdr) ==
  CASE s.tag = "ExpectingHeader" -> Result(ReceivingHeader(BlockSize, TRUE), 0)
    [] s.tag = "ReceivingHeader" -> NextReceivingHeader(s, b)
    [] s.tag = "ReceivedHeader"  -> NextOfEntry(s, hdr, ReceivingData(hdr.size))
    [] s.tag = "ReceivingData"   -> NextReceivingData(s, b)
    [] s.tag = "ReceivedData"    -> NextOfEntry(s, hdr, AligningData(Align(hdr.size)))
    [] s.tag = "AligningData"    -> NextAligningData(s, b)
    [] s.tag = "AlignedData"     -> Result(ExpectingHeader, 0)
    [] s.tag = "ReceivingEof"    -> NextReceivingEof(s, b)
    [] s.tag = "ReceivedEof"     -> Failure(s, "Eof")

-----------------------------------------------------------------------------
(* State::take_until with the stop states of take_slices; `err' is "more"  *)
(* while its loop goes on.  From any state a stop state is at most eight   *)
(* transitions away and a transition that stays in its state exhausts the  *)
(* buffer, so eight rounds are enough: "more" after them is a loop that    *)
(* does not end.                                                           *)

Stop  == {ReceivedHeader, ReceivedEof}
Taken == [state : StateType, n : Nat, err : Errors \cup {"more"}]

TakeStart(s) == [state |-> s, n |-> 0, err |-> "more"]

(* What a transition `r' that began after n bytes of `b' leaves.           *)
TakenAfter(n, b, r) ==
  LET more == r.err = "none" /\ r.state \notin Stop /\ n + r.n < Len(b)
  IN  [state |-> r.state, n |-> n + r.n, err |-> IF more THEN "more" ELSE r.err]

TakeStep(b, hdr) ==
  [acc \in Taken |->
     IF acc.err # "more" THEN acc
     ELSE TakenAfter(acc.n, b,
                     TarNext(acc.state, SubSeq(b, acc.n + 1, Len(b)), hdr))]

TakeUntil(s, b, hdr) ==
  LET step == TakeStep(b, hdr)
  IN  step[step[step[step[step[step[step[step[TakeStart(s)]]]]]]]]

(* State::take_slices depends on the concatenation of the slices only      *)
(* (StateFeed checks it, StateFeedProofs proves it), so `b' is that.       *)
TakeSlices(s, b, hdr) == TakeUntil(s, b, hdr)

(* The values of State that the machine takes: no counter is beyond its    *)
(* block, and none is left in a marker.                                    *)
GoodState(s) ==
  /\ s \in StateType
  /\ s.tag \in {"ReceivingHeader", "ReceivingEof"} => s.rem \in 1 .. BlockSize
  /\ s.tag = "AligningData" => s.rem < BlockSize
  /\ s.tag \in {"ExpectingHeader", "ReceivedHeader", "ReceivedData",
                "AlignedData", "ReceivedEof"} => s.rem = 0
  /\ s.empty => s.tag = "ReceivingHeader"
=============================================================================
