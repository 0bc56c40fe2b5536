------------------------------- MODULE Slices -------------------------------
(***************************************************************************)
(* Arrays of IoSlice without copying (src/shared/slices.rs): how an array  *)
(* is split at a byte offset into a Prefix and a Suffix, and how a Prefix  *)
(* is split again.  A slice is a sequence of bytes, an array of slices a   *)
(* sequence of them; what a pointer into the array stands for is its bytes.*)
(*                                                                         *)
(* The module is pure: it declares operators only.                         *)
(***************************************************************************)
EXTENDS TarState
LOCAL INSTANCE SequencesExt

(* Where each of the buffers ends: the bytes of the first i of them.       *)
Ends(bufs) ==
  LET ends[i \in 0 .. Len(bufs)] ==
        IF i = 0 THEN 0 ELSE ends[i - 1] + Len(bufs[i])
  IN  ends

TotalLen(bufs) == Ends(bufs)[Len(bufs)]

(* bytes_len: a saturating sum.                                            *)
BytesLen(bufs) ==
  IF TotalLen(bufs) < UsizeMod THEN TotalLen(bufs) ELSE UsizeMod - 1

(* The bytes a consumer of the buffers sees.                               *)
Concat(bufs) == FlattenSeq(bufs)

(* Prefix and Suffix: whole slices, with the remainder of the slice the    *)
(* split goes through after those of a Prefix and before those of a Suffix.*)
Parts(slices, remainder) == [slices |-> slices, remainder |-> remainder]
NoParts                  == Parts(<<>>, <<>>)

PrefixBuffers(p) == Append(p.slices, p.remainder)
SuffixBuffers(s) == <<s.remainder>> \o s.slices

From(b, n) == SubSeq(b, n + 1, Len(b))

(* Mutant: the slice that is cut stays in the suffix.                      *)
CutSliceStays(slices, index, offset) ==
  LET front == SubSeq(slices, 1, index)
  IN  IF offset = 0
      THEN [prefix |-> Parts(front, <<>>),
            suffix |-> Parts(From(slices, index), <<>>)]
      ELSE [prefix |-> Parts(front, SubSeq(slices[index + 1], 1, offset)),
            suffix |-> Parts(From(slices, index),
                             From(slices[index + 1], offset))]

(* Slices::split_at_index.  `index' counts from zero.                      *)
SplitArrayAtIndex(slices, index, offset) ==
  LET front == SubSeq(slices, 1, index)
  IN  IF offset = 0
      THEN [prefix |-> Parts(front, <<>>),
            suffix |-> Parts(From(slices, index), <<>>)]
      ELSE [prefix |-> Parts(front, SubSeq(slices[index + 1], 1, offset)),
            suffix |-> Parts(From(slices, index + 1),
                             From(slices[index + 1], offset))]

(* A split before the remainder of a Prefix leaves it out of the Suffix.   *)
SplitPrefixAtIndex(p, index, offset) ==
  IF index = Len(p.slices)
  THEN [prefix |-> Parts(p.slices, SubSeq(p.remainder, 1, offset)),
        suffix |-> Parts(<<>>, From(p.remainder, offset))]
  ELSE SplitArrayAtIndex(p.slices, index, offset)

(* Mutant: a slice that ends at the split is cut, after its last byte.     *)
GoesPast(bufs, offset) == {i \in 1 .. Len(bufs) : Ends(bufs)[i] >= offset}

(* The slices that a split at the byte `offset' leaves behind or cuts: the *)
(* first of them is the one it cuts.  The loop counts the offset down and  *)
(* needs no sum that could be too long for a usize.                        *)
Beyond(bufs, offset) == {i \in 1 .. Len(bufs) : Ends(bufs)[i] > offset}

(* The slice that a split at the byte `offset' cuts, and where in it.      *)
SplitPoint(bufs, offset) ==
  LET first == CHOOSE i \in Beyond(bufs, offset) :
                 \A j \in Beyond(bufs, offset) : i <= j
  IN  [index |-> first - 1,
       offset |-> offset - Ends(bufs)[first - 1]]

(* Slices::split_at_byte_offset of an array and of a Prefix: an offset     *)
(* that goes beyond it splits nothing off (as_prefix).                     *)
SplitArray(slices, offset) ==
  IF Beyond(slices, offset) = {}
  THEN [prefix |-> Parts(slices, <<>>), suffix |-> NoParts]
  ELSE LET at == SplitPoint(slices, offset)
       IN  SplitArrayAtIndex(slices, at.index, at.offset)

SplitPrefix(p, offset) ==
  IF Beyond(PrefixBuffers(p), offset) = {}
  THEN [prefix |-> p, suffix |-> NoParts]
  ELSE LET at == SplitPoint(PrefixBuffers(p), offset)
       IN  SplitPrefixAtIndex(p, at.index, at.offset)

(* Slices::take_prefix of an array and of a Prefix.                        *)
TakePrefix(slices, len)    == SplitArray(slices, len).prefix
TakePrefixOf(p, len)       == SplitPrefix(p, len).prefix

(* The iterators TakeBytesLen and SkipBytesLen, as the buffers they yield: *)
(* `left' is the counter and `passed' that nothing is left to skip.        *)
TakeNext(acc, b) ==
  IF acc.left = 0 THEN acc
  ELSE IF acc.left >= Len(b)
  THEN [left |-> acc.left - Len(b), yields |-> Append(acc.yields, b)]
  ELSE [left |-> 0, yields |-> Append(acc.yields, SubSeq(b, 1, acc.left))]

SkipNext(acc, b) ==
  IF acc.passed THEN [acc EXCEPT !.yields = Append(@, b)]
  ELSE IF acc.left >= Len(b) THEN [acc EXCEPT !.left = @ - Len(b)]
  ELSE [left |-> 0, passed |-> TRUE, yields |-> <<From(b, acc.left)>>]

Took(bufs, n) ==
  LET took[i \in 0 .. Len(bufs)] ==
        IF i = 0 THEN [left |-> n, yields |-> <<>>]
        ELSE TakeNext(took[i - 1], bufs[i])
  IN  took

Skipped(bufs, n) ==
  LET skipped[i \in 0 .. Len(bufs)] ==
        IF i = 0 THEN [left |-> n, passed |-> n = 0, yields |-> <<>>]
        ELSE SkipNext(skipped[i - 1], bufs[i])
  IN  skipped

TakeBytesLen(bufs, n) == Took(bufs, n)[Len(bufs)].yields
SkipBytesLen(bufs, n) == Skipped(bufs, n)[Len(bufs)].yields
=============================================================================
