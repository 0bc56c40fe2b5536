--------------------------- MODULE MCArchiveWriter --------------------------
(* Small instances of ArchiveWriter, blocks of two bytes: an empty entry,  *)
(* sizes on and off a block boundary, headers that begin with a zero byte, *)
(* that do not parse or are not finalised.                                 *)
EXTENDS SlicedWrites

H(i, n, l, s) == [id |-> i, size |-> n, lead |-> l, sum |-> s]

(* What a careful task adds.                                               *)
GoodHeaders == { H(1, 0, 0, "ok"), H(2, 3, 0, "ok"), H(3, 4, 1, "ok") }

(* What any task may add.                                                  *)
AnyHeaders == { H(1, 5, 0, "ok"), H(2, 0, 1, "ok"), H(3, BadSize, 0, "ok"),
                H(4, 1, 0, "bad"), H(5, 1, 2, "zero") }

(* Writes of nothing, of one slice and of two.                             *)
SomeBufs == { [len |-> 0, ends |-> {0}],
              [len |-> 1, ends |-> {1}],
              [len |-> 2, ends |-> {2}],
              [len |-> 3, ends |-> {3}],
              [len |-> 4, ends |-> {2, 4}],
              [len |-> 6, ends |-> {1, 6}] }
=============================================================================
