--------------------------- MODULE MCArchiveReader --------------------------
(* Instances of ArchiveReader for TLC.                                     *)
EXTENDS ArchiveReader

Hd(id, size, lead, sum) == [id |-> id, size |-> size, lead |-> lead, sum |-> sum]

(* Blocks of three bytes: an empty entry, one within a block, one on a     *)
(* boundary, one beyond it; headers that begin with zero bytes.            *)
MCArchives ==
  {<<Hd(1, 4, 0, "ok")>>, <<Hd(1, 3, 1, "ok"), Hd(2, 1, 0, "ok")>>,
   <<Hd(1, 0, 2, "ok")>>, <<>>}

(* Headers that are not right: a checksum, a size.                         *)
MCBadArchives ==
  {<<Hd(1, 1, 0, "ok"), Hd(2, 0, 0, "bad")>>, <<Hd(1, 0, 0, "zero")>>,
   <<Hd(1, BadSize, 1, "ok")>>}

MCAllArchives == MCArchives \cup MCBadArchives

(* One of each kind for the careful task.                                  *)
MCFewArchives ==
  {<<Hd(1, 4, 1, "ok")>>, <<Hd(1, 0, 0, "ok"), Hd(2, 1, 0, "ok")>>,
   <<Hd(1, BadSize, 1, "ok")>>}

(* The end, the end with a byte after it, an end that is damaged.          *)
MCWholeEnds == {Zeros(6), Zeros(7)}
MCOneEnd == {Zeros(6)}
MCEnds == MCWholeEnds \cup {Zeros(4) \o <<<<"data", 9, 1>>, ZeroByte>>}
=============================================================================
