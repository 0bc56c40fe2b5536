---------------------------- MODULE MCStateFeed -----------------------------
(* Small archives for StateFeed: sizes on both sides of a block boundary,  *)
(* an empty entry, a header that begins with zero bytes.                   *)
EXTENDS StateFeed

H(i, n, l) == [id |-> i, size |-> n, lead |-> l, sum |-> "ok"]

MCArchives == { <<>>,
                << H(1, 0, 0), H(2, 1, 1) >>,
                << H(1, 4, 2), H(2, 3, 0) >>,
                << H(1, 5, 0), H(2, 0, 1), H(3, 2, 0) >> }

MCBigEntry == { << H(1, 9, 0) >> }
=============================================================================
