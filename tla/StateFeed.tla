----------------------------- MODULE StateFeed ------------------------------
(***************************************************************************)
(* A State fed with an archive by a caller of State::take_slices that      *)
(* passes chunks of arbitrary sizes: the header is known to the caller     *)
(* from the moment the state machine reports ReceivedHeader.               *)
(***************************************************************************)
EXTENDS ArchiveFormat, Slices

CONSTANTS
  Archives,   \* the archives fed: sequences of headers
  MaxChunk    \* bound on the bytes of one chunk

(* The headers' sizes parse, and none looks like an empty block.           *)
ASSUME ArchivesAssumption ==
  /\ Archives \subseteq Seq(HeaderType)
  /\ \A a \in Archives : \A i \in 1 .. Len(a) :
       a[i].size # BadSize /\ a[i].lead < BlockSize
ASSUME MaxChunkAssumption == MaxChunk \in Nat

VARIABLES
  arch,       \* the headers of the archive being fed
  damaged,    \* whether the second block of the end marker is not empty
  state,      \* the State
  off,        \* bytes consumed so far
  cur,        \* headers reported so far
  err         \* the error that stopped the feed, "none" before

vars == <<arch, damaged, state, off, cur, err>>

Garbage == <<"data", 0, 0>>

Streams ==
  [a \in Archives |-> [d \in BOOLEAN |->
     LET whole == ArchiveBytes(a)
     IN  IF d THEN [whole EXCEPT ![Len(whole)] = Garbage] ELSE whole]]

Stream == Streams[arch][damaged]

CurrentHeader == IF cur = 0 THEN NoHeader ELSE arch[cur]

Chunk(k) == SubSeq(Stream, off + 1, off + k)
Chunks   == {k \in 0 .. MaxChunk : off + k <= Len(Stream)}

(* Mutant: a header in a slice does not stop the loop over the slices.     *)
SliceOn(acc, r) ==
  [state |-> r.state, n |-> acc.n + r.n, err |-> r.err, none |-> FALSE,
   stop |-> r.err # "none"]

(* State::take_slices as it is written: the empty slices are skipped, the  *)
(* others go to take_until in order until a stop state or an error, and    *)
(* take_until runs on an empty buffer when no slice had any byte.          *)
Slice(acc, r) ==
  [state |-> r.state, n |-> acc.n + r.n, err |-> r.err, none |-> FALSE,
   stop |-> r.err # "none" \/ r.state \in Stop]

BeforeSlices(s) == [state |-> s, n |-> 0, err |-> "none", none |-> TRUE, stop |-> FALSE]

AfterSlice(acc, b, hdr) ==
  IF b = <<>> \/ acc.stop THEN acc ELSE Slice(acc, TakeUntil(acc.state, b, hdr))

AfterSlices(s, slices, hdr) ==
  LET after[i \in 0 .. Len(slices)] ==
        IF i = 0 THEN BeforeSlices(s) ELSE AfterSlice(after[i - 1], slices[i], hdr)
  IN  after

AtLeastOnce(fed, s, hdr) == IF fed.none THEN TakeUntil(s, <<>>, hdr) ELSE fed

TakeSlicesInOrder(s, slices, hdr) ==
  AtLeastOnce(AfterSlices(s, slices, hdr)[Len(slices)], s, hdr)

-----------------------------------------------------------------------------
Init ==
  /\ arch \in Archives
  /\ damaged \in BOOLEAN
  /\ state = ExpectingHeader
  /\ off = 0
  /\ cur = 0
  /\ err = "none"

Take(r) ==
  \/ /\ r.err = "none"
     /\ state' = r.state
     /\ off' = off + r.n
     /\ cur' = IF r.state = ReceivedHeader THEN cur + 1 ELSE cur
     /\ UNCHANGED err
  \/ /\ r.err # "none"
     /\ err' = r.err
     /\ UNCHANGED <<state, off, cur>>

(* Feed the next k bytes; the machine may stop early, at a header or Eof.  *)
Feed(k) ==
  /\ err = "none"
  /\ Take(TakeSlicesInOrder(state, <<Chunk(k)>>, CurrentHeader))
  /\ UNCHANGED <<arch, damaged>>

Next == \E k \in Chunks : Feed(k)

(* The caller goes on feeding what is left, at least a byte at a time.     *)
FeedSome == \E k \in Chunks \ {0} : Feed(k)

Spec     == Init /\ [][Next]_vars
FairSpec == Spec /\ WF_vars(FeedSome)

-----------------------------------------------------------------------------
TypeOK ==
  /\ arch \in Archives
  /\ state \in StateType
  /\ off \in 0 .. Len(Stream)
  /\ cur \in 0 .. Len(arch)
  /\ err \in {"none", "ExpectingEmptyBlock", "Eof"}

(* Whatever the chunks were, the state stands exactly at the offset that   *)
(* was consumed: the headers reported are those of the entries begun, in   *)
(* order, none is stepped over (state.rs, next and take_until).            *)
StateTracksOffset ==
  LET begun == IF InEntry(state) THEN cur - 1 ELSE cur
  IN  off = Len(EntriesBytes(SubSeq(arch, 1, begun)))
              + ItemOffset(state, CurrentHeader)

(* A damaged end marker is refused and an intact archive is never refused  *)
(* before its end: only Eof can be reported on it, once it has all been    *)
(* consumed (the ReceivingEof and ReceivedEof arms of next).               *)
OnlyDamageIsRefused ==
  /\ err = "ExpectingEmptyBlock" => damaged
  /\ err = "Eof" => ~ damaged /\ off = Len(Stream)

Cut(k, i, j) == SubSeq(Chunk(k), i, j)

Same(whole, cut) ==
  /\ whole.err = cut.err
  /\ whole.err = "none" => whole.state = cut.state /\ whole.n = cut.n

(* The bytes of a chunk may be cut into slices anywhere, empty slices      *)
(* included, without changing the state reached, the bytes consumed or the *)
(* error: take_slices depends on their concatenation only.                 *)
SlicesDoNotMatter ==
  err = "none" =>
    \A k \in Chunks : \A i \in 0 .. k : \A j \in i .. k :
      Same(TakeSlices(state, Chunk(k), CurrentHeader),
           TakeSlicesInOrder(state,
             << Cut(k, 1, i), Cut(k, i + 1, j), Cut(k, j + 1, k) >>,
             CurrentHeader))

(* A split of slices at any byte is exact: the prefix has the bytes before *)
(* it and the suffix the others, whatever slices are empty, cut or ended   *)
(* there, and so have the iterators.  A prefix is split as well, but for   *)
(* the suffix of a split before its remainder, which lacks the remainder   *)
(* (slices.rs:25, 74, 117, 276, 306).                                      *)
SplitsAt(slices, m, s) ==
  /\ Concat(PrefixBuffers(s.prefix)) = SubSeq(Concat(slices), 1, m)
  /\ Concat(SuffixBuffers(s.suffix)) = From(Concat(slices), m)
  /\ Concat(TakeBytesLen(slices, m)) = SubSeq(Concat(slices), 1, m)
  /\ Concat(SkipBytesLen(slices, m)) = From(Concat(slices), m)

SplitsAgainAt(p, n, s) ==
  /\ Concat(PrefixBuffers(s.prefix)) = SubSeq(Concat(PrefixBuffers(p)), 1, n)
  /\ Concat(SuffixBuffers(s.suffix)) =
       From(Concat(IF n < TotalLen(p.slices) THEN p.slices ELSE PrefixBuffers(p)), n)

SplitIsExact ==
  off = 0 =>
    \A k \in Chunks : \A i \in 0 .. k : \A j \in i .. k : \A m \in 0 .. k :
      \E slices \in {<< Cut(k, 1, i), Cut(k, i + 1, j), Cut(k, j + 1, k) >>} :
        \E s \in {SplitArray(slices, m)} :
          /\ SplitsAt(slices, m, s)
          /\ \A n \in 0 .. m : SplitsAgainAt(s.prefix, n, SplitPrefix(s.prefix, n))

(* "Call next at least once to ensure forward progress" (state.rs:151):    *)
(* the loop of take_until ends on every input.                             *)
ForwardProgress ==
  err = "none" =>
    \A k \in Chunks : TakeUntil(state, Chunk(k), CurrentHeader).err # "more"

(* A caller that goes on feeding bytes gets to the end of the archive, or  *)
(* to the damage in its end marker: no state swallows its input.           *)
FeedReachesEnd == <>(state = ReceivedEof \/ err = "ExpectingEmptyBlock")
=============================================================================
