# Formal models of tario

tario reads and writes TAR archives over tokio's `AsyncRead` and `AsyncWrite`.
This directory holds TLA+ modules translated from its source, TLC
configurations that check them on small instances, and theorems that TLAPS
proves for every value of the constants. Paths are relative to the repository.

## 1. Inventory

| Component | Source | State it keeps | Operations | Interacts with |
|---|---|---|---|---|
| State machine | `src/shared/state.rs` | `State`: a tag and a counter or flag | `next`, `take_until`, `take_slices`, `take_marker` | driven by writer and reader, asks the header for its size |
| Writer | `src/write/mod.rs` | `Archive { buf, state, io }` | `poll_write_header`, `poll_write_entry`, `poll_finish_entry`, `poll_finish`, `poll_flush`, `poll_write_vectored` | `io: AsyncWrite`, the polling task |
| Reader | `src/read/mod.rs` | the same `Archive` | `poll_next_entry`, `poll_read_entry`, `poll_skip_entry`, `poll_fill_buf`, `consume` | `io: AsyncRead`, the polling task |
| Stream of entries | `src/read/mod.rs:322` | `Entries(&mut Archive)` | `poll_next` | yields handles that outlive the poll |
| Handles | `src/lib.rs` | `Entry { archive, header }` | `add_entry`, `next_entry`, `entries`, `finish`, `skip`, `into_inner`, drop | an `Entry` borrows its `Archive` |
| Buffer | `src/shared/buffer.rs` | `buf`, `cap`, `pos` | `buffered`, `available`, `commit`, `fill`, `clear` | writer and reader |
| Slices | `src/shared/slices.rs` | none | `take_prefix`, `split_at_byte_offset`, `split_at_index`, `TakeBytesLen`, `SkipBytesLen` | writer |
| Blocks | `src/shared/block.rs` | none | casts, `as_header` with its checksum | reader, writer |
| Errors | `src/*/error.rs` | none | conversions and texts | all |

Everything runs in one task: an `Entry` borrows its `Archive` mutably, so the
only actors are the task, the io object and the executor. What is hard is the
poll protocol. A poll may return `Pending` in the middle of a loop and the task
may repeat it, drop it, or call something else; the object may take a part of
what it is offered, take nothing, fail, or do so on the second of two writes of
one poll; all the progress lives in `State` and the two pointers of `Buf`.

What makes each component correct:

* *State machine*: whatever the chunks, the state stands at the offset consumed;
  headers are reported in order; only a damaged end is refused; the loop ends.
* *Writer*: the bytes sent and buffered are always the layout of the archive up
  to the point State says; a handle is of the entry whose header was written; a
  caller is told the bytes that were taken; `finish` and `flush` leave nothing
  behind; calls end; a caller that follows the documentation meets no panic.
* *Reader*: what entries yield is the data of the archive in order, whatever the
  refills; every entry is found; `skip` and reading to the end agree; a
  truncated source is an error, never an early end.
* *Stream*: a handle gives the data of its own entry, although it may outlive
  the next poll of the stream.
* *Slices*: a prefix has the length asked for and the bytes of the whole.
* *Buffer*: it takes what there is space for, across slices, and never gives out
  a byte that was cleared.

## 2. Modules

| Module | Kind | What it is |
|---|---|---|
| `TarState` | pure | every arm of `State::next`, `take_until` and `take_slices` |
| `ArchiveFormat` | pure | the layout of an archive, from `src/shared/test.rs`, and where in it each State stands |
| `StateFeed` | state machine | a State fed with archives in arbitrary chunks |
| `ArchiveLog` | abstract specification | what the writer promises: a log whose prefixes reach the object |
| `ArchiveWriter` | state machine | the writer, its buffer, the task, the io object |
| `WriterTurns` | state machine | `ArchiveWriter` with every turn of a loop a step of its own, and fairness |
| `Slices` | pure | the arrays of `IoSlice`, their splits, prefixes and iterators |
| `Buf` | pure | the memory, the two pointers and the two regions of the buffer |
| `SlicedWrites` | composition | a write of `ArchiveWriter` computed from slices and `Buf` |
| `ArchiveReader` | state machine | the reader, its buffer, the task, the io object over a source |
| `MCStateFeed`, `MCArchiveWriter`, `MCWriterTurns`, `MCArchiveReader` | instances | small archives, headers and offers for TLC |
| `ArchiveFormatProofs` | proofs | lemmas on the operators of `TarState`, and on the layout: where each entry of an archive lies and which byte is where |
| `SlicesProofs` | proofs | what the operators of `Slices` and `Buf` compute, for arrays of any number of slices |
| `StateFeedProofs` | proofs | that cuts do not matter to `TakeUntil`, the inductive invariant of `StateFeed`, and that its splits are exact |
| `ArchiveWriterProofs` | proofs | type correctness of `ArchiveWriter`, what its writes do, and that `SlicedWrites` agrees with them |
| `ArchiveImageProofs` | proofs | the inductive invariant of `ArchiveWriter`, what follows from it, and the panics of a careful task |
| `ArchiveLogProofs` | proofs | that `ArchiveWriter` implements `ArchiveLog`, and that `finish` leaves the whole archive |
| `ArchiveReaderProofs` | proofs | type correctness of `ArchiveReader`, its checks, and what an answer without bytes means |
| `ReaderPlaceProofs` | proofs | where `ArchiveReader` stands in the archive, what its handles read, what it answers and when a careful task panics |

**Data.** A byte is a triple of where it comes from: `<<"hdr", id, i>>`,
`<<"data", id, i>>`, or the zero byte. The code only asks whether a byte is
zero; the origin lets a property tell every byte from all others. A header is
a record of the answers the code gets from `tar::Header`: its size or that it
does not parse, its checksum (good, unparsable, or zero, that is not
finalised), and how many of its 512 bytes are zero before the first that is
not. `BlockSize` is a parameter. `UsizeMod` is 2^w for a usize of w bits, so
that `rem as usize` is a truncation and not the identity. `take_slices` is
`TakeUntil` of the concatenated slices; `StateFeed` has the loop over the
slices as it is written and the run compares the two. The loop of `take_until`
is eight rounds of one turn, applied to a result that says `more` while the
loop goes on: a stop state is at most eight transitions away, so `more` after
eight rounds is a loop that never ends.

**Writer.** The variables `state`, `data` (`buf[..cap]`) and `pos` are the
fields of `Archive`; `out` is what the object has accepted. `call`, `poll`,
`ret` and `panic` are the call in progress: one step is one turn of the loop of
its poll function, from `match self.state` to `continue`, `return`, a panic or
`Pending`. `entry` and `told` are the handle and what its task was told; `cur`,
`head` and `done` are history variables that record whose bytes were taken and
never guard a step of the code. `head` is the header that was written and `cur`
the entry behind it: they differ when add_entry failed on a size that does not
parse, which leaves State in `ReceivedHeader` (`src/write/mod.rs:49`), so that
the next add_entry takes over the header of the failed one. An io object has
every choice the trait leaves it: `Counts` says how many bytes a write of
slices takes, `FlushStops` how a flush ends half way, `PollWriteFails` that a
poll returns before its bytes are offered. The errors of `take_slices` inside
`poll_write_vectored` and the assertions behind it have no action;
`OutgoingIsValid` states, and the proof shows, that they cannot happen. Calls
that the borrow checker rejects (`add_entry` while a handle lives) are not
enabled. `Careful` restricts the task to the documented use: it stops after an
error, writes at most the data the header announces, and finishes or drops a handle
only when it was told that all the data is taken (`Complete`). It knows the size and
what it was told, nothing of State: an entry without data is complete from the
start, and a write of nothing may be made or left out. `IntoInner` takes the Archive apart between two calls
(`poll = "gone"`) and drops what is buffered.

An action keeps the name of what the function does: `HeaderWrite`,
`HeaderOpensEntry` (with `Entry::new`), `EntryWrite`, `AlignBegins`,
`AlignEnds`, `EndWrite`, `Shutdown`, and `...Stalls` and `...Panics` for the
ways out.

**Slices and Buf.** `ArchiveWriter` knows of an offer its length and where its
slices end, and of the buffer the bytes written into it. `SlicedWrites` builds
the array of slices and the memory with its two pointers from that, runs
`take_prefix`, the pass through and `fill_from_slices` on them, and
`SlicesAreWritten` compares: the bytes offered, the numbers the object may take,
what the buffer holds afterwards. A slice stands for its bytes; what the
`unsafe` casts do with pointers is not modelled. A fold of the code over its slices
is a function of how many of them it has seen (`Ends`, `Took`, `Skipped`,
`Fillings`), with a step of its own where it has one (`TakeNext`, `SkipNext`,
`FillNext`). `bytes_len` saturates at the largest usize; the loop of
`split_at_byte_offset` counts an offset down and compares exact lengths, so
`SplitPoint` is defined by the exact ends of the slices.

**Refinement.** `ArchiveLog` has no buffer, no states and no calls: there is a
log of complete entries and the open item, `at` bytes of which are written, and
the object has a prefix of it that is at most a buffer behind. The mapping
(`Log` at the end of `ArchiveWriter`) takes the history for the log,
`ItemOffset(state, cur)` for `at`, `out` for what the object has, and `shut` and
`poll = "gone"` for the phase. `ImplementsLog` is what no invariant says: bytes the
object has never change, a call that is given up or fails takes nothing back,
entries are sealed once and in order, and `finish` shuts the object down only
with all of a complete archive.

**Reader.** `state`, `data` and `pos` are the fields of `Archive` again;
`bytes` is what the source holds (an archive of `Archives` with one of `Ends`
after it, or any first part of that), `hdrs` the headers in it and `fed` how
much the object has given. A turn of a loop is two steps, the read into the
empty buffer (`FillBuf`, `FillStalls`, `FillEnds`) and what the `match` makes
of the bytes. `consume` is an operator, not an action: every caller applies
`Consumed`, with the transition that follows a marker, and `Commit`, with the
clearing of the buffer, in its own step, and `Entry::poll_read` applies it
twice at the end of an entry as the code does. Its `expect`, `unwrap` and
`assert_eq` are outcomes of `Consumed`, so a panic in it stops the model too.
`HeadersIn` stands for `Block::as_header`: a block is a header if it is exactly
the bytes of one whose checksum is good; that other bytes happen to have a
right checksum is left out, and so is a GNU sparse header, whose `size` may
fail where `entry_size` does not. `lent` is the contract of `AsyncBufRead`:
a task consumes at most what `poll_fill_buf` gave it. `found` and `got` are
history variables. A `Careful` task stops after an error, reads an entry until
it is told its end, reads exactly its data, or skips it, and does not read
again after the end; any task may drop a pending future.

A poll of `Entries` is one of `next_entry` with the handle's lifetime transmuted
to that of the archive's borrow. With `Stale` the task keeps using the handles it
was given before (`older`). The futures of `next_entry`, `read` and `skip` hold no
state of their own: one that is parked while another call runs is the same as one
that was cancelled and called again, so `call` is enough for several tasks that
share handles of one archive.

Definitions whose comment begins with *Mutant* are defective variants of the
definition that follows them. No specification uses them: putting one in the
place of its original shows that the property it is listed with depends on it.

## 3. Runs

| Run | Configuration | Shows |
|---|---|---|
| state_feed | `MCStateFeed.cfg` | the state machine tracks its offset, is indifferent to cuts, ends its loops and reaches the end; slices are split exactly |
| state_feed_32 | `MCStateFeed32.cfg` | *fails*: the loop of `take_until` does not end when `rem as usize` is zero |
| writer_buffered | `MCWriterBuffered.cfg` | the safety properties and the refinement: any caller, every fault, debug build, all bytes buffered |
| writer_direct | `MCWriterDirect.cfg` | the same and `BlocksAreWhole`: release build, vectored object, smallest buffer, pass through |
| writer_careful | `MCWriterCareful.cfg` | a careful caller of a release build meets only the panics the property names, and every call returns but a `finish` that spins on Ok(0) |
| writer_pending | `MCWriterPending.cfg` | *fails*: a write is Pending after its data was taken |
| writer_okzero | `MCWriterOkZero.cfg` | *fails*: Ok(0) for an offer of bytes because the object was Pending |
| reader_short | `MCReaderShort.cfg` | the six safety properties: any caller, every fault, reads of every length, good, bad and truncated archives |
| reader_careful | `MCReaderCareful.cfg` | a careful caller meets only the four panics the property names, and every call returns |
| reader_straddle | `MCReaderStraddle.cfg` | *fails*: a header that is cut by a read is not found |
| reader_skip | `MCReaderSkip.cfg` | *fails*: skip panics on an entry without data |
| reader_stale | `MCReaderStale.cfg` | *fails*: an older handle of the stream reads the data of the entry after its own |

The properties of the state machine and the slices:

* `StateTracksOffset`, `OnlyDamageIsRefused`, `SlicesDoNotMatter`: State stands
  where the consumed bytes end, refuses only a damaged end, and depends on the
  concatenation of its slices only.
* `ForwardProgress`, `FeedReachesEnd`: the loop ends and the feed gets through.
* `SplitIsExact`: a split at any byte, of an array or of a prefix, parts the bytes
  there, and so do the two iterators.

The properties of the writer:

* `ArchiveImage`: sent and buffered bytes are the finished entries, byte for
  byte, then exactly the part of the open item that State claims.
* `HandleIsOfArchive`: the live handle is of the entry in the archive, behind its
  own header or one that was refused for its size.
* `BlocksAreWhole`: between polls no header is half written, so an add_entry that
  is given up leaves nothing for one with another header to go on with.
* `ToldIsTaken`: the lengths returned to the task add up to what was taken.
* `OutgoingIsValid`: State accepts what is about to be written and any part.
* `FinishDelivers`, `FlushDelivers`: after Ok nothing is left behind, also for the
  object that `into_inner` returns.
* `SlicesAreWritten`: the slices and the buffer of the code give the same writes.
* `ImplementsLog`: the refinement.
* `CarefulPanics`: the five panics left for a careful caller. Three come from the
  object: a Pending in the alignment of a write (`RepeatsTakenWrite`), a part of a
  header that begins with zeros (`HeaderIsCut`), and an error in the alignment
  (`AlignmentFailed`), which panics at once in a debug build and in a release build
  is dropped, so that the `finish` or the write of nothing that follows panics. Two
  need no fault: an entry without data that is finished, or dropped before `finish`,
  without a write of nothing (`EmptyEntryUnwritten`), and a write of nothing to an
  entry that is complete (`NothingIsWritten`). The run has the release build, the
  theorem both.
* `CallsReturn`: no call is forgotten and no loop spins, but for `finish` over an
  object that answers Ok(0) again and again to a block that is passed through.

The properties of the reader:

* `StandsInArchive`: State is where the consumed bytes end and the buffer holds
  the bytes that follow, whatever the sizes of reads, consumes and faults.
* `HandleReadsItsEntry`: the handle is of the entry found last and the data
  consumed through it is the beginning of that entry's data.
* `AnswersAreReal`: `None`, UnexpectedEof and the refusals have their reason in
  the source; a truncated source is never a finished archive.
* `NoBytesAtTheEndOnly`: no bytes means the end of the entry.
* `ChecksHold`: the checks of `consume` and the room of the buffer never fail.
* `CarefulReaderPanics`: the four panics left for a careful caller: a header
  that a read cut, a size that does not parse, and an entry without data that is
  skipped or read as an `AsyncBufRead`.
* `CallsReturn`: as for the writer, without exception.

**Bounds.** Blocks have two or three bytes, so one step can be before, at and
past a boundary. Sizes are 0, 1, 3, 4 and 5 (and 2 in `StateFeed`): empty, within a
block, on a boundary, and beyond it. Headers begin with no zero byte, some, or
only zeros. `MaxEntries` is 2, in `StateFeed` up to 3: nothing in the code looks back
further than the entry before. Offers have 0 to 6 bytes in one slice or two, so that a remainder exists with and
without whole slices before it, and an offer can be longer than the empty buffer,
which is then filled across the slices and left with a part of the last.
`Capacity` is one block, where every block is passed through, and two, where
writes meet in the buffer. `MaxChunk` is past the longest distance between two stops.
The reader has blocks of three bytes, so that a header, an alignment and the
end can be cut twice; a buffer of one block or of two, which tells a cut header
that panics from one that is refused; at most two entries, since `poll_next_entry`
knows nothing of the entries before; and sources of every length up to the whole.

**Deadlock.** Not checked: the program is allowed to stop after a panic, when the
feed has reached the end, and when a careful caller has stopped after an error.

**Fairness.** Weak fairness of a turn (`Turn`, in the reader `Step`): a poll that
began runs to its end. Weak fairness of `Wake`: the executor polls a task that was
woken. Strong fairness of `IoAnswers`: an object that is polled for ever takes
something, or says Ok(0), or gives bytes or the end of the source, at some time; an
object that is Pending for ever holds a call up for ever in any implementation.
Nothing is assumed of the task.

Ok(0) is an answer like any other, so an object may give it for ever. `poll_finish`
does not look at the length: it spins when the first block of the end is passed
through to such an object. The turn that does this changes nothing in the archive or
the object. It would be a stutter of `ArchiveWriter`, and weak fairness excludes
stuttering while another answer is possible, so liveness is stated in `WriterTurns`:
its auxiliary variable `turn` alternates while a poll runs, each turn is a step, and
the spin is a fair behaviour. `CallsReturn` names it (`EndTakesNothing` recurs) and
allows no other: without that disjunct TLC finds the spin of `finish`, and with
offers that are passed through whatever their length (the mutant `DirectAlways`) it
finds that of the alignment, whose loop does not look at the length either. In the
code the alignment is shorter than a block and so always buffered.
The turns of the reader's loops need no such variable: one that consumes nothing
leaves no other step enabled.
In `StateFeed` the caller goes on feeding while bytes are left.

**Disagreements met.** The failing runs each state a claim of a comment
or of the documentation; `PROJECT.json` quotes them. The claim at
`src/write/mod.rs:256` (no error and no Pending once data was written) holds
inside `poll_write_vectored` when at least one slice is whole and fails in the
two situations of writer_pending and writer_okzero. An add_entry after one
that was refused for its size returns a handle for its own header without writing
it; the code says nothing of that case, so it is no failing run, and
`HandleIsOfArchive` says that it is the only one. An entry without data is
stepped over by a write of nothing and by no other call. The documentation asks for
none: the example writes what there is to write (`src/lib.rs:17`), `Entry::finish`
says nothing (`src/lib.rs:270`), and `finish` panics "if an entry is currently being
written" (`src/lib.rs:197`), which an entry of no data that was let go is not. Yet
`Entry::finish` on it panics (`src/write/mod.rs:143`), `Archive::finish` after its
handle was dropped panics (`src/write/mod.rs:175`) and the next `add_entry` is
refused; a write of nothing made once more, when the entry is complete, panics too
(`src/write/mod.rs:102`). The object has no part in it. These are cases of
`CarefulPanics`, which names every panic that is left, so there is no failing run of
their own. The suffix of a `Prefix` split
before its remainder lacks the remainder (`src/shared/slices.rs:127`); the writer
uses the prefix of such splits only.

The reader depends on the object more than its documentation says: the part of
a header that a read ends within is consumed, and the header is then looked
for in what the next read brings (reader_straddle). The tests read from memory,
where no block is cut. An entry without data is passed only by a plain read:
`skip` panics (reader_skip), and an `AsyncBufRead` caller, who has nothing to
consume, leaves the reader in the entry, so that the next `next_entry` panics.
`Entry` does not prevent a read after its end from reaching the arm declared
unreachable (`src/read/mod.rs:125`), and the unwrap at `src/read/mod.rs:219`
fails on a size that does not parse. The claim of `entries` that the compiler
prevents concurrent use of entries does not hold for the stream (reader_stale).

## 4. Proofs

`ArchiveFormatProofs` shows of `TarState`, for all block sizes and widths:

* `TakeSlicesType`: `take_slices` maps states to states and consumes at most its input.
* `TakeFits`: bytes that *fit* the state (`Fits`: no longer than what it waits for,
  zeros for the end marker) are taken whole, without an error, and the
  counter of the new state is within its block. It rests on one lemma per kind
  of state, which follow the rounds of the loop.
* `TakeUntilEnds`: when the sizes fit a usize the loop is over within its eight
  rounds, whatever the bytes and the state. A round that does not stop lowers the
  rank of the state (`Rank`); only with 2^w bytes of data or more, of which
  `rem as usize` may be zero, is there a round that leaves the state where it was.

The same module shows of the layout that an archive is its entries one behind the
other: `LaidLengths`, `LaidKeeps`, `EntryAt` say where an entry begins, and that
byte i of it is `EntryByte(h, i)`. `Laid` is a recursive function; what holds of it
for every number of entries is shown for the least natural number at which it
could fail (`LeastNumber`, `UpTo`). `RecursionExists` proves, for any step, that a
function defined by recursion on the natural numbers exists and satisfies its
equation, and `FlattenSteps` takes `FlattenSeq`, which is such a function, one
sequence further.

`SlicesProofs` shows what the operators of `Slices` and `Buf` do to arrays of any
number of slices. An array is described by the *pieces* it cuts a sequence of bytes
into: `Covers(s, c, a, b)` says that the slices of s hold, in order, the bytes of c
from place a to place b, whatever slices are empty. The slices of an array are the
pieces of their own bytes (`OwnPieces`), and every array that covers a part of them
concatenates to that part (`CoversIs`), so what a split does to bytes is read off
what it does to pieces: `SplitArrayIs` and `SplitPrefixIs` for a split at any byte,
`TakesPrefix` and `SkipsPrefix` for the two iterators, `FillsFromSlices` for the
buffer, which takes the bytes up to the space it has, across the ends of slices.

`StateFeedProofs` shows, for all block sizes and widths, first of any bytes

* `TakeUntilCut`: a run on a buffer cut in two is the run on the first part and,
  if that was taken whole without a stop, the run on the second from there;
* `SlicesAreTakenAsOne`: so `take_slices` on any number of slices, empty ones
  among them, is `take_until` on their concatenation;

and of the feed, for all archives that satisfy `SizesFit`, damaged or not, and all
chunks, `Spec => []FeedInv` (`FeedInvariantHolds`), from which

* `FeedTypeCorrect`: `TypeOK`;
* `StateIsExact`: `StateTracksOffset`;
* `RefusalsAreRight`: `OnlyDamageIsRefused`;
* `TakeUntilGoesForward`: `ForwardProgress`;
* `CutsDoNotMatter`: `SlicesDoNotMatter`.

`SplitsAreExact` proves `SplitIsExact` without `SizesFit`, from `SlicesProofs`: the
split of a chunk at any byte, the split of its prefix at any byte, and the iterators.

`SizesFit` says that no entry has 2^w bytes or more. It is needed: state_feed_32
shows the loop that does not end. `FeedInv` says where State stands (`Stands`) more
closely than `StateTracksOffset`: a header that is read in part knows whether all of
the part was zeros, the end marker begins behind the last entry only, and what is
left of the data or of the padding is at most that of the entry. A round of the
loop moves from one such place to the next; the run is followed round by round.

`ArchiveWriterProofs` shows, for all headers, offers, capacities of at least a
block, faults and callers:

* `TypeCorrect` (`Spec => []TypeOK`). `TypeOK` is inductive since it carries the
  bounds of the two buffer pointers and of the counters of State (`GoodState`).
  What a step sends is bounded with `OutgoingFits` and `TakeFits`;
  `FlushStopsFacts`, `FlushedFacts` and `SendFacts` say what happens to the
  buffer, and also that `Image` only ever grows at its end.
* `OutgoingAlwaysValid` (`Spec => []OutgoingIsValid`): whatever a poll function
  writes fits State, and so does each prefix of it.
* `SlicesAlwaysWritten` (`Spec => []SlicesAreWritten`): the write that
  `poll_write_vectored` computes from the array of slices is the one that
  `ArchiveWriter` states of its bytes.

`TypeOK` suffices for the last: it holds in every state with the offer, the handle
and the pointers in their types, whatever came before. The array of slices has as
many slices as the set of ends has members that are not 0, which is shown by
counting (`CutsAre`); the slices then cover the offer (`OfferedIs`), the prefix
taken of them covers what is written (`PrefixIs`), its whole slices are those that
`Whole` counts (`WholeIs`), and what may be passed through is `Counts`
(`DirectCountsAre`). Everything written is shorter than 2^w, so `bytes_len` of it
does not saturate. `BuffersAgree` is `FillsFromSlices` on the memory, whose bytes
behind the write pointer are arbitrary.

`ArchiveImageProofs` shows, for the same constants and any number of entries,
`Spec => []IInv` (`InvariantHolds`) and from it

* `ArchiveIsLaidOut`: `ArchiveImage`, no byte is lost, repeated or misplaced;
* `HandleMatchesArchive`: `HandleIsOfArchive`;
* `ToldAgreesWithState`: `ToldIsTaken`;
* `NoBlockIsHalfWritten`: `BlocksAreWhole`;
* `OkMeansDelivered`: `FlushDelivers`, by an induction of its own on top of `IInv`;
* `PanicsOfACarefulTask`: `CarefulPanics`, by another (`CarefulInv`), for debug and
  release builds.

None of them is inductive. `ArchiveImage` needs to know which bytes a step
sends, so that they are the next ones of the open item: this depends on the
header of the running call (`cur = call.hdr` while add_entry goes on, in
`InHeader` and `AtHeader`), on the handle (`entry = cur` and
`told = cur.size - rem`, in `InData`) and on there being no open entry under
finish. These hold only because a header is never left half written for another
call: `InHeader` says so, and its proof (`NothingStalls`) is that a poll that
goes on with a part of a header finds an empty buffer with room for the rest, so
neither the flush nor the object can hold it up. `CallInv` relates the call to
the handle, `DoneInv` places the finished entries one behind the other. `IInv` is
the conjunction of these with `TypeOK`. Its step is one lemma per call,
`AddEntryInv`, `WriteInv`, `FinishEntryInv`, `FlushInv`, `FinishInv`, `TaskInv`,
over two facts of appending: `Extends` (bytes that are the next of the open item
leave the archive right) and `StateSame`, `ImageSame` (a step that moves no
byte).

`CarefulPanics` says nothing of where State is when no call is made. `CarefulInv`
adds it: between two calls of a task that has seen no error State waits for data
of the entry the task holds, or expects a header, or is past the finished archive,
or is in an alignment whose error was dropped (`Unaligned`), or still waits for the
data of an entry that has none (`Unwritten`); in a call it is where only that
call, made in such a place, can be. `Finalised` is assumed: every header
has a checksum that was set, as the documentation of `add_entry` asks
(`src/lib.rs:22`, `src/lib.rs:218`). That an alignment which failed has a second
way to a panic was found by this proof: without debug assertions the error is
dropped, the task is told that its bytes were taken, lets the handle go and meets
the panic in `finish`.

`ArchiveLogProofs` shows, for the same constants, `WriterImplementsLog`:
`Spec => ImplementsLog`. `ObjectHasPart` reads off `ArchiveImage` that the object has
a part of the log and is at most the buffer behind; `StepGrows` that no step
changes a byte the object has; `StepMoves`, with a lemma per action, which of the
log's actions a step is (`Moves`: a write of n bytes moves the open item on by n,
since both sides of it are the length of the archive). Once the object is shut
down `ClosedInv` is needed as well: finish leaves the buffer empty and State at its
end, so that no later call can send anything.
`FinishIsComplete` proves `FinishDelivers` with it: the log that finish leaves is
the entries one behind the other, each with its header, data and padding, and two
empty blocks. `FinishLeavesArchive` goes on from there: the headers sealed with the
entries are headers that were passed to `add_entry` and their own
(`SealedEntries`, an induction on top of `IInv`), unless `add_entry` had refused the
one that was written for its size; without such a refusal what the object has is
`ArchiveBytes` of them, which are the bytes that `ArchiveReader` and `StateFeed` are
specified on.

`ArchiveReaderProofs` shows, for all archives, sources, capacities, reads and
faults, two things being assumed by name: `NoStaleHandles`, the task uses the
last handle only, and `SizesFit`, the sizes are below 2^w:

* `ReaderTypeCorrect`: `TypeOK`, with the bounds of the two pointers, that a
  buffer is cleared when it is read up, and that consume leaves no marker;
* `ConsumeNeverFails`: `ChecksHold`;
* `NoBytesMeanTheEnd`: `NoBytesAtTheEndOnly`.

Both assumptions are needed: an older handle that consumes nothing in the second
block of the end meets the `expect` of `consume`, and a size of 2^w or more makes
`rem as usize` shorter than the data, so that no bytes are not the end of an entry.
The reason that the checks hold is that `take_slices` of a part of the buffer
agrees with the `next` that looked at all of it (`ConsumedData`, `ConsumedAlign`,
`ConsumedEof`, `ConsumedHeader`, `ConsumedPart`). The invariant is `TypeOK` with
`HandleInv` (under a live handle State is in the data, the padding or past them,
and `Len(got)` is the size less what is left), `LentInv` (what is lent is within
the data that State waits for, between two calls and under a live handle) and
`CallInv` (the handle of the call is the live one).

`ReaderPlaceProofs` shows under the same assumptions, and `HeadersAssumption` (no
header is an empty block, the ids of an archive differ):

* `ReaderStandsInArchive`: `StandsInArchive`, no byte is skipped or read twice;
* `ReaderReadsItsEntry`: `HandleReadsItsEntry`;
* `ReaderAnswersAreReal`: `AnswersAreReal`, by an induction of its own (`AnsInv`);
* `HandlesDoNotInterleave`: `NotInterleaved`, the claim that reader_stale refutes
  for the stream, holds without older handles;
* `PanicsOfACarefulReader`: `CarefulReaderPanics`, the four panics and no other,
  whatever is cancelled and however the source is cut.

The invariant `PInv` says that the source holds the archive or a first part of
it (`SourceInv`), that the buffer holds the bytes behind those consumed (`Window`),
that the offset consumed is one where State may stand (`Placed`), that `got` is the
beginning of the data (`GotInv`) and that the handle is of the entry found last
(`OwnInv`). `Placed` must say more than the property: while only zeros of a block
were read, State does not know yet whether it is a header or the end, and the proof
needs that a block which turns out empty begins behind the last entry, since no
header is empty (`EmptyIsEnd`). A block found in the buffer is the next header only
if it was begun in this read, and only then can its checksum be right (`HeaderFound`);
its id tells it from the header of any other entry.

The panics of a careful reader are an induction of their own on top of `PInv`.
`CareInv` says that a program that panicked takes no step, that State waits for no
data only of an entry that has none (`EmptyEntry`), that an entry whose end State
is past is one whose task was told so (`ToldTheEnd`), and that an entry is let go
only once none of its data is waited for (`DataIsRead`). The last two rest on
`NoBytesMeanTheEnd`: the task sees the end of an entry in a read of no bytes. Each
step that panics is then one of the four (`Explained`).

The remaining assumptions are those of the modules: a block and a usize have
positive sizes and a block fits a usize, `Capacity >= BlockSize` (`with_capacity`
takes a non-zero number of blocks), the slices of an offer end within it, and
what follows an archive begins with an empty block and is at least the end marker.

Model-checked only: liveness (`CallsReturn` and `FeedReachesEnd`; the prover
handles neither ENABLED nor fairness here), and the reader with older handles,
which the theorems on the reader exclude by name. Every invariant and every action
property of the passing runs is stated by a theorem. The modules with theorems use
no recursive operator.

## 5. Not modelled

The casts and checksum arithmetic of `block.rs` (a header is the record of the
answers it gives), texts and kinds of errors (two of the kinds are never
constructed), tracing, and `into_inner` of a reader, which drops the bytes that
were read ahead.

## 6. Plan

Done, most important first: `TarState`, `ArchiveFormat`, `StateFeed` and its
theorems; `ArchiveWriter` with its runs, its type invariant, its inductive
invariant and the theorems above; `ArchiveReader` with the stream of entries, its
invariants and theorems; `Slices`, `Buf` and `SlicedWrites` with theirs;
`ArchiveLog`, and the refinement checked and proved.

Left: the writer's output read back by the reader in one module. The two meet in
`ArchiveBytes`: `FinishLeavesArchive` says that the writer leaves one, the theorems
on the reader what is made of any of them or of a first part of it.
