----------------------------- MODULE ArchiveLog -----------------------------
(***************************************************************************)
(* What the writing half of the crate promises, without its buffer, its    *)
(* states and its calls: an archive is a log of items, entries and then    *)
(* the end marker, that is written from the front and never changed; the   *)
(* object receives a prefix of it, of which it is at most a buffer behind; *)
(* it is shut down only when it has the whole of a complete archive.       *)
(* ArchiveWriter implements it (ImplementsLog).                            *)
(***************************************************************************)
EXTENDS ArchiveFormat

CONSTANTS Headers, Capacity

VARIABLES
  entries,  \* the complete entries, [hdr, head, base]: see EntryByteUnder
  open,     \* the entry that is being written, or NoEntry
  at,       \* how many bytes of the open entry, or the end, are written
  sent,     \* the bytes the object has
  phase     \* "open", "closed" with the object shut down, or "gone"

log  == <<entries, open, at>>
vars == <<entries, open, at, sent, phase>>

Entry(head, h) == [head |-> head, hdr |-> h]
NoEntry        == Entry(NoHeader, NoHeader)

(* Where the open item begins, and how many bytes of the log there are.    *)
End ==
  IF entries = <<>> THEN 0
  ELSE LET last == entries[Len(entries)] IN last.base + EntryLen(last.hdr)

LogLen == End + at

OpenByte(i) ==
  IF open = NoEntry THEN ZeroByte ELSE EntryByteUnder(open.head, open.hdr, i)

(* What the object has is the first bytes of the log.                      *)
SentIsPart ==
  /\ Len(sent) <= LogLen
  /\ \A k \in 1 .. Len(entries) :
       \A i \in 1 .. EntryLen(entries[k].hdr) :
         entries[k].base + i <= Len(sent) =>
           sent[entries[k].base + i]
             = EntryByteUnder(entries[k].head, entries[k].hdr, i)
  /\ \A i \in 1 .. at : End + i <= Len(sent) => sent[End + i] = OpenByte(i)

(* A part of the log that the object did not have yet reaches it; what it  *)
(* has stays.                                                              *)
Deliver ==
  /\ Len(sent') >= Len(sent)
  /\ \A i \in 1 .. Len(sent) : sent'[i] = sent[i]
  /\ SentIsPart'
  /\ LogLen' - Len(sent') <= Capacity

Init ==
  /\ entries = <<>> /\ open = NoEntry /\ at = 0
  /\ sent = <<>> /\ phase = "open"

(* The header of an entry, in as many parts as it takes.                   *)
TakeHeader(h) ==
  /\ \/ open = NoEntry /\ at = 0
     \/ open = Entry(h, h) /\ at < BlockSize
  /\ open' = Entry(h, h)
  /\ at' \in at + 1 .. BlockSize
  /\ UNCHANGED entries

(* A header whose size does not parse opens no entry, but another one may  *)
(* be opened behind it.                                                    *)
TakeOver(h) ==
  /\ open # NoEntry /\ at = BlockSize /\ open.head.size = BadSize
  /\ open' = Entry(open.head, h)
  /\ UNCHANGED <<entries, at>>

TakeBody ==
  /\ open # NoEntry /\ at >= BlockSize /\ open.hdr.size # BadSize
  /\ at' \in at + 1 .. EntryLen(open.hdr)
  /\ UNCHANGED <<entries, open>>

Seal ==
  /\ open # NoEntry /\ at = EntryLen(open.hdr)
  /\ entries' = Append(entries, [hdr |-> open.hdr, head |-> open.head, base |-> End])
  /\ open' = NoEntry /\ at' = 0

TakeEnd ==
  /\ open = NoEntry
  /\ at' \in at + 1 .. EofLen
  /\ UNCHANGED <<entries, open>>

Write ==
  /\ phase = "open"
  /\ \/ \E h \in Headers : TakeHeader(h) \/ TakeOver(h)
     \/ TakeBody \/ Seal \/ TakeEnd
     \/ UNCHANGED log
  /\ Deliver
  /\ UNCHANGED phase

(* finish: the end marker is complete and the object has all of the log.   *)
Close ==
  /\ phase = "open" /\ phase' = "closed"
  /\ open = NoEntry /\ at = EofLen
  /\ UNCHANGED log
  /\ Deliver /\ Len(sent') = LogLen

(* into_inner: what the object does not have by then is lost.              *)
Release ==
  /\ phase # "gone" /\ phase' = "gone"
  /\ UNCHANGED <<entries, open, at, sent>>

Next == Write \/ Close \/ Release

Spec == Init /\ [][Next]_vars
=============================================================================
