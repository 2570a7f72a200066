------------------------------ MODULE CommitLog ------------------------------
(***************************************************************************)
(* internal/log: the commit log of one process (log.go) and the segments,  *)
(* stores and indexes below it (segment.go, store.go, index.go), while the *)
(* process runs.  Module LogRecovery adds closing, killing and reopening.  *)
(*                                                                         *)
(* A record occupies one unit of a store and an index entry one unit of an *)
(* index, so positions and sizes are counted in records and entries.  The  *)
(* bytes of a record, its protobuf encoding and the widths of the integers *)
(* are abstracted; errors of the operating system are not injected.        *)
(*                                                                         *)
(* Append takes the log's lock twice: HighestOffset is read under one lock *)
(* and used under a later one, so a call of Append is two steps and any    *)
(* other call may come between them.  Every other operation is one step.   *)
(***************************************************************************)
EXTENDS Integers, Sequences, FiniteSets, FiniteSetsExt, Functions

CONSTANTS
  Values,         \* what a record carries
  Writers,        \* goroutines that call Append
  MaxStoreRecs,   \* Config.Segment.MaxStoreBytes, in records
  MaxIndexEnts,   \* Config.Segment.MaxIndexBytes, in entries
  BufRecs,        \* records that fit in the store's bufio.Writer
  InitialOffset,  \* Config.Segment.InitialOffset
  WholeLog,       \* may a caller truncate through the highest offset?
  MaxOffset,      \* bound: no Append begins at or above this offset
  NoRecord        \* what a read that fails returns

ASSUME LimitsAssumption ==
  /\ MaxStoreRecs \in Nat \ {0}
  /\ MaxIndexEnts \in Nat \ {0}
  /\ BufRecs \in Nat \ {0}
ASSUME OffsetsAssumption == InitialOffset \in Nat /\ MaxOffset \in Nat
ASSUME WholeLogAssumption == WholeLog \in BOOLEAN

Record == [offset : Nat, value : Values]
Entry  == [off : Nat, pos : Nat]

ASSUME NoRecordAssumption == NoRecord \notin Record

VARIABLES
  segs,      \* the segment objects: segment id -> its fields
  segments,  \* l.segments; the slice's order is the order of the ids
  active,    \* l.activeSegment, which a truncation may leave dangling
  stores,    \* base offset -> contents of its .store file
  indexes,   \* base offset -> contents of its .index file, memory mapped
  pending,   \* calls of Append that have read HighestOffset, not yet locked
  panicked,  \* an index out of range, or a fault, has ended the process
  acked,     \* history: the records whose Append returned without an error
  keepFrom   \* history: the least offset no Truncate was allowed to remove

vars == <<segs, segments, active, stores, indexes, pending, panicked,
          acked, keepFrom>>

Segment == [base : Nat, next : Nat, buf : Seq(Record),
            storeSize : Nat, indexSize : Nat]

ZeroEntry == [off |-> 0, pos |-> 0]

(***************************************************************************)
(* Segments and their files                                                *)
(***************************************************************************)

\* newIndex truncates the file up to MaxIndexBytes before it maps it, which
\* fills the rest with zeros.
Padded(ents) ==
  [k \in 1..MaxIndexEnts |-> IF k <= Len(ents) THEN ents[k] ELSE ZeroEntry]

StoreFile(b) == IF b \in DOMAIN stores  THEN stores[b]  ELSE <<>>
IndexFile(b) == IF b \in DOMAIN indexes THEN indexes[b] ELSE <<>>

\* Wrong: the next offset is that of the last entry.
OpenSegmentAtLast(b) ==
  LET n == Len(IndexFile(b))
  IN  [base |-> b, next |-> IF n = 0 THEN b ELSE b + IndexFile(b)[n].off,
       buf |-> <<>>, storeSize |-> Len(StoreFile(b)), indexSize |-> n]

\* Wrong: the next offset comes from the size of the index.
OpenSegmentBySize(b) ==
  [base |-> b, next |-> b + Len(IndexFile(b)), buf |-> <<>>,
   storeSize |-> Len(StoreFile(b)), indexSize |-> Len(IndexFile(b))]

\* newSegment: sizes are the lengths of the files, and the next offset comes
\* from the last entry of the index.
OpenSegment(b) ==
  LET n == Len(IndexFile(b))
  IN  [base      |-> b,
       next      |-> IF n = 0 THEN b ELSE b + IndexFile(b)[n].off + 1,
       buf       |-> <<>>,
       storeSize |-> Len(StoreFile(b)),
       indexSize |-> n]

\* Wrong: a full index is not looked for.
IsMaxedByStore(s) == s.storeSize >= MaxStoreRecs

IsMaxed(s) == s.storeSize >= MaxStoreRecs \/ s.indexSize >= MaxIndexEnts

\* The store file of a segment once its buffer has been flushed.
Content(i) == stores[segs[i].base] \o segs[i].buf

\* What bufio writes to the file when the next record does not fit.
Spilled(s) == IF Len(s.buf) = BufRecs THEN s.buf ELSE <<>>

\* segment.Append as far as store.Append: the record is buffered.
Buffer(s, r) ==
  [s EXCEPT !.buf = IF Len(@) = BufRecs THEN <<r>> ELSE Append(@, r),
            !.storeSize = @ + 1]

\* The rest of segment.Append: one more index entry, one offset further.
Indexed(s) == [s EXCEPT !.indexSize = @ + 1, !.next = @ + 1]

\* The entry index.Write is given for the next record of s.
NewEntry(s) == [off |-> s.next - s.base, pos |-> s.storeSize]

\* The record segment.Append marshals: the segment decides its offset.
NewRecord(s, v) == [offset |-> s.next, value |-> v]

(***************************************************************************)
(* Reading                                                                 *)
(***************************************************************************)

Holders(off) ==
  {i \in segments : segs[i].base <= off /\ off < segs[i].next}

\* Log.Read: the first segment whose range holds the offset, the entry at the
\* relative offset, the record at the entry's position.
ReadRecord(off) ==
  IF Holders(off) = {} THEN NoRecord
  ELSE LET i == Min(Holders(off))
           k == off - segs[i].base + 1
           e == indexes[segs[i].base][k]
       IN  IF k <= segs[i].indexSize /\ e.pos < Len(Content(i))
           THEN Content(i)[e.pos + 1]
           ELSE NoRecord

Last == Max(segments)

\* Only called when there is a segment; otherwise the code panics.
HighestOffset == IF segs[Last].next = 0 THEN 0 ELSE segs[Last].next - 1

(***************************************************************************)
(* Operations                                                              *)
(***************************************************************************)

Init ==
  /\ segments = {0}
  /\ active = 0
  /\ segs = [i \in {0} |-> [base |-> InitialOffset, next |-> InitialOffset,
                            buf |-> <<>>, storeSize |-> 0, indexSize |-> 0]]
  /\ stores = [b \in {InitialOffset} |-> <<>>]
  /\ indexes = [b \in {InitialOffset} |-> Padded(<<>>)]
  /\ pending = {}
  /\ panicked = FALSE
  /\ acked = {}
  /\ keepFrom = 0

\* Append, first half: HighestOffset under the read lock.
AppendBegin(w) ==
  /\ ~panicked
  /\ \A p \in pending : p.writer # w
  /\ segments # {}
  /\ HighestOffset < MaxOffset
  /\ pending' = pending \cup {[writer |-> w, high |-> HighestOffset]}
  /\ UNCHANGED <<segs, segments, active, stores, indexes, panicked, acked,
                 keepFrom>>

\* HighestOffset indexes l.segments[len-1]; LowestOffset indexes [0].
OffsetPanics ==
  /\ ~panicked
  /\ segments = {}
  /\ panicked' = TRUE
  /\ UNCHANGED <<segs, segments, active, stores, indexes, pending, acked,
                 keepFrom>>

\* The second half of Append on a segment that has room and whose files exist.
AppendToActive(p, v) ==
  LET s == segs[active]
      r == NewRecord(s, v)
  IN  /\ ~panicked
      /\ ~IsMaxed(s)
      /\ active \in segments
      /\ segs' = [segs EXCEPT ![active] = Indexed(Buffer(s, r))]
      /\ stores' = [stores EXCEPT ![s.base] = @ \o Spilled(s)]
      /\ indexes' = [indexes EXCEPT ![s.base][s.indexSize + 1] = NewEntry(s)]
      /\ acked' = acked \cup {r}
      /\ pending' = pending \ {p}
      /\ UNCHANGED <<segments, active, panicked, keepFrom>>

\* Wrong: the new segment begins at the highest offset.
NewBaseAtHighest(high) == high

\* The active segment is full: newSegment at the offset after the highest one
\* read before the lock.
NewBase(high) == high + 1

AppendToNew(p, v) ==
  LET b     == NewBase(p.high)
      s     == OpenSegment(b)
      r     == NewRecord(s, v)
      ents  == Padded(IndexFile(b))
      fits  == s.indexSize < MaxIndexEnts
      new   == IF fits THEN Indexed(Buffer(s, r)) ELSE Buffer(s, r)
      index == IF fits THEN [ents EXCEPT ![s.indexSize + 1] = NewEntry(s)] ELSE ents
  IN  /\ ~panicked
      /\ IsMaxed(segs[active])
      /\ active' = active + 1
      /\ segments' = segments \cup {active + 1}
      /\ segs' = [i \in segments \cup {active + 1} |->
                    IF i = active + 1 THEN new ELSE segs[i]]
      /\ stores' = [c \in DOMAIN stores \cup {b} |-> StoreFile(c)]
      /\ indexes' = [c \in DOMAIN indexes \cup {b} |->
                       IF c = b THEN index ELSE indexes[c]]
      /\ acked' = IF fits THEN acked \cup {r} ELSE acked
      /\ pending' = pending \ {p}
      /\ UNCHANGED <<panicked, keepFrom>>

\* l.activeSegment still points to a segment Truncate has removed.  Its file
\* is closed: records stay in the buffer until bufio has to write it out.  The
\* index is still mapped, but the file was cut to its entries: the write of one
\* goes to the page they are on, and faults if there are none.
AppendToRemoved(p, v) ==
  LET s      == segs[active]
      r      == NewRecord(s, v)
      faults == s.indexSize = 0
      fails  == faults \/ Len(s.buf) = BufRecs
  IN  /\ ~panicked
      /\ ~IsMaxed(s)
      /\ active \notin segments
      /\ segs' = IF fails THEN segs
                 ELSE [segs EXCEPT ![active] = Indexed(Buffer(s, r))]
      /\ acked' = IF fails THEN acked ELSE acked \cup {r}
      /\ pending' = pending \ {p}
      /\ panicked' = faults
      /\ UNCHANGED <<segments, active, stores, indexes, keepFrom>>

\* store.Read and store.ReadAt flush the buffer first: by Log.Read of an
\* offset, or by the reader of the whole log when it reaches the segment.
Flush(i) ==
  /\ segs' = [segs EXCEPT ![i].buf = <<>>]
  /\ stores' = [stores EXCEPT ![segs[i].base] = Content(i)]
  /\ UNCHANGED <<segments, active, indexes, pending, panicked, acked, keepFrom>>

Read(off) ==
  /\ ~panicked
  /\ Holders(off) # {}
  /\ off - segs[Min(Holders(off))].base < segs[Min(Holders(off))].indexSize
  /\ Flush(Min(Holders(off)))

ReaderRead(i) == ~panicked /\ Flush(i)

\* Wrong: off by one, so that one offset above the given one may go.
ExpiredTooEarly(s, lowest) == s.next <= lowest + 2

\* The test by which Truncate decides that a segment goes.
Expired(s, lowest) == s.next <= lowest + 1

\* Two segments over the same files, which only stale offsets of concurrent
\* writers can produce: Truncate is not modelled once this has happened.
FilesShared == \E i, j \in segments : i # j /\ segs[i].base = segs[j].base

\* A removed segment is closed first, which empties its buffer.
Truncate(lowest) ==
  LET gone  == {i \in segments : Expired(segs[i], lowest)}
      files == {segs[i].base : i \in segments \ gone}
  IN  /\ ~panicked
      /\ segments # {}
      /\ ~FilesShared
      /\ WholeLog \/ lowest < HighestOffset
      /\ segments' = segments \ gone
      /\ segs' = [i \in (segments \ gone) \cup {active} |->
                    IF i \in gone THEN [segs[i] EXCEPT !.buf = <<>>] ELSE segs[i]]
      /\ stores' = Restrict(stores, files)
      /\ indexes' = Restrict(indexes, files)
      /\ keepFrom' = IF lowest + 1 > keepFrom THEN lowest + 1 ELSE keepFrom
      /\ UNCHANGED <<active, pending, panicked, acked>>

Next ==
  \/ \E w \in Writers : AppendBegin(w)
  \/ OffsetPanics
  \/ \E p \in pending, v \in Values : AppendToActive(p, v)
  \/ \E p \in pending, v \in Values : AppendToNew(p, v)
  \/ \E p \in pending, v \in Values : AppendToRemoved(p, v)
  \/ \E off \in 0..MaxOffset : Read(off)
  \/ \E i \in segments : ReaderRead(i)
  \/ \E lowest \in 0..MaxOffset : Truncate(lowest)

Spec == Init /\ [][Next]_vars

(***************************************************************************)
(* Properties                                                              *)
(***************************************************************************)

TypeOK ==
  /\ segments \in SUBSET Nat
  /\ active \in Nat
  /\ segs \in [segments \cup {active} -> Segment]
  /\ \A i \in segments : segs[i].base \in DOMAIN stores
  /\ DOMAIN stores = DOMAIN indexes
  /\ DOMAIN stores \in SUBSET Nat
  /\ \A b \in DOMAIN stores : stores[b] \in Seq(Record)
  /\ \A b \in DOMAIN indexes : indexes[b] \in [1..MaxIndexEnts -> Entry]
  /\ \A i \in DOMAIN segs : Len(segs[i].buf) <= BufRecs
  /\ \A i \in DOMAIN segs : segs[i].indexSize <= MaxIndexEnts
  /\ pending \in SUBSET [writer : Writers, high : Nat]
  /\ panicked \in BOOLEAN
  /\ acked \in SUBSET Record
  /\ keepFrom \in Nat

\* The segments tile the offsets: each begins where the one before it ends, so
\* rotating (log.go:151) and truncating leave neither a gap nor an overlap.
Contiguous ==
  \A i \in segments :
    i # active => i + 1 \in segments /\ segs[i].next = segs[i + 1].base

\* A record whose Append returned is read back at its offset, unless a caller
\* truncated at or above it; then it may be gone, but nothing else is read.
AckedReadable ==
  \A r \in acked :
    \/ ReadRecord(r.offset) = r
    \/ r.offset < keepFrom /\ Holders(r.offset) = {}

\* An offset is given to one record only, even when every segment has been
\* truncated away between the two halves of an Append.
OffsetsUnique == \A r1, r2 \in acked : r1.offset = r2.offset => r1 = r2

\* No append, read or flush changes what an offset reads; only a truncation
\* that was allowed to remove the offset may.
StableReads ==
  [][\A off \in 0..MaxOffset + 1 :
       ReadRecord(off) # NoRecord =>
         ReadRecord(off)' = ReadRecord(off) \/ off < keepFrom']_vars

(***************************************************************************)
(* The inductive invariant of a log with one writer that never truncates   *)
(* its whole log.  Module CommitLogProofs proves it.                       *)
(***************************************************************************)

SingleWriter == \A x, y \in Writers : x = y

\* In a segment, store, index and range agree: the k-th record of the store is
\* that of the k-th offset, and the k-th entry points to it.
SegmentOK(i) ==
  LET s == segs[i]
  IN  /\ s.storeSize = s.indexSize
      /\ s.next = s.base + s.indexSize
      /\ Len(Content(i)) = s.indexSize
      /\ \A k \in 1..s.indexSize :
           /\ Content(i)[k].offset = s.base + (k - 1)
           /\ indexes[s.base][k] = [off |-> k - 1, pos |-> k - 1]

\* The active segment is the last one, only it may be empty, and the ranges
\* are in the order of the slice.
Chain ==
  /\ active \in segments
  /\ \A i \in segments : i <= active
  /\ \A i, j \in segments :
       i < j => segs[i].base < segs[i].next /\ segs[i].next <= segs[j].base

FilesMatch == DOMAIN stores = {segs[i].base : i \in segments}

\* No one appends between the halves of the writer's Append.
HighIsCurrent == \A p \in pending : p.high = HighestOffset

AckedStored ==
  \A r \in acked :
    /\ r.offset < segs[active].next
    /\ Holders(r.offset) = {} => r.offset < keepFrom
    /\ \A i \in Holders(r.offset) : Content(i)[r.offset - segs[i].base + 1] = r

IndInv ==
  /\ TypeOK
  /\ \A i \in segments : SegmentOK(i)
  /\ Chain
  /\ Contiguous
  /\ FilesMatch
  /\ HighIsCurrent
  /\ AckedStored

(***************************************************************************)
(* Refinement: with one writer the log is the abstract log                 *)
(***************************************************************************)

Readable == UNION {segs[i].base..(segs[i].next - 1) : i \in segments}

Abstract == INSTANCE AbstractLog WITH
  log  <- [o \in Readable |-> ReadRecord(o).value],
  next <- segs[active].next

\* Every operation of the log is an append, a removal at the low end or
\* nothing, as its single writer and its readers see it.
ImplementsAbstractLog == Abstract!Spec

=============================================================================
