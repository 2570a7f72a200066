----------------------------- MODULE LogRecovery -----------------------------
(***************************************************************************)
(* The log of module CommitLog across the life of its process: Close, the  *)
(* death of the process at any point of an operation, setup() on the files *)
(* that are left, and Reset.                                               *)
(*                                                                         *)
(* The process dies, not the machine: what was written to a file or to the *)
(* shared mapping of an index survives, what is still in a store's buffer  *)
(* is lost.  A record that reached the file only in part counts as lost.   *)
(***************************************************************************)
EXTENDS CommitLog

CONSTANTS
  Killable,    \* may the process die other than by finishing Close?
  MaxRestarts  \* bound: how many times the log is opened again

ASSUME RestartAssumption == Killable \in BOOLEAN /\ MaxRestarts \in Nat

VARIABLES
  mode,     \* "running", "down", or "failed": setup returned an error
  dir,      \* does the log's directory exist?
  restarts, \* how many times the log has been opened again
  killed    \* history: did the process ever end otherwise than by Close?

rvars == <<segs, segments, active, stores, indexes, pending, panicked,
           acked, keepFrom, mode, dir, restarts, killed>>

InitRecovery ==
  Init /\ mode = "running" /\ dir = TRUE /\ restarts = 0 /\ killed = FALSE

(***************************************************************************)
(* The process goes away, leaving these files                              *)
(***************************************************************************)

Die(storeFiles, indexFiles) ==
  /\ mode = "running" /\ ~panicked
  /\ mode' = "down"
  /\ stores' = storeFiles
  /\ indexes' = indexFiles
  /\ segments' = {} /\ active' = 0 /\ segs' = [i \in {0} |-> segs[active]]
  /\ pending' = {}
  /\ UNCHANGED <<panicked, acked, keepFrom, dir, restarts>>

Rank(S, x) == Cardinality({y \in S : y < x})

SegmentAt(b) == CHOOSE i \in segments : segs[i].base = b

\* Wrong: the index file is left at its mapped size.
ClosedIndexFull(i) == indexes[segs[i].base]

\* index.Close truncates the file to the entries in it; store.Close flushes.
ClosedIndex(i) == SubSeq(indexes[segs[i].base], 1, segs[i].indexSize)

\* Log.Close closes the segments in order, the index of each before its store.
\* n counts the files closed when the process goes; all of them is a clean end.
IndexCloseStep(i) == 2 * Rank(segments, i) + 1
StoreCloseStep(i) == 2 * Rank(segments, i) + 2

Close(n) ==
  Die([b \in DOMAIN stores |->
         IF StoreCloseStep(SegmentAt(b)) <= n THEN Content(SegmentAt(b)) ELSE stores[b]],
      [b \in DOMAIN indexes |->
         IF IndexCloseStep(SegmentAt(b)) <= n THEN ClosedIndex(SegmentAt(b)) ELSE indexes[b]])

CleanClose == Close(2 * Cardinality(segments)) /\ UNCHANGED killed

KillInClose(n) ==
  /\ Killable /\ mode = "running"
  /\ n < 2 * Cardinality(segments)
  /\ Close(n)
  /\ killed' = TRUE

\* segment.Remove closes the index and the store, then removes their files in
\* that order.  Truncate does so for one expired segment after the other; n
\* counts the steps done when the process is killed.
KillInTruncate(lowest, n) ==
  LET gone       == {i \in segments : Expired(segs[i], lowest)}
      done(i, k) == i \in gone /\ 4 * Rank(gone, i) + k <= n
      at(b)      == SegmentAt(b)
  IN  /\ Killable /\ mode = "running"
      /\ lowest < HighestOffset
      /\ n < 4 * Cardinality(gone)
      /\ Die([b \in {c \in DOMAIN stores : ~done(at(c), 4)} |->
                IF done(at(b), 2) THEN Content(at(b)) ELSE stores[b]],
             [b \in {c \in DOMAIN indexes : ~done(at(c), 3)} |->
                IF done(at(b), 1) THEN ClosedIndex(at(b)) ELSE indexes[b]])
      /\ killed' = TRUE

\* newSegment creates the store, creates the index, then extends the index:
\* the files after n such steps over the base offsets of S, in their order.
OpenedStores(S, n) ==
  [c \in DOMAIN stores \cup {b \in S : 3 * Rank(S, b) + 1 <= n} |-> StoreFile(c)]

\* Wrong: the index file is not extended before it is mapped.
OpenedIndexesUnpadded(S, n) ==
  [c \in DOMAIN indexes \cup {b \in S : 3 * Rank(S, b) + 2 <= n} |-> IndexFile(c)]

OpenedIndexes(S, n) ==
  [c \in DOMAIN indexes \cup {b \in S : 3 * Rank(S, b) + 2 <= n} |->
     IF c \in S /\ 3 * Rank(S, c) + 3 <= n THEN Padded(IndexFile(c)) ELSE IndexFile(c)]

KillInRotation(p, n) ==
  /\ Killable /\ mode = "running"
  /\ IsMaxed(segs[active])
  /\ Die(OpenedStores({NewBase(p.high)}, n), OpenedIndexes({NewBase(p.high)}, n))
  /\ killed' = TRUE

(***************************************************************************)
(* setup(): the process comes back                                         *)
(***************************************************************************)

\* setup sorts one base offset per file of the directory, so two per segment,
\* and its loop counts up twice: it opens every other element of that list.
DirEntries == ({".store"} \X DOMAIN stores) \cup ({".index"} \X DOMAIN indexes)
FirstAt(b) == Cardinality({e \in DirEntries : e[2] < b})
FilesOf(b) == Cardinality({e \in DirEntries : e[2] = b})

\* Wrong: without the second i++ every file name opens a segment.
TimesOpenedByAll(b) == FilesOf(b)

TimesOpened(b) ==
  Cardinality({k \in FirstAt(b)..(FirstAt(b) + FilesOf(b) - 1) : k % 2 = 0})

Bases  == DOMAIN stores \cup DOMAIN indexes
ToOpen == IF Bases = {} THEN {InitialOffset}
          ELSE {b \in Bases : TimesOpened(b) > 0}

Ranked(S, n) == CHOOSE b \in S : Rank(S, b) = n

Open ==
  /\ mode = "down" /\ dir
  /\ restarts < MaxRestarts
  /\ segments' = 0..(Cardinality(ToOpen) - 1)
  /\ active' = Cardinality(ToOpen) - 1
  /\ segs' = [i \in segments' |-> OpenSegment(Ranked(ToOpen, i))]
  /\ stores' = OpenedStores(ToOpen, 3 * Cardinality(ToOpen))
  /\ indexes' = OpenedIndexes(ToOpen, 3 * Cardinality(ToOpen))
  /\ mode' = "running"
  /\ restarts' = restarts + 1
  /\ UNCHANGED <<pending, panicked, acked, keepFrom, dir, killed>>

KillInOpen(n) ==
  /\ Killable
  /\ mode = "down" /\ dir
  /\ restarts < MaxRestarts
  /\ n < 3 * Cardinality(ToOpen)
  /\ stores' = OpenedStores(ToOpen, n)
  /\ indexes' = OpenedIndexes(ToOpen, n)
  /\ restarts' = restarts + 1
  /\ killed' = TRUE
  /\ UNCHANGED <<segs, segments, active, pending, panicked, acked, keepFrom,
                 mode, dir>>

\* Remove closes the log and removes the directory with all that is in it;
\* setup then cannot read that directory.
Reset ==
  /\ mode = "running" /\ ~panicked
  /\ dir' = FALSE
  /\ mode' = IF dir' THEN "running" ELSE "failed"
  /\ stores' = Restrict(stores, {}) /\ indexes' = Restrict(indexes, {})
  /\ UNCHANGED <<segs, segments, active, pending, panicked, acked, keepFrom,
                 restarts, killed>>

MaxFiles == 2 * (MaxOffset + 2)

NextRecovery ==
  \/ mode = "running" /\ Next /\ UNCHANGED <<mode, dir, restarts, killed>>
  \/ CleanClose
  \/ \E n \in 0..MaxFiles : KillInClose(n)
  \/ \E lowest \in 0..MaxOffset, n \in 1..(2 * MaxFiles) : KillInTruncate(lowest, n)
  \/ \E p \in pending, n \in 1..3 : KillInRotation(p, n)
  \/ Open
  \/ \E n \in 1..(3 * MaxFiles) : KillInOpen(n)
  \/ Reset

SpecRecovery == InitRecovery /\ [][NextRecovery]_rvars

(***************************************************************************)
(* Properties                                                              *)
(***************************************************************************)

TypeOKRecovery ==
  /\ mode \in {"running", "down", "failed"}
  /\ dir \in BOOLEAN
  /\ restarts \in 0..MaxRestarts
  /\ killed \in BOOLEAN
  /\ mode = "running" => TypeOK

\* Whatever the process was doing when it died, setup opens each segment that
\* has a file left, and opens it once: its loop over every other file name
\* (log.go:108-114) never gets out of step.
EverySegmentOpenedOnce ==
  mode = "down" => \A b \in Bases : TimesOpened(b) = 1

\* The ranges of the segments never overlap, so the first segment Log.Read
\* finds is the only one that holds the offset, even when a kill made the
\* segments forget records.
SegmentsDisjoint ==
  mode = "running" =>
    \A i, j \in segments : i < j => segs[i].next <= segs[j].base

\* As long as the process always ends by a Close that finishes, the log comes
\* back as it was: what was acknowledged is read back (log_test.go:67-104).
AckedReadableRecovery == (mode = "running" /\ ~killed) => AckedReadable

\* Nor does such a log ever give out an offset again.
OffsetsUniqueRecovery == ~killed => OffsetsUnique

\* A log that is opened again serves the data stored by the one before it
\* (log_test.go:67): a record that reached a store file is read back at its
\* offset, however the process ended.
StoredReadable ==
  mode = "running" =>
    \A b \in DOMAIN stores : \A k \in DOMAIN stores[b] :
      ReadRecord(stores[b][k].offset) = stores[b][k]

=============================================================================
