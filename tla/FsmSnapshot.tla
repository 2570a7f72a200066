----------------------------- MODULE FsmSnapshot -----------------------------
(***************************************************************************)
(* internal/log/distributed.go: the finite state machine raft drives, over *)
(* the user log.  Its snapshot is a reader of the log that another         *)
(* goroutine copies to a file while records are applied; a restart hands   *)
(* the file to Restore.  The log below is that of LogRecovery, written by  *)
(* the FSM alone, closed before the process ends and never truncated.      *)
(*                                                                         *)
(* hashicorp/raft is external: one goroutine calls Apply and Snapshot, a   *)
(* second one Persist, and NewRaft calls Restore if there is a snapshot.   *)
(***************************************************************************)
EXTENDS LogRecovery

CONSTANTS NoReader, NoSnapshot

VARIABLES
  reader,   \* the snapshot being persisted: the segments whose stores are still
            \* to be read, how much of the first was read, what was copied so
            \* far, and the log's next offset when Snapshot returned
  snapfile  \* the records of the last snapshot that was closed, and that offset

fvars == <<segs, segments, active, stores, indexes, pending, panicked, acked,
           keepFrom, mode, dir, restarts, killed, reader, snapfile>>

Running == mode = "running"

InitFsm == InitRecovery /\ reader = NoReader /\ snapfile = NoSnapshot

\* fsm.Apply: one Append of the user log; pending is the call in progress.
Apply ==
  /\ Running
  /\ \/ \E w \in Writers : AppendBegin(w)
     \/ \E p \in pending, v \in Values : AppendToActive(p, v) \/ AppendToNew(p, v)
  /\ UNCHANGED <<mode, dir, restarts, killed, reader, snapfile>>

ReadOffset(off) ==
  Running /\ Read(off) /\ UNCHANGED <<mode, dir, restarts, killed, reader, snapfile>>

\* Log.Reader lists the segments there are; nothing is read yet.
Snapshot ==
  /\ Running
  /\ pending = {}
  /\ reader = NoReader
  /\ reader' = [todo |-> segments, read |-> 0, sink |-> <<>>,
                upto |-> segs[active].next]
  /\ UNCHANGED <<segs, segments, active, stores, indexes, pending, panicked,
                 acked, keepFrom, mode, dir, restarts, killed,
                 snapfile>>

Current == Min(reader.todo)

\* Wrong: the store's buffer is not flushed before the file is read.
UnreadInFile(i) ==
  LET file == stores[segs[i].base]
  IN  SubSeq(file, reader.read + 1, Len(file))

\* What originReader.Read finds in the store behind what it has read.
Unread(i) == SubSeq(Content(i), reader.read + 1, Len(Content(i)))

\* Persist copies the next records of the store at hand: io.Copy asks for as
\* much as its buffer takes.
PersistRead(n) ==
  /\ Running
  /\ reader # NoReader /\ reader.todo # {}
  /\ n <= Len(Unread(Current))
  /\ ReaderRead(Current)
  /\ reader' = [reader EXCEPT !.read = @ + n,
                              !.sink = @ \o SubSeq(Unread(Current), 1, n)]
  /\ UNCHANGED <<mode, dir, restarts, killed, snapfile>>

\* At the end of a store the MultiReader goes on to the next one.
PersistNext ==
  /\ Running
  /\ reader # NoReader /\ reader.todo # {}
  /\ Unread(Current) = <<>>
  /\ ReaderRead(Current)
  /\ reader' = [reader EXCEPT !.read = 0, !.todo = @ \ {Current}]
  /\ UNCHANGED <<mode, dir, restarts, killed, snapfile>>

\* sink.Close makes the snapshot the one a restart finds.
PersistDone ==
  /\ Running
  /\ reader # NoReader /\ reader.todo = {}
  /\ snapfile' = [records |-> reader.sink, upto |-> reader.upto]
  /\ reader' = NoReader
  /\ UNCHANGED rvars

\* DistributedLog.Close; a snapshot that is not complete is discarded.
Shutdown ==
  /\ CleanClose
  /\ reader' = NoReader
  /\ UNCHANGED snapfile

HasRecords == snapfile # NoSnapshot /\ snapfile.records # <<>>

\* NewDistributedLog: setupLog opens the log, and raft restores the snapshot.
\* Restore does nothing if there is no record; otherwise the first one makes it
\* reset the log, and an error of Reset ends the start.
Start ==
  /\ IF HasRecords
     THEN /\ mode = "down" /\ restarts < MaxRestarts
          /\ dir' = FALSE
          /\ stores' = Restrict(stores, {}) /\ indexes' = Restrict(indexes, {})
          /\ mode' = IF dir' THEN "running" ELSE "failed"
          /\ restarts' = restarts + 1
          /\ UNCHANGED <<segs, segments, active, pending, panicked, acked,
                         keepFrom, killed>>
     ELSE Open
  /\ UNCHANGED <<reader, snapfile>>

NextFsm ==
  \/ Apply
  \/ \E off \in 0..MaxOffset : ReadOffset(off)
  \/ Snapshot
  \/ \E n \in 1..MaxOffset : PersistRead(n)
  \/ PersistNext
  \/ PersistDone
  \/ Shutdown
  \/ Start

SpecFsm == InitFsm /\ [][NextFsm]_fvars

(***************************************************************************)
(* Properties                                                              *)
(***************************************************************************)

\* The records of the log below an offset, in order.
RecordsBelow(off) ==
  [k \in 1..(off - InitialOffset) |-> ReadRecord(InitialOffset + k - 1)]

\* However appends, rotations and flushes fall between the reads of Persist
\* (distributed.go:315), the snapshot is the log's beginning: no record is
\* missing, repeated or out of order, and none of those applied before
\* Snapshot is left out.
SnapshotIsPrefix ==
  (Running /\ snapfile # NoSnapshot) =>
    LET n == Len(snapfile.records)
    IN  /\ snapfile.records = RecordsBelow(InitialOffset + n)
        /\ n >= snapfile.upto - InitialOffset

\* A start that restores a snapshot wipes the user log before it reads the first
\* record (log.go:219), and cannot go on: what it has wiped of the records that
\* were acknowledged when the snapshot was taken is all in the snapshot file.
WipedIsInSnapshot ==
  mode = "failed" =>
    \A r \in acked : r.offset < snapfile.upto => r \in Range(snapfile.records)

=============================================================================
