# A TLA+ verification of di-log

di-log is a distributed commit log in Go: each server keeps a log of records in
segment files, raft replicates the requests to append, serf tells the servers
of each other, and gRPC clients produce and consume through a load balancer of
the repository's own. This directory holds TLA+ models of these parts, the TLC
runs that check them and the proofs, checked by TLAPS, about the log, its
restarts and snapshots, its replication, the membership of the cluster, the
streams of a server, its shutdown and load balancing.

`PROJECT.json` lists the components, the runs, the lines every definition
stands for, one mutation per checked property, the hazards and the theorems.
Paths below are relative to `src/`.

## The system

| component | state | operations | who acts |
|---|---|---|---|
| store, index, segment (`internal/log/{store,index,segment}.go`) | a file behind a `bufio.Writer`; a memory-mapped file, padded while open; base and next offset | append, read, flush, close, remove | under the log's lock |
| log (`internal/log/log.go`) | list of segments, `activeSegment`, `RWMutex` | `Append`, `Read`, `Truncate`, `Reader`, `Close`, `Remove`, `Reset`, `setup` | raft's goroutines, gRPC handlers |
| FSM and snapshots (`internal/log/distributed.go`) | the user log; the snapshot in progress | `Apply`, `Snapshot`, `Persist`, `Restore` | raft's FSM goroutine, raft's snapshot goroutine |
| replication (`internal/log/distributed.go`) | per server: raft's log (a second `Log`, with offsets from 1), stable store, user log | `Append` through `raft.Apply`, `logStore`'s methods, `Close`, `NewDistributedLog` | raft, gRPC handlers |
| membership (`internal/discovery`, `Join`/`Leave` in `distributed.go`) | serf's view, raft's configuration | start, leave, crash; `eventHandler`, `handleJoin`, `handleLeave`, `Join`, `Leave` | one event goroutine per server, all acting on one configuration |
| gRPC service (`internal/server/server.go`) | none of its own; one handler goroutine per stream | `Produce`, `Consume`, `ProduceStream`, `ConsumeStream`, `GetServers` | clients |
| agent (`internal/agent`) | lock, flag, channel, the components | `NewAgent`, `serve`, `Shutdown` | signal handler and two goroutines |
| load balancing (`internal/loadbalance`) | one `Resolver`, one `Picker` per process | `Build`, `ResolveNow`, `Close`; `Build`, `Pick` | gRPC's goroutines in a client |

How they interact: a produce call goes from the picker to the server said to
lead, through the handler to `DistributedLog.Append`, through raft to the log
stores of a majority (`logStore.StoreLogs`), and through `fsm.Apply` to the user
log of every server; the answer is the offset in the leader's user log. A
consume call reads the user log of whichever server it reaches. serf's events
become changes of raft's configuration, which only the leader can make.
`Shutdown` leaves serf, waits for the handlers and closes both logs.

What is hard here: `Append` takes the log's lock twice; buffers, padded files and
a loop that skips file names meet a kill at any step; raft starts from its log
while the user log still has its records; a snapshot is copied while the log
grows; events of joins and leaves race with changes of leader; three callers race
into `Shutdown` while streams are being opened; one resolver and picker follow a
cluster whose leader changes. `PROJECT.json` lists these hazards at their lines
with the properties that cover each.

## Modules

| module | models | composed of |
|---|---|---|
| `AbstractLog` | what the log promises: an array over an interval of offsets that grows at one end and shrinks at the other | |
| `CommitLog` | the running log of one process | |
| `CommitLogProofs` | theorems about `CommitLog` | `CommitLog`, `AbstractLog` |
| `SetLemmas` | facts about sets of numbers the proofs share | |
| `LogRecovery` | closing, killing and opening the log, `Reset` | `CommitLog` |
| `RecoveryProofs` | theorems about `LogRecovery` and `FsmSnapshot` | `FsmSnapshot`, `CommitLogProofs` |
| `FsmSnapshot` | the FSM over the log, snapshots and restarts | `LogRecovery` |
| `ReplicatedLog` | what a cluster promises: one log, of which each server shows a beginning | |
| `ReplicatedLogProofs` | theorem about `ReplicatedLog` | `ReplicatedLog` |
| `Replication` | a cluster with raft's logs, user logs and snapshots; implements `ReplicatedLog` | logs as sequences |
| `ReplicationProofs` | theorems about `Replication` | `Replication`, `ReplicatedLogProofs` |
| `Membership` | servers that come and go, raft's configuration | |
| `MembershipProofs` | theorems about `Membership` | `Membership` |
| `LogServer` | the gRPC streams of one server | the log as a sequence |
| `Agent` | the shutdown of one server | `LogServer` |
| `AgentProofs` | theorems about `LogServer` and `Agent` | `Agent` |
| `LoadBalance` | the resolver and the picker of a client | |
| `LoadBalanceProofs` | theorems about `LoadBalance` | `LoadBalance` |

`MC<module>` names the constants of TLC's instances. Definitions marked
`Wrong:` are not part of any specification: each is a definition as a plausible
slip in the code would have it, and the property it is paired with in
`PROJECT.json` fails when it takes the place of the right one.

### CommitLog

A record takes one unit of a store and an index entry one unit of an index, so
`MaxStoreRecs`, `MaxIndexEnts` and `BufRecs` stand for `MaxStoreBytes`,
`MaxIndexBytes` and the size of `bufio.Writer`'s buffer. A segment is a record of
`baseOffset`, `nextOffset`, its buffer and the two sizes; its files are in
`stores` and `indexes`, by base offset. Segment objects have ids in the order of
`l.segments`; `active` may name one that is no longer in the list, as
`activeSegment` does after `Truncate` (log.go:264).

`AppendBegin` is the call of `HighestOffset` (log.go:142); `AppendToActive`,
`AppendToNew` and `AppendToRemoved` are the rest under the write lock, for a
segment with room, a full one, and one that was removed. Everything else is one
step. A removed segment is written to through a mapping whose file was cut to its
entries: the write lands on the page they are on, which an index is assumed not to
exceed, and faults if there are none. `OffsetPanics` is the index out of range of
`HighestOffset` and `LowestOffset` on a log without segments. Errors of the operating system are
not injected. `Truncate` is not modelled once two segments have one pair of
files (`FilesShared`), which takes two writers.

### LogRecovery

`Close`, the removal of segments, a rotation and `setup` are sequences of steps
on files; the process may be killed after any number of them, or at any other
time. What was written to a file or to a shared mapping survives, the contents of
buffers do not. The machine does not crash, and a record that was written in
part counts as lost. `killed` remembers whether this ever happened. `TimesOpened`
is the loop of log.go:108-114 over the sorted names: it opens every second one.
`Reset` empties and removes the directory, `setup` fails on it, and the log stays
in mode "failed".

### FsmSnapshot

The log with the FSM as its only writer. `Snapshot` lists the segments;
`PersistRead` copies some records of the store at hand, `PersistNext` goes on
when there are no more; between these steps the FSM goes on applying. `Start` is
`NewDistributedLog`: with a snapshot that has a record, `Restore` calls `Reset`
and the start fails for good, with the user log wiped: `WipedIsInSnapshot` says
that the snapshot file still has what was lost. A start that failed is not tried
again.

### Replication

`hashicorp/raft` is external. An election and an exchange of AppendEntries are one step
each and a leader knows at once what its followers store; what is kept is what the
repository's code is given: which entries are stored, deleted and applied, in which
order, and that nothing but the logs, the term and the vote survive a restart. A leader
commits by what its followers have acknowledged to it (`match`), also after they went
down or forgot it. `Produce` and `ApplyEntry` are the two ends of
`DistributedLog.Append`; `StoreLogs` and `DeleteRange` are those of `logStore`.

`raftLog` holds what was put in the log store, deleted or not, until a start forgets it,
and `first` is its `FirstIndex`; what is below is deleted, and `HasEntry` is whether
`GetLog` finds an entry. `DeleteRange` is `Truncate(max)`: the segments without an entry
above `max` go, from the low end. For the conflicting tail of a log that is all of it,
and the append behind it panics (`role` "panicked"), with `first` one above the last
entry. `TakeSnapshot` is `fsm.Snapshot` and `Persist` with the compaction that raft does
behind them, in one step: it deletes what the snapshot has but for the last `Trailing`
entries. A snapshot that is taken while the FSM goes on is in `FsmSnapshot`. A leader
that does not find the entry a follower needs, or the one before it, sends nothing, and
never a snapshot.

A process ends by `Close`, by `Kill` or by that panic, and may be started again on
its volume. What `NewDistributedLog` finds is `EntriesFound` and `RecordsFound`: all
that was put in a log that was closed; nothing in the raft log of a server that
panicked; after a kill a beginning of raft's log that lacks less than a segment, since
an index that was not closed lets its segment forget all but the first entry
(index.go:36) and raft (v1.1.1) reads every entry when it starts and fails if one is
missing in the middle; and any beginning of a user log that was not closed, which
nothing reads at the start. Such a user log in truth has gaps in its earlier segments
too, and only the servers in their first life are said anything about. A server with a
snapshot fails to start (`StartFails`, `role` "failed") with its user log wiped. Term
and vote are kept, so a server that forgot entries votes for candidates without
them.

`reopened` is the servers that were started again, `forgot` those that found less in
their raft log than they had put there. `FirstLives` is the servers that never were
started again. `MajoritiesRemember` says that any two majorities share a server outside
`forgot`: in a cluster of odd size nobody may have forgotten anything, in one of even
size one server may. It is the hypothesis of `FirstLivesAgree`, `AckedEverywhere` and
`ImplementsReplicatedLog`; without it they fail, which run `forget` shows. `Abstract`
maps the user logs of `Members` to `ReplicatedLog`: a server that starts again leaves,
and all of them leave when majorities have forgotten.

Configuration entries are left out, so a server that forgot its log may stand for
election itself, which in raft a server without a configuration does not before it has
been sent one.

### Membership

Each server's event handler reads its queue of serf's events; `HandleJoin` is the start
of `Join`, which then makes a call of `RemoveServer` per clashing entry
(`RemoveExisting`) and one of `AddVoter` (`JoinVoter`), with anything else in between. A
call fails where the server does not lead. raft has one configuration, in force once the
leader has stored it; a change that finds no majority makes the leader step down. An
uncommitted configuration that the next leader undoes is not modelled. `MayJoin` is the
two waits of a start: the bootstrapping server's for a leader, in `setupLog`, and the
others' for a member to join through. raft shares the multiplexer that `serve` starts
when `NewAgent` is done, so before that a server cannot be reached (`Serving`), and a
bootstrapping server that comes back hears of no leader but itself. A server may come
back with another address whether or not serf has declared it failed (`DeclareFailed`).
If serf has, it hears of a join; if not, of an update of its tags, which `eventHandler`
has no case for (membership.go:91), and raft keeps the old address: `stale`. The address
is `rpc_addr`, whose port may change; a server that comes back on another host while
serf takes it for alive is a conflict of names to memberlist and is left out. serf
delivers every event, in order, to the live members, and the events a server gets about
the others when it joins come in a fixed order. `lost` names the members with an event
that no leader was there to act on: those whose joining or leaving the code never makes
up for.

### LogServer and Agent

A handler is at one point of its loop: "receive", "append", "answer" for
ProduceStream, "loop", "send" for ConsumeStream. Unary calls are what a handler
does for one message. `AppendRecord` is all of raft: a record that was appended and
applied, a refusal, or a refusal of a record that raft applies later (`adrift`).
`Offsets` are where consumers begin: the one of the run waits for the log to get
there and is not sent the record before. `Agent` adds the three callers of
`Shutdown`, its lock, flag and list of steps, and couples them with the streams:
no stream is opened once the listener is closed, and raft applies nothing once the
log is. One run checks both modules, so what the streams promise is checked through
a shutdown too.

### LoadBalance

gRPC (v1.33.2) is external: it calls `Resolver.Build` once per client connection and
`ResolveNow` again when a subconnection breaks, keeps a subconnection per address, which
it connects anew when the address has got another attribute (`redialled` until the
balancer hears of it, `Redialled`), and calls `Picker.Build` when one gets or ceases to
be ready, which goes through them in any order. `GetServers` asks for raft's leader once
per server, a step each, and leaders are lost and elected in between; raft's
configuration stays as it is. A call may fail at any time, for whatever reason
(`ResolveFails`): the answer is dropped, nothing asks again by itself, and `missed`
remembers whose call it was. A connection is `Alone` while the program has dialled no
other. The round-robin counter does not
wrap (2^64).

## Runs

| run | instance | shows |
|---|---|---|
| `one` | 1 writer, 2 values, offsets to 5, stores of 2 records | `IndInv`, `Contiguous`, `AckedReadable`, `ImplementsAbstractLog`: a log with one writer, truncated below its end, tiles its offsets, loses nothing acknowledged and implements `AbstractLog` |
| `whole` | the same with stores of 3, indexes of 2, a buffer of 2, offsets from 1, and truncation of the whole log | `TypeOK`, `OffsetsUnique`, `StableReads` |
| `recover` | stores of 2, two restarts, kills anywhere | `TypeOKRecovery`, `EverySegmentOpenedOnce`, `SegmentsDisjoint`; without a kill `AckedReadableRecovery`, `OffsetsUniqueRecovery` |
| `durable` | the same, one value, one restart | a violation of `StoredReadable` |
| `prefix` | stores of 2, offsets to 5, one restart | `SnapshotIsPrefix`, `WipedIsInSnapshot` |
| `cluster` | 3 servers, 2 terms, 2 requests, 1 stop once a caller has an answer (`ClosedAfterAnswer`), restarts after it and after panics | `TypeOK`, `FirstLivesAgree`, `AckedEverywhere`, `AppliedInOrder`, `ImplementsReplicatedLog` |
| `compact` | 3 servers, 1 term, 2 requests, 1 kill and restart, 1 snapshot, segments of 2 | `CompactedInSnapshot`, `FollowersCatchUp` |
| `forget` | 3 servers, 4 terms, 2 requests, narrowed by `ShownThenForgotten` | a violation of `FirstLivesAlwaysAgree` |
| `replay` | 3 servers, 1 term, 2 requests, 1 stop and restart | a violation of `UserLogsAgree` |
| `converge` | 3 servers, 3 addresses, 4 starts, leaves or crashes, 1 more election | `TypeOK`, `Converged`, `MembersSettle` |
| `shutdown` | 3 callers, 1 producer with 2 requests, 1 consumer from offset 1, 1 record from elsewhere | `TypeOKAgent`, `HandlersEndBeforeLog`, `ShutdownOnce`, `SuccessMeansDown`, `ShutdownReturns`; `AnswersMatchRequests`, `ProducedInOrder`, `NoGapsInStream`, `TailDelivered` |
| `route` | 2 connections, 2 servers, 2 changes, 3 picks | `TypeOK`, `SettledRouting`, `RoundRobin`, `ProduceFindsLeader`, `LastDialledResolved` |

Why the bounds are enough: the log's instances have three segments, so one that is
first, one in the middle and an active one, full and not, and buffers that spill; every
test in the code compares neighbours. Two terms and two requests give a leader that is
lost with an entry of its own and a successor whose entry conflicts; a third term
repeats this. A cluster of three keeps its promises only as long as nobody has forgotten
entries; the theorems are about any cluster, and an instance of four servers, of which
one may forget, was checked with them. `ClosedAfterAnswer` leaves out the servers that
are closed before a caller has an answer to lose. `ShownThenForgotten` leads TLC to the
one deep state `forget` is about, and leaves out nothing that its trace needs. With a
noop and two requests, segments of two and one trailing entry, a snapshot deletes a
segment whose last entry it ends with while a follower still waits for it. Four changes
of membership let a server join, crash and come back elsewhere while another leaves. Two
requests of one stream tell a late, an early and a right answer apart. Two connections
are one that is dialled first and one that takes over; two servers make a follower and a
leader that change places, or two followers of nobody, and two changes let a leader be
lost and another elected within one answer.

Deadlock is checked in `one`, where the writer can always read. The other
instances stop where a bound is reached, where a process has panicked or failed
for good, or where every client has gone.

`cluster`, `forget` and `replay` identify the servers up to symmetry, which
the specification never tells apart; `recover` does so with the two values. They
check safety only (a refinement of `Abstract!Spec`, which has no fairness, is
safety). `compact`, which checks liveness, has no symmetry.

### Fairness

Liveness is checked in four runs. `converge` assumes that an event handler that can go
on does, that a shutdown reaches `log.Close`, that serf notices a dead member, that raft
elects a leader when it can and that a leader without majority steps down: goroutines
and timers that run in any live process. No server is assumed to start, leave or crash.
`compact` assumes `Progress`: as long as some server can apply, some leader commit, or
some leader send all that a follower lacks or overwrite its conflicting entries, one of
these steps is taken, which are raft's own goroutines; each step gets some server
further, so none is put off for ever. Elections, calls of `Append`, snapshots, stops,
kills and starts owe nothing, and `FollowersCatchUp` is about a follower that is in
touch with a leader for good. `shutdown` assumes that the goroutines of handlers and
callers run; clients owe nothing. `TailDelivered` is about a client that stays, and that
clients hang up is a hypothesis of `ShutdownReturns` itself, since nothing in the code
makes them. `route` assumes that a call of `ResolveNow` that was made goes on and that
its `GetServers`, which has no timeout, ends one way or the other, and that gRPC
connects to the addresses it is given and tells the balancer of a subconnection that it
connects anew.

## Where the code differs from what it says

Three runs end in a violation by design and are findings in `PROJECT.json`:

- `durable`: an index that was not closed keeps its padded size, and
  records in the store are not found after the next start (index.go:36-40,
  against log_test.go:67).
- `replay`: raft applies its log again after a start to a user log that
  already has the records (distributed.go:291), so one offset holds different
  records on two servers.
- `forget`: `DeleteRange(min, max)` truncates from the low end up to `max`
  (distributed.go:447, against 445), which in a conflict is the whole log, and the
  append behind it panics. The process that is started again has an empty raft log, its
  term and its vote, and helps to elect a leader without a committed request. Two
  servers that never stopped then hold different records at one offset (against
  distributed.go:227).

Others are part of the models, which therefore state their properties around
them, and have no run:

- `Reset` removes the directory it then reads, so it always fails, and with it
  `Restore` (log.go:214-220, distributed.go:366-371): `Reset` in `LogRecovery`,
  `Start` in `FsmSnapshot`, `StartFails` in `Replication`.
- A server that is killed may forget the last entries of its raft log
  (index.go:36) and then votes as if it never had them: `EntriesFound`, and the
  hypothesis `MajoritiesRemember`.
- A record acknowledged into a segment that a truncation has removed is in no file, and
  into an empty one the write faults (log.go:264): `AppendToRemoved`.
- `GetLog` returns the error of `Log.Read` for an entry that was compacted, where
  raft looks for `ErrLogNotFound` (distributed.go:414-425). A follower that is
  behind the leader's compaction is sent no snapshot and stays behind:
  `AppendEntries`, and the hypothesis of `FollowersCatchUp`.
- Two concurrent writers may rotate with a stale highest offset
  (log.go:142-152): with two `Writers`, `AckedReadable` fails. The program has one
  writer per log.
- `Truncate` also removes a segment whose highest offset equals `lowest`
  (log.go:244 says lower): `Expired`.
- A snapshot also holds records applied after `Snapshot` returned
  (distributed.go:299 says point-in-time), so `SnapshotIsPrefix` bounds it from
  below only.
- A leader that leaves is removed by nobody: its own handler skips the event and
  the others' calls are refused (distributed.go:584-585): `lost`.
- `Join` removes the id of the server that joins, not the entry with its
  address (distributed.go:565): `RemoveExisting`, and raft then refuses the voter.
- A server that comes back with another address before serf has noticed is an update
  of a member, which `eventHandler` ignores (membership.go:91-112): `stale`, and the
  exception in `Converged`.
- `ResolveNow` logs an error of `GetServers` and returns (resolver.go:95-102, against
  86-87); without subconnections nothing asks again, and the connection stays without
  servers: `ResolveFails`, and the exception in `LastDialledResolved`.
- A bootstrapping server that is started again waits for a leader before it
  serves raft's connections (agent.go:176, 89-96), so beside a cluster that has a
  leader its start fails after three seconds: `MayJoin`.
- A consumer that stays keeps `Shutdown` waiting for ever (agent.go:289), and a
  call after one that failed reports success (agent.go:278): the hypotheses of
  `ShutdownReturns` and `SuccessMeansDown`.
- The resolver is one per process, so a second connection takes over the first
  one's updates (resolver.go:41), which may never be told its servers:
  `LastDialledResolved` is about the last one, and `Alone` is a hypothesis of the
  others. A change of leader that breaks no connection is not noticed, nor is an
  answer given during an election corrected: `SettledRouting` and
  `ProduceFindsLeader` speak of what the servers were last said to be.

## Proofs

Every theorem is for all values of the constants under the assumptions named with
it, next to what the `ASSUME`s of the modules say of them (sizes are positive, the
servers a finite set, clients are producers or consumers, a call of `Join` is not
the value for having none, and so on).

### The log

`CommitLogProofs` proves, for a log with one writer (`SingleWriter`) and for every
size of store, index and buffer, initial offset and number of records:

| theorem | states | also needs |
|---|---|---|
| `LogInvHolds` | `Spec => []LogInv` | |
| `TypeCorrect` | `Spec => []TypeOK` | |
| `SegmentsTile` | `Spec => []Contiguous` | |
| `OffsetsGivenOnce` | `Spec => []OffsetsUnique` | |
| `ReadsAreStable` | `Spec => StableReads` | |
| `IndInvHolds` | `Spec => []IndInv` | `~WholeLog` |
| `AcknowledgedReadable` | `Spec => []AckedReadable` | `~WholeLog` |
| `ImplementsAbstractLogHolds` | `Spec => ImplementsAbstractLog` | `~WholeLog` |

`SingleWriter` is so of both logs: the only writer of the user log is raft's FSM
goroutine, that of raft's log its main loop. `~WholeLog`, that nobody truncates
through the highest offset, is so of the user log, which nothing truncates; raft's
log is truncated so in a conflict, and the first five theorems are about it too.

`AckedReadable` is not inductive. What a read returns depends on the index, the
store with its buffer, and on the segment found first; so `IndInv` says that in a
segment the sizes, the offset range and the contents agree and the k-th entry
points to the k-th record (`SegmentOK`), that the ranges follow each other and only
the active segment may be empty (`Chain`, `Contiguous`), that there are files for
exactly the listed segments (`FilesMatch`), that the offset a pending `Append` has
read is still the highest (`HighIsCurrent`), and that each acknowledged record is
where its offset says (`AckedStored`).

`LogInv` is what is left of it when everything may be truncated, also between the two
halves of an `Append`: the active segment is the last one or there is none (`Order`);
its sizes agree even when it is gone (`ActiveOK`); the offset a pending `Append` has
read is the last of the active segment whether or not it is still in the log
(`HighKnown`); what the log holds was acknowledged (`OnlyAcked`) and is where its
offset says (`AckedHeld`). `Kept` adds that the log is not empty and that what it no
longer holds was truncated; `LogInv /\ Kept` implies `IndInv`, and the proof goes by
these two.

There is one lemma per action. `AppendToNewLogInv` is the heart: since the offset
read before is that of the active segment, the new segment begins at its
`nextOffset`, its files do not exist yet (`RotationIsFresh`), and the chain grows by
one link, or begins anew. `TruncateLogInv` shows that the expired segments are a
beginning of the chain, `TruncateAllLogInv` that with the active one all of them
go. `FlushLogInv` rests on `Content` being the same before and after. `ReadHeld`
and `OneHolder` turn the invariant into what `Log.Read` returns.

Each lemma also says what the step does to what is held: `Quiet`, `Grows(r)`, or a
truncation. With `Shows` (what is acknowledged and held is read) reads are stable,
`ReadsStay`, and the refinement follows: `Grows(r)` is `AppendValue`
(`GrowsAppends`), a truncation that removes something is `DropBelow` at the base of
the first segment that stays, which is not empty (`TruncateDrops`), and the rest
changes nothing the abstract log shows (`QuietStutters`). TLC checks `IndInv` in run
`one`.

### The log across restarts

`RecoveryProofs` proves for `SpecRecovery`, with `SingleWriter`, `~WholeLog`, any
sizes and any number of restarts, whether or not the process may be killed:

| theorem | states |
|---|---|
| `RecoveryInvHolds` | `SpecRecovery => []RInv` |
| `TypeCorrectRecovery` | `SpecRecovery => []TypeOKRecovery` |
| `SetupOpensEachOnce` | `SpecRecovery => []EverySegmentOpenedOnce` |
| `RangesDisjoint` | `SpecRecovery => []SegmentsDisjoint` |
| `ReopenedReadable` | `SpecRecovery => []AckedReadableRecovery` |
| `ReopenedOffsetsUnique` | `SpecRecovery => []OffsetsUniqueRecovery` |

`RInv` goes along two tracks. Whatever was killed, a running log is `Usable` and the
files of one that is down are `FilesUsable`; as long as nothing was, the running log
has `LogInv` and `Kept` as before, and the files left by `Close` are `Closed`: with
the entries in use of its index and all of its store each segment tells how far it
went, and the segments still tile the offsets.

That each segment is opened once is a count. `setup` opens every other name of a
sorted list with one entry per file, so it stays in step as long as at most one file
is missing (`OpensEach`): the entries before a base offset are then even in number,
or odd with both files of the base still there. At most one is missing
(`LeftUsable`), because a truncation removes the index and the store of one expired
segment after the other: a segment without its index is the one whose rank among
them the step number gives (`KillInTruncateUsable`), and the ranks differ
(`RankFacts`). A rotation or a `setup` that is killed adds files to at most one base
offset that had none, and never takes one away.

That ranges stay disjoint rests on what `newSegment` reads: the last entry of the
file. After a kill this is the entry at the end of the mapping, which is zero unless
the index is full, and of an index that is not closed `newSegment` then makes a range of one
offset. `EntriesWithin` says of both entries that can become the last one that they
do not reach into the next segment. `EmptyActive` is needed for the rotation: a
segment that is full by its store while its index is empty would have its next one
begin at its own base offset, on its own files. It says that the active segment never
is such a one, even when files were lost.

Opening puts the base offsets in their order (`OpenShape`, by `RankedFacts`: every
number below the count of a finite set is the rank of one of its elements); what
comes back is `Usable` (`OpenUsable`), and the log that went if it was `Closed`
(`OpenLogInv`).

### The state machine and its snapshots

`RecoveryProofs` goes on to `FsmSnapshot` and proves, with `SingleWriter` alone (the
writer is raft's FSM goroutine; nothing in this specification truncates), for any
sizes, initial offset and number of restarts:

| theorem | states |
|---|---|
| `FsmInvHolds` | `SpecFsm => []FInv` |
| `SnapshotsArePrefixes` | `SpecFsm => []SnapshotIsPrefix` |
| `WipedRecordsAreInSnapshot` | `SpecFsm => []WipedIsInSnapshot` |

`SnapshotIsPrefix` speaks of what the log reads, which is nothing once the process is
down or the log is wiped. `FInv` therefore says what a snapshot has in terms of what
was acknowledged: its records are acknowledged ones with the offsets from the initial
one on, one after the other (`AckedPrefix`), and enough of them (`SnapfileOK`). This
survives every restart, and as offsets are unique and acknowledged records are read
back, it is the beginning of any log that runs (`PrefixIsRead`) and all there is to
know of one that was wiped.

`ReaderOK` is the same while `Persist` is at work: what is copied ends where the part
of the current segment that is read ends, and what is left to do are the segments from
that one to some `last` that covers what `Snapshot` promised. It is disturbed by
appends, which may rotate, and by the flush each read makes; `Extends` says what these
have in common, that records come behind those there are and segments behind the last
(`LogStepKept`, `ReaderKept`). `PersistReadReader` is the copy of some records,
`PersistNextReader` the end of a store: the segments tile the offsets, so the next one
begins with the record that is due. That the first store begins with the first record
of all needs `BeginsAtInitial`: the file of the initial offset is always there, through
`Close`, `setup` and rotations.

### The replicated log

`ReplicationProofs` proves for `Replication`, with any finite set of servers and any
number of terms, requests, stops, kills, snapshots, trailing entries and entries a
segment holds:

| theorem | states |
|---|---|
| `IInvHolds` | `Spec => []IInv` |
| `TypeOKHolds` | `Spec => []TypeOK` |
| `FirstLivesAgreeHolds` | `Spec => []FirstLivesAgree` |
| `AckedEverywhereHolds` | `Spec => []AckedEverywhere` |
| `AppliedInOrderHolds` | `Spec => []AppliedInOrder` |
| `CompactedInSnapshotHolds` | `Spec => []CompactedInSnapshot` |
| `ImplementsReplicatedLogHolds` | `Spec => ImplementsReplicatedLog` |
| `NoRequestTwice` | while majorities remember, no request is twice in the user log of a server in its first life |

The argument is shorter than raft's own, because of what the code does in a
conflict: `DeleteRange` empties the follower's log and the append behind it panics
(`OverwritePanics`), so a running server never replaces what it stores under an index.
A start can take entries away, at the end of a log that was killed or all of one that
panicked, and then the server is in `forgot` (`NextKeepsLogs`). A part of a log that a
majority has stored (`Safe`) is then kept for good by those of the majority that forgot
nothing. Two majorities meet, while majorities remember in a server that forgot nothing
(`RememberMeet`), so of two such parts one begins the other (`SafeAgree`); no rule about
which candidate may be elected is needed for that. A commit index covers such a part
(`CommitSafe`), because what a leader counts was stored by a server, which still stores
it unless it forgot it (`MatchHolds`). The user log of a server in its first life is
what `fsm.Apply` makes of one (`FirstLivesSafe`), and an answered request is in one
(`AckedSafe`). Below this lie one leader per term (`OneLeader`, which a start leaves
alone because the term survives it), logs that agree up to every entry of the same term
(`LogMatching`), and requests stored at one index (`ValuesOnce`).

When majorities no longer remember, `Safe` holds of parts that contradict each other,
and nothing follows; `AppliedInOrder` and `CompactedInSnapshot` hold all the same.

For servers that were started again `AppliedEnds` says that their user log ends with
what raft has applied since, and `SnapshotEnds` the same of a snapshot;
`CompactionBounds` relates `first`, the snapshot and the trailing entries, and is
where `DeleteRange`'s rounding to whole segments enters.

`Requests`, the requests among the first entries of a log, is a recursive function.
What it yields (`RequestsDef`, `RequestsGrow`, `RequestsOfSame`) is proved with
`SetInduction` of `SetLemmas`: induction over the set of the numbers a claim holds
for, which takes no operator as a parameter.

`ReplicatedLogProofs` proves `ReplicatedLogCorrect`: in a replicated log of any
servers and records the members agree (`Agreement`) and repeat nothing
(`NoRepeat`). The two are inductive only together. `NoRequestTwice` is this theorem
read through the refinement.

### The streams

`AgentProofs` proves for `LogServer`, the streams of one server, with any clients, requests,
permissions and offsets, and a raft that refuses requests, loses them or applies
them after having given up on them:

| theorem | states |
|---|---|
| `ServerInvHolds` | `Spec => []ServerInv` |
| `ServerTypeOKHolds` | `Spec => []TypeOK` |
| `AnswersMatchRequestsHolds` | `Spec => []AnswersMatchRequests` |
| `ProducedInOrderHolds` | `Spec => []ProducedInOrder` |
| `NoGapsInStreamHolds` | `Spec => []NoGapsInStream` |

In the invariant the requests in a handler's inbox are those sent last (`Inboxes`),
the log has nothing the handler has not taken yet (`LogBehind`), a request `Append`
gave up on is the last its handler took (`AdriftLast`), so that it may come into the
log late but not out of order, and each handler has answered or sent what its place
in its loop says (`Answering`, `Streaming`).

### The shutdown

The same module proves for `SpecAgent`, with any producers, consumers, permissions,
requests and offsets:

| theorem | states |
|---|---|
| `LogClosedLast` | `SpecAgent => []HandlersEndBeforeLog` |
| `OneShutdown` | `SpecAgent => []ShutdownOnce` |
| `SuccessIsDown` | `SpecAgent => []SuccessMeansDown` |
| `StreamsAreServed` | `SpecAgent => Spec` |
| `TypeOKAgentHolds` | `SpecAgent => []TypeOKAgent` |
| `StreamsStayInOrder` | the three promises of `LogServer`, for `SpecAgent` |

The invariant is `IInv`: a caller is at work exactly if it holds the lock
(`LockHeld`), the list was begun exactly if the flag is set (`FlagSet`), the caller
at work has behind it what its place in the list says (`DoneSoFar`), and a shutdown
that was begun is going on, has failed, or has closed the log (`Begun`). That the
log is closed last (`LogLast`) would not be inductive without `DoneSoFar`, nor
`SuccessMeansDown` without `Begun`: a caller that finds the flag set reports success
at once, because it waited for the lock. `StreamsStayEnded` is where the streams
come in: with the listener closed and no handler running, none runs again.

`StreamsAreServed` is a refinement: a server that may be shut down takes only steps
the server alone may take, so what is proved of the streams holds through a
shutdown.

### The membership

`MembershipProofs` proves for `Membership`, with any finite set of servers, any
addresses and any number of starts, departures, crashes and elections, and whether or
not the handlers run fairly:

| theorem | states |
|---|---|
| `MembershipTypeOKHolds` | `Spec => []TypeOK` |
| `ConvergedHolds` | `Spec => []Converged` |

`Converged` is about a leader that is done with its events; the invariant `IInv` is
about one in the middle of them. What they say of a member's address they say unless the
member is `stale`, which one is from its return with another address to the event of its
failure or departure; the member stays in raft's configuration all the while. The last
event about a member that the leader has in its queue, or else the call of `Join` it is
in, says of the member what serf knows (`Right`), and when there is neither, raft's
configuration does (`Settled`): together this is `Heeded`, for every member that is not
lost (`AllHeeded`). An event that arrives is the last one and right; one that is handled
was either not the last, or makes the member settled or the leader step down. When the
leader changes, whoever had an event under way is lost, and all the others were settled,
with which the next leader can begin, whatever old events its own queue holds: their
members are lost too. A leader that is leaving still handles events, which can harm
nobody who is not lost already (`OthersHarmless`). `OneEach`, that no two voters have
one id or one address, is what keeps the removal for one server from taking away
another, and the number of entries in the way of a join below three (`AtMostTwoClash`).

### The load balancing

`LoadBalanceProofs` proves for `LoadBalance`, with any connections, any finite set of
servers and any number of calls and changes:

| theorem | states |
|---|---|
| `IInvHolds` | `Spec => []IInv` |
| `TypeOKHolds` | `Spec => []TypeOK` |
| `SettledRoutingHolds` | `Spec => []SettledRouting` |
| `RoundRobinHolds` | `Spec => []RoundRobin` |

In the invariant, what is stored when a connection is dialled is there from then on
(`Dialled`), so a resolution has a connection to go out on and one to update; as long as
a connection is alone, the picker fits what that connection has ready, whether or not
all of it is (`PickerFits`), except while a subconnection that got another attribute has
not been connected anew, since `UpdateState` does not build the picker; no follower is
in the list twice (`FollowersOnce`); and the picks since the last `Build` are those of
consecutive counters (`PicksInTurn`), which differ modulo the number of followers
(`RemaindersDiffer`).

### What the proofs changed

- `TypeOK` of `LogServer` bounded offsets by `MaxLog`; that is false of a consumer
  that begins beyond it, which the instance does not have. It now says what is true.
- The entries of a log that panics stay in `raftLog` until its server is started again,
  all marked deleted by `first`: it is the start that forgets, whatever the end of the
  process was. `TypeOK` says which `first` goes with which log.
- An earlier `Replication` let a server that panicked never start again. Its agreement
  then needed no hypothesis; with the start there is a counterexample (run `forget`), and
  `MajoritiesRemember` is what the proof turned out to need instead.
- Contiguous segments, types, unique offsets and stable reads turned out to need
  no assumption about truncation at all.
- `Membership` assumed neither that the servers are finitely many, which a majority
  of them takes, nor that `Idle`, which stands for no call of `Join`, is not one.

### What stays with TLC

Liveness (`FollowersCatchUp`, `MembersSettle`, `ShutdownReturns`, `TailDelivered`,
`ProduceFindsLeader`, `LastDialledResolved`) and anything with ENABLED, which the
provers do not handle, and induction with an operator as a parameter. Every safety
property a passing run checks is proved; what the other three runs show is a
counterexample on an instance. `IndInv` is an invariant of run `one`; `RInv`, `FInv`
and the `IInv` of `MembershipProofs`, which no run lists, were checked on the instances
of `recover`, `prefix` and `converge` before they were proved.

## Not modelled

- The stream layer of raft (one byte and TLS in front of a connection), TLS and
  file configuration, flags, the tool that prints the servers, the generated API,
  the deployment: no state, or pure I/O.
- The policy behind `Authorize`: the models let a client through or not.
- The HTTP prototype (`server/http.go`, `server/log.go`), which no command uses: a
  slice appended to under a lock and read without one, where a read at the offset
  behind the last record is out of range. The replicator, which is commented out.
- raft's own snapshots to a follower, which the code never gets it to send, and
  configuration entries in raft's log (`Membership` has the configuration).
- Errors of the file system, torn writes and crashes of the machine.
- Encodings and integer widths: offsets relative to a segment fit 32 bits for
  every segment size the code can map.

## Plan

In this order, the most important behaviour first; all of it is done.

1. `CommitLog`, `AbstractLog` and the refinement between them. 2. `LogRecovery`: clean
restarts, then kills. 3. `Replication`: the raft log store and the FSM over an abstract
log. 4. `FsmSnapshot`, `Membership`. 5. `LogServer`, `Agent`, `LoadBalance`. 6. Proofs:
the inductive invariant of `CommitLog` and what follows from it. 7. raft's compaction in
`Replication`, the start of an agent, two connections in `LoadBalance`, `ReplicatedLog`
and the refinement. 8. Proofs: the shutdown of `Agent`, the theorem of `ReplicatedLog`.
9. Proofs: `LogInv` and the refinement of `AbstractLog`; `LogRecovery` over it; the
invariants of `Replication` and the refinement of `ReplicatedLog`; the streams of
`LogServer`; `LoadBalance`. 10. Proofs: `FsmSnapshot` over `RInv`; `Membership`.
