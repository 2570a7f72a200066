----------------------------- MODULE Replication -----------------------------
(***************************************************************************)
(* internal/log/distributed.go: a cluster of servers, each with a log store*)
(* for raft and a user log behind raft's FSM.                              *)
(*                                                                         *)
(* hashicorp/raft is external and kept coarse: an election and an exchange *)
(* of AppendEntries are one step each, a leader knows at once what its     *)
(* followers store, configuration entries are left out.  What it does with *)
(* the LogStore and the FSM of this repository is kept: which entries it   *)
(* stores, deletes and applies, in which order, and what it forgets when a *)
(* server stops.  Both logs are sequences here (module CommitLog).  What a *)
(* start finds of logs that were not closed is a choice of their beginnings*)
(* (module LogRecovery has the files).  A snapshot is taken, and the log of*)
(* raft compacted, in one step (module FsmSnapshot has the steps, and the  *)
(* start on a snapshot).                                                   *)
(***************************************************************************)
EXTENDS Naturals, Sequences, SequencesExt, FiniteSets, FiniteSetsExt

CONSTANTS
  Servers,
  MaxTerm,      \* bound: terms of the elections
  MaxProduced,  \* bound: calls of Append
  MaxStops,     \* bound: servers closed, and maybe started again
  MaxKills,     \* bound: servers killed, and maybe started again
  MaxSnapshots, \* bound: snapshots taken
  SegEnts,      \* the most entries a segment of the log store takes
  Trailing,     \* raft's TrailingLogs: entries it keeps behind a snapshot
  Noop          \* the entry a new leader appends

ASSUME BoundsAssumption ==
  /\ MaxTerm \in Nat /\ MaxProduced \in Nat
  /\ MaxStops \in Nat /\ MaxKills \in Nat /\ MaxSnapshots \in Nat
ASSUME SizesAssumption == SegEnts \in Nat \ {0} /\ Trailing \in Nat \ {0}
ASSUME NoopAssumption == Noop \notin Nat
ASSUME ServersAssumption == IsFiniteSet(Servers)

VARIABLES
  role,      \* "follower", "leader", "stopped", "killed", "panicked", or
             \* "failed" to start
  term,      \* raft's current term, in the stable store
  raftLog,   \* what was put in the log store: the k-th entry has index k
  first,     \* its first entry that was not deleted, maybe none
  match,     \* a leader's match index of each follower: what it acknowledged
  snapshot,  \* raft's snapshot: its last index, 0 without one, and its records
  commit,    \* raft's commit index, in memory
  applied,   \* the last index raft gave to the FSM, in memory
  userLog,   \* the user log: the k-th record has offset k - 1
  futures,   \* calls of raft.Apply not answered yet
  produced,  \* how many requests were made: request n carries the value n
  stops, kills, snapshots,
  acked,     \* history: what Append answered on a server in its first life
  reopened,  \* history: the servers started again
  forgot     \* history: those that found less in their log store than they had put

vars == <<role, term, raftLog, first, match, snapshot, commit, applied, userLog,
          futures, produced, stops, kills, snapshots, acked, reopened, forgot>>
storeVars == <<first, snapshot, snapshots>>
lifeVars == <<stops, kills, reopened, forgot>>

Entry == [term : Nat, value : Nat \cup {Noop}]

Up == {s \in Servers : role[s] \in {"follower", "leader"}}
Nothing == [s \in Servers |-> 0]
Quorums == {Q \in SUBSET Servers : 2 * Cardinality(Q) > Cardinality(Servers)}

Init ==
  /\ role = [s \in Servers |-> "follower"]
  /\ term = [s \in Servers |-> 0]
  /\ raftLog = [s \in Servers |-> <<>>]
  /\ first = [s \in Servers |-> 1]
  /\ match = [s \in Servers |-> Nothing]
  /\ snapshot = [s \in Servers |-> [index |-> 0, records |-> <<>>]]
  /\ commit = [s \in Servers |-> 0]
  /\ applied = [s \in Servers |-> 0]
  /\ userLog = [s \in Servers |-> <<>>]
  /\ futures = {}
  /\ produced = 0
  /\ stops = 0
  /\ kills = 0
  /\ snapshots = 0
  /\ acked = {}
  /\ reopened = {}
  /\ forgot = {}

(***************************************************************************)
(* logStore: raft's view of a log                                          *)
(***************************************************************************)

LastIndex(s) == Len(raftLog[s])
LastTerm(s) == IF raftLog[s] = <<>> THEN 0 ELSE Last(raftLog[s]).term

\* StoreLogs appends; the index a record carries is not looked at.
StoreLogs(log, records) == log \o records

\* Wrong: the last entry is taken for the one to come.
HasEntryBelowLast(s, n) == first[s] <= n /\ n < LastIndex(s)

\* GetLog is Log.Read.  Its error for an entry that is not there is not the one
\* raft looks for to send a snapshot instead.
HasEntry(s, n) == first[s] <= n /\ n <= LastIndex(s)

\* Wrong: the segment that max is in goes as a whole.
DeleteRangeWhole(s, min, max) ==
  IF max >= LastIndex(s) THEN {LastIndex(s) + 1}
  ELSE {Max({first[s], max + 1 + d}) : d \in 0..(SegEnts - 1)}

\* DeleteRange(min, max) is Truncate(max): min is not looked at, and the segments
\* go that have no entry above max.  These are the first entries that may be left:
\* the one behind max is in a segment that may have begun some entries before.
DeleteRange(s, min, max) ==
  IF max >= LastIndex(s) THEN {LastIndex(s) + 1}
  ELSE {Max({first[s], max + 1 - d}) : d \in 0..(SegEnts - 1)}

(***************************************************************************)
(* raft                                                                    *)
(***************************************************************************)

UpToDate(s, t) ==
  \/ LastTerm(s) > LastTerm(t)
  \/ LastTerm(s) = LastTerm(t) /\ LastIndex(s) >= LastIndex(t)

\* A majority votes for s.  A leader among the voters steps down and answers
\* its callers with ErrLeadershipLost.
Elect(s, Q) ==
  LET new == Max({term[q] : q \in Q}) + 1
  IN  /\ Q \in Quorums /\ Q \subseteq Up /\ s \in Q
      /\ new <= MaxTerm
      /\ \A q \in Q : UpToDate(s, q)
      /\ term' = [q \in Servers |-> IF q \in Q THEN new ELSE term[q]]
      /\ role' = [q \in Servers |-> CASE q = s -> "leader"
                                      [] q \in Q \ {s} -> "follower"
                                      [] OTHER -> role[q]]
      /\ raftLog' = [raftLog EXCEPT ![s] =
                       StoreLogs(@, <<[term |-> new, value |-> Noop]>>)]
      /\ match' = [q \in Servers |-> IF q \in Q THEN Nothing ELSE match[q]]
      /\ futures' = {f \in futures : f.server \notin Q}
      /\ UNCHANGED <<storeVars, lifeVars, commit, applied, userLog, produced, acked>>

\* DistributedLog.Append: apply hands the request to raft, which stores it in
\* the leader's log; on another server raft.Apply fails and nothing changes.
Produce(s) ==
  /\ role[s] = "leader"
  /\ produced < MaxProduced
  /\ produced' = produced + 1
  /\ raftLog' = [raftLog EXCEPT ![s] =
                   StoreLogs(@, <<[term |-> term[s], value |-> produced']>>)]
  /\ futures' = futures \cup {[server |-> s, index |-> LastIndex(s) + 1]}
  /\ UNCHANGED <<storeVars, lifeVars, role, term, match, commit, applied, userLog, acked>>

\* raft takes two logs for the same up to an index if the terms there are.
Agree(s, t, n) ==
  n <= LastIndex(s) /\ n <= LastIndex(t) /\ raftLog[s][n].term = raftLog[t][n].term

\* How far two logs are the same.
Common(s, t) == Max({n \in 1..LastIndex(s) : Agree(s, t, n)} \cup {0})

FollowerOf(l, f) ==
  /\ role[l] = "leader" /\ f \in Up \ {l}
  /\ term[f] <= term[l]
  /\ term' = [term EXCEPT ![f] = term[l]]
  /\ futures' = {x \in futures : x.server # f}

\* The entry that raft sends along to be compared.
HasPrevious(l, m) == m = 0 \/ m = snapshot[l].index \/ HasEntry(l, m)

\* The leader sends n entries behind the last one both have, if it finds them, and
\* notes that they were stored; a heartbeat needs none.  An error of GetLog ends
\* the attempt.
AppendEntries(l, f, n) ==
  LET m == Common(l, f)
  IN  /\ FollowerOf(l, f)
      /\ n = 0 \/ (LastIndex(f) = m /\ HasPrevious(l, m) /\ HasEntry(l, m + 1))
      /\ role' = [role EXCEPT ![f] = "follower"]
      /\ raftLog' = [raftLog EXCEPT ![f] = StoreLogs(@, SubSeq(raftLog[l], m + 1, m + n))]
      /\ match' = [match EXCEPT ![l][f] = IF n = 0 THEN @ ELSE Max({@, m + n}),
                                ![f] = Nothing]
      /\ commit' = IF HasPrevious(l, m)
                   THEN [commit EXCEPT ![f] = Max({@, Min({commit[l], m + n})})] ELSE commit
      /\ UNCHANGED <<storeVars, lifeVars, applied, userLog, produced, acked>>

\* The follower has other entries there: raft deletes them from the log store
\* and stores the leader's.  A log without segments has no last segment, and
\* Log.HighestOffset, the first thing Append does, panics.
Conflict(l, f) == LastIndex(f) > Common(l, f) /\ LastIndex(l) > Common(l, f)

OverwriteConflict(l, f) ==
  LET m == Common(l, f)
  IN  /\ FollowerOf(l, f)
      /\ Conflict(l, f)
      /\ HasPrevious(l, m) /\ HasEntry(l, m + 1)
      /\ m = 0 \/ HasEntry(f, m)
      /\ \E n \in DeleteRange(f, m + 1, LastIndex(f)) : first' = [first EXCEPT ![f] = n]
      /\ IF first'[f] > LastIndex(f)
         THEN /\ role' = [role EXCEPT ![f] = "panicked"]
              /\ commit' = [commit EXCEPT ![f] = 0]
              /\ applied' = [applied EXCEPT ![f] = 0]
              /\ match' = [match EXCEPT ![f] = Nothing]
              /\ UNCHANGED raftLog
         ELSE /\ role' = [role EXCEPT ![f] = "follower"]
              /\ raftLog' = [raftLog EXCEPT ![f] =
                               StoreLogs(@, SubSeq(raftLog[l], m + 1, LastIndex(l)))]
              /\ match' = [match EXCEPT ![l][f] = LastIndex(l), ![f] = Nothing]
              /\ UNCHANGED <<commit, applied>>
      /\ UNCHANGED <<lifeVars, snapshot, snapshots, userLog, produced, acked>>

\* The leader counts itself and what the followers have acknowledged to it, those
\* that are down by now too.
AdvanceCommit(l, n) ==
  /\ role[l] = "leader"
  /\ commit[l] < n /\ n <= LastIndex(l)
  /\ raftLog[l][n].term = term[l]
  /\ \E Q \in Quorums : \A q \in Q : q = l \/ n <= match[l][q]
  /\ commit' = [commit EXCEPT ![l] = n]
  /\ UNCHANGED <<storeVars, lifeVars, role, term, raftLog, match, applied, userLog,
                 futures, produced, acked>>

(***************************************************************************)
(* The FSM and the life of a server                                        *)
(***************************************************************************)

\* Wrong: raft's own entries are appended to the user log too.
ApplyNoop(s) ==
  LET n == applied[s] + 1
  IN  /\ s \in Up
      /\ n <= commit[s] /\ HasEntry(s, n)
      /\ applied' = [applied EXCEPT ![s] = n]
      /\ userLog' = [userLog EXCEPT ![s] = Append(@, raftLog[s][n].value)]
      /\ UNCHANGED <<storeVars, lifeVars, role, term, raftLog, match, commit, futures,
                     produced, acked>>

\* Wrong: the record is appended only where a caller waits for its offset.
ApplyIfAwaited(s) ==
  LET n == applied[s] + 1
      waiting == {f \in futures : f.server = s /\ f.index = n}
  IN  /\ s \in Up
      /\ n <= commit[s] /\ HasEntry(s, n)
      /\ applied' = [applied EXCEPT ![s] = n]
      /\ userLog' = IF waiting = {} THEN userLog
                    ELSE [userLog EXCEPT ![s] = Append(@, raftLog[s][n].value)]
      /\ futures' = futures \ waiting
      /\ UNCHANGED <<storeVars, lifeVars, role, term, raftLog, match, commit, produced, acked>>

\* Wrong: the answer is the offset the next record will get.
ApplyAnswersNext(s) ==
  LET n == applied[s] + 1
      e == raftLog[s][n]
      waiting == {f \in futures : f.server = s /\ f.index = n}
  IN  /\ s \in Up
      /\ n <= commit[s] /\ HasEntry(s, n)
      /\ applied' = [applied EXCEPT ![s] = n]
      /\ userLog' = IF e.value = Noop THEN userLog
                    ELSE [userLog EXCEPT ![s] = Append(@, e.value)]
      /\ acked' = IF s \in reopened THEN acked
                  ELSE acked \cup {[offset |-> Len(userLog[s]) + 1, value |-> e.value] : f \in waiting}
      /\ futures' = futures \ waiting
      /\ UNCHANGED <<storeVars, lifeVars, role, term, raftLog, match, commit, produced>>

\* fsm.Apply of the next committed entry: a request is appended to the user
\* log, and its offset is the answer if the caller still waits for it.
ApplyEntry(s) ==
  LET n == applied[s] + 1
      e == raftLog[s][n]
      waiting == {f \in futures : f.server = s /\ f.index = n}
  IN  /\ s \in Up
      /\ n <= commit[s] /\ HasEntry(s, n)
      /\ applied' = [applied EXCEPT ![s] = n]
      /\ userLog' = IF e.value = Noop THEN userLog
                    ELSE [userLog EXCEPT ![s] = Append(@, e.value)]
      /\ acked' = IF s \in reopened THEN acked
                  ELSE acked \cup {[offset |-> Len(userLog[s]), value |-> e.value] : f \in waiting}
      /\ futures' = futures \ waiting
      /\ UNCHANGED <<storeVars, lifeVars, role, term, raftLog, match, commit, produced>>

\* The last index that came to the FSM, which gets requests only.
LastRequest(s) == Max({k \in 1..applied[s] : raftLog[s][k].value # Noop} \cup {0})

\* fsm.Snapshot, Persist, and what raft does then: it deletes the entries that
\* are in the snapshot but for the trailing ones.
TakeSnapshot(s) ==
  LET index == LastRequest(s)
      max   == Min({index, LastIndex(s) - Trailing})
  IN  /\ s \in Up
      /\ snapshots < MaxSnapshots
      /\ index > snapshot[s].index
      /\ snapshots' = snapshots + 1
      /\ snapshot' = [snapshot EXCEPT ![s] = [index |-> index, records |-> userLog[s]]]
      /\ IF LastIndex(s) <= Trailing THEN UNCHANGED first
         ELSE \E n \in DeleteRange(s, first[s], max) : first' = [first EXCEPT ![s] = n]
      /\ UNCHANGED <<lifeVars, role, term, raftLog, match, commit, applied, userLog, futures,
                     produced, acked>>

\* What is in memory goes with the process.
Stop(s, how) ==
  /\ s \in Up
  /\ role' = [role EXCEPT ![s] = how]
  /\ commit' = [commit EXCEPT ![s] = 0]
  /\ applied' = [applied EXCEPT ![s] = 0]
  /\ match' = [match EXCEPT ![s] = Nothing]
  /\ futures' = {f \in futures : f.server # s}
  /\ UNCHANGED <<storeVars, term, raftLog, userLog, produced, acked, reopened, forgot>>

\* DistributedLog.Close: raft stops, both logs are closed.
Close(s) ==
  /\ Stop(s, "stopped")
  /\ stops < MaxStops
  /\ stops' = stops + 1
  /\ UNCHANGED kills

\* The process ends without Close.
Kill(s) ==
  /\ Stop(s, "killed")
  /\ kills < MaxKills
  /\ kills' = kills + 1
  /\ UNCHANGED stops

\* How many entries a start finds in the log store: all of them if it was closed,
\* none after OverwriteConflict.  An index that was not closed (index.go:36) lets
\* its segment forget all but the first entry, unless it was full; NewRaft reads
\* every entry and fails if one of an earlier segment is forgotten.
EntriesFound(s) ==
  CASE role[s] = "stopped"  -> {LastIndex(s)}
    [] role[s] = "killed"   -> {n \in 1..LastIndex(s) : LastIndex(s) - n < SegEnts}
    [] role[s] = "panicked" -> {0}
    [] OTHER                -> {}

\* How many records it finds in the user log, which a panic does not close either.
RecordsFound(s) ==
  IF role[s] = "stopped" THEN {Len(userLog[s])} ELSE 0..Len(userLog[s])

\* NewDistributedLog on the same directory: both logs are opened with what is in
\* them, raft keeps its term and its vote and knows no commit index.
NewDistributedLog(s) ==
  /\ snapshot[s].index = 0
  /\ \E n \in EntriesFound(s), k \in RecordsFound(s) :
       /\ raftLog' = [raftLog EXCEPT ![s] = SubSeq(@, 1, n)]
       /\ userLog' = [userLog EXCEPT ![s] = SubSeq(@, 1, k)]
       /\ forgot' = IF n < LastIndex(s) THEN forgot \cup {s} ELSE forgot
  /\ first' = [first EXCEPT ![s] = 1]
  /\ role' = [role EXCEPT ![s] = "follower"]
  /\ reopened' = reopened \cup {s}
  /\ UNCHANGED <<term, match, snapshot, snapshots, commit, applied, futures, produced,
                 stops, kills, acked>>

\* It fails if there is a snapshot: Restore resets the user log first, which fails
\* with the log wiped.  It also fails if NewRaft cannot read an entry of its log.
StartFails(s) ==
  /\ role[s] \in {"stopped", "killed", "panicked"}
  /\ \/ /\ snapshot[s].index # 0
        /\ userLog' = [userLog EXCEPT ![s] = <<>>]
     \/ /\ role[s] = "killed"
        /\ UNCHANGED userLog
  /\ role' = [role EXCEPT ![s] = "failed"]
  /\ reopened' = reopened \cup {s}
  /\ UNCHANGED <<storeVars, term, raftLog, match, commit, applied, futures, produced,
                 stops, kills, acked, forgot>>

Next ==
  \/ \E s \in Servers, Q \in Quorums : Elect(s, Q)
  \/ \E s \in Servers : Produce(s)
  \/ \E l, f \in Servers : \E n \in 0..(LastIndex(l) - Common(l, f)) : AppendEntries(l, f, n)
  \/ \E l, f \in Servers : OverwriteConflict(l, f)
  \/ \E l \in Servers : \E n \in 1..LastIndex(l) : AdvanceCommit(l, n)
  \/ \E s \in Servers : ApplyEntry(s)
  \/ \E s \in Servers : TakeSnapshot(s)
  \/ \E s \in Servers : Close(s)
  \/ \E s \in Servers : Kill(s)
  \/ \E s \in Servers : NewDistributedLog(s)
  \/ \E s \in Servers : StartFails(s)

Spec == Init /\ [][Next]_vars

\* raft's goroutines keep running: leaders send all they have and commit, servers
\* overwrite and apply, and each of these steps gets one of them further.  Elections, callers
\* and the life of a server owe nothing.
Progress ==
  \/ \E s \in Servers : ApplyEntry(s)
  \/ \E l \in Servers : \E n \in 1..LastIndex(l) : AdvanceCommit(l, n)
  \/ \E l, f \in Servers :
       AppendEntries(l, f, LastIndex(l) - Common(l, f)) \/ OverwriteConflict(l, f)

FairSpec == Spec /\ WF_vars(Progress)

(***************************************************************************)
(* Properties                                                              *)
(***************************************************************************)

TypeOK ==
  /\ role \in [Servers -> {"follower", "leader", "stopped", "killed", "panicked", "failed"}]
  /\ term \in [Servers -> 0..MaxTerm]
  /\ \A s \in Servers : raftLog[s] \in Seq(Entry) /\ snapshot[s].index <= LastIndex(s)
  /\ \A s \in Servers : first[s] \in 1..(IF role[s] \in {"panicked", "failed"}
                                         THEN LastIndex(s) + 1 ELSE Max({1, LastIndex(s)}))
  /\ \A l, f \in Servers : match[l][f] <= (IF role[l] = "leader" THEN LastIndex(l) ELSE 0)
  /\ \A s \in Servers : applied[s] <= commit[s]
  /\ \A s \in Servers : userLog[s] \in Seq(1..MaxProduced)
  /\ \A f \in futures : role[f.server] = "leader"

OneBeginsOther(s, t) == IsPrefix(userLog[s], userLog[t]) \/ IsPrefix(userLog[t], userLog[s])

\* One user log is the beginning of the other: the servers that read locally
\* (distributed.go:249) never give different records for one offset.
UserLogsAgree == \A s, t \in Servers : OneBeginsOther(s, t)

FirstLives == Servers \ reopened

\* So do those of the servers in their first life, whoever they vote for and
\* whatever the ones that were started again feed into raft.
FirstLivesAlwaysAgree == \A s, t \in FirstLives : OneBeginsOther(s, t)

\* Any two majorities share a server whose log store lost nothing.  With three
\* servers none may be started again after a panic (log.go:252) or a kill
\* (index.go:36) that cost it entries of raft; with four, one may.
MajoritiesRemember == forgot = {} \/ \A P, Q \in Quorums : (P \cap Q) \ forgot # {}

\* While majorities remember, the servers in their first life agree, whatever the
\* others feed into raft.  Otherwise a server that forgot an entry may vote for a
\* leader that never had it (FirstLivesAlwaysAgree).
FirstLivesAgree == MajoritiesRemember => FirstLivesAlwaysAgree

\* While majorities remember, the offset Append answered holds the caller's record
\* on every server in its first life that has that offset, whatever leaders were
\* elected in between (distributed.go:227).
AckedEverywhere ==
  MajoritiesRemember =>
    \A r \in acked, s \in FirstLives :
      Len(userLog[s]) > r.offset => userLog[s][r.offset + 1] = r.value

\* The requests among the first n entries of a log.
Requests(log, n) ==
  LET upTo[k \in 0..Len(log)] ==
        IF k = 0 THEN <<>>
        ELSE IF log[k].value = Noop THEN upTo[k - 1]
        ELSE Append(upTo[k - 1], log[k].value)
  IN  upTo[n]

\* However often a server was restarted, after a kill or a panic too, its user log
\* ends with the requests raft has applied since, in their order: none is skipped
\* or reordered.
AppliedInOrder ==
  \A s \in Up : IsSuffix(Requests(raftLog[s], applied[s]), userLog[s])

\* What was deleted from a server's raft log, which nobody can be sent any more,
\* is in the server's snapshot, in order, and the trailing entries are left,
\* although DeleteRange works by segments (distributed.go:448).
CompactedInSnapshot ==
  \A s \in Servers :
    /\ role[s] \notin {"panicked", "failed"} =>
         first[s] <= Min({snapshot[s].index, Max({LastIndex(s) - Trailing, 0})}) + 1
    /\ IsSuffix(Requests(raftLog[s], snapshot[s].index), snapshot[s].records)

\* The leader l has what it needs to bring f up to date: f is not behind what l
\* has compacted, and has not compacted itself what it needs to see a conflict.
CanFollow(l, f) ==
  /\ f \in Up /\ term[f] <= term[l]
  /\ first[l] = 1 \/ Common(l, f) >= first[l]
  /\ Conflict(l, f) => Common(l, f) = 0 \/ HasEntry(f, Common(l, f))

\* The servers in touch with the leader l that can follow, if they are a majority.
Following(l) ==
  LET F == {f \in Servers : CanFollow(l, f)}
  IN  IF role[l] = "leader" /\ F \in Quorums THEN F ELSE {}

\* Every server that stays up gets and applies all that the leader has, if it
\* keeps ahead of the leader's compaction.  There is no such promise to one
\* behind it: raft would send a snapshot if GetLog returned
\* ErrLogNotFound (distributed.go:417).
FollowersCatchUp ==
  \A f \in Servers :
    <>[](\E l \in Servers : f \in Following(l))
      => <>[](\E l \in Servers : role[l] = "leader" /\ applied[f] = LastIndex(l))

\* The user logs of the servers in their first life are a replicated log while
\* majorities remember; then it is given up.
Members == IF MajoritiesRemember THEN FirstLives ELSE {}

Abstract == INSTANCE ReplicatedLog WITH
  Values  <- 1..MaxProduced,
  members <- Members,
  logs    <- [s \in Servers |-> IF s \in Members THEN userLog[s] ELSE <<>>]

\* While majorities remember, a record enters the user log of a server in its first
\* life only as what the others show at that place or, where they show nothing
\* yet, as one that none of them has; it never leaves or moves (distributed.go:291).
ImplementsReplicatedLog == Abstract!Spec

=============================================================================
