----------------------------- MODULE Membership -----------------------------
(***************************************************************************)
(* How the servers of a cluster come and go: internal/agent starts a       *)
(* server and shuts it down, internal/discovery turns what serf says of    *)
(* the members into calls of Join and Leave, and DistributedLog.Join and   *)
(* Leave (internal/log/distributed.go) change raft's configuration.        *)
(*                                                                         *)
(* serf and raft are external.  serf gives each live member the events of  *)
(* the others in the order they happened; it declares a dead process       *)
(* failed some time later.  raft has one configuration, which its leader   *)
(* changes; leaders come and go for reasons of their own.                  *)
(***************************************************************************)
EXTENDS Naturals, Sequences, FiniteSets, FiniteSetsExt, SequencesExt

CONSTANTS
  Servers,       \* Config.NodeName of each
  Addrs,         \* RPC addresses a server may be started with
  Bootstrap,     \* the server with Config.Bootstrap
  FirstAddr,     \* its address at first
  NoServer,
  Idle,          \* an event handler that is in no call of Join
  MaxChanges,    \* bound: servers started, leaving or crashing
  MaxElections   \* bound: leaders elected after the first

ASSUME ServersAssumption ==
  /\ IsFiniteSet(Servers)
  /\ Bootstrap \in Servers /\ FirstAddr \in Addrs /\ NoServer \notin Servers
ASSUME BoundsAssumption == MaxChanges \in Nat /\ MaxElections \in Nat

VARIABLES
  status,     \* a server's agent: "down", "starting", "up", "leaving", "left"
  addr,       \* the address it was last started with
  believed,   \* the servers that serf takes for alive
  queue,      \* serf's events the handler of a server has not read yet
  busy,       \* the call of Join a handler is in
  deaf,       \* the servers whose event handler has returned
  conf,       \* raft's configuration
  leader,
  changes, elections,
  lost,       \* history: members with an event that came when there was no leader
              \* to read it, or was not acted on yet when the leader changed
  stale       \* history: members that came back with another address while serf
              \* took them for alive

vars == <<status, addr, believed, queue, busy, deaf, conf, leader, changes,
          elections, lost, stale>>

Event  == [type : {"join", "gone"}, name : Servers, addr : Addrs]
Voter  == [id : Servers, addr : Addrs]
Call   == [event : Event, clashes : 0..2]

ASSUME IdleAssumption == Idle \notin Call

Up      == {n \in Servers : status[n] = "up"}
Running == {n \in Servers : status[n] \in {"starting", "up", "leaving"}}
Serving == {n \in Servers : status[n] \in {"up", "leaving"}}
Ids(c)  == {s.id : s \in c}

JoinEvent(n) == [type |-> "join", name |-> n, addr |-> addr[n]]
GoneEvent(n) == [type |-> "gone", name |-> n, addr |-> addr[n]]

\* Config.Bootstrap has made a cluster of one, whose server leads it.
Init ==
  /\ status = [n \in Servers |-> IF n = Bootstrap THEN "up" ELSE "down"]
  /\ addr = [n \in Servers |-> FirstAddr]
  /\ believed = {Bootstrap}
  /\ queue = [n \in Servers |-> IF n = Bootstrap THEN <<JoinEvent(n)>> ELSE <<>>]
  /\ busy = [n \in Servers |-> Idle]
  /\ deaf = {}
  /\ conf = {[id |-> Bootstrap, addr |-> FirstAddr]}
  /\ leader = Bootstrap
  /\ changes = 0
  /\ elections = 0
  /\ lost = {}
  /\ stale = {}

(***************************************************************************)
(* raft                                                                    *)
(***************************************************************************)

\* raft connects to a voter at the address the configuration has for it.  The
\* multiplexer in front of raft is served when all of NewAgent is done.
Reachable(l, s) == s.id = l \/ (s.id \in Serving /\ addr[s.id] = s.addr)
Quorum(l, c) == 2 * Cardinality({s \in c : Reachable(l, s)}) > Cardinality(c)

InCall(n) == IF busy[n] = Idle THEN {} ELSE {busy[n].event.name}
InFlight  == UNION {{e.name : e \in Range(queue[n])} \cup InCall(n) : n \in Servers}

Elect(n) ==
  /\ n \in Running \ {leader}
  /\ n \in Ids(conf) /\ Quorum(n, conf)
  /\ elections < MaxElections
  /\ elections' = elections + 1
  /\ leader' = n
  /\ lost' = lost \cup InFlight
  /\ UNCHANGED <<status, addr, believed, queue, busy, deaf, conf, changes, stale>>

StepDown ==
  /\ leader # NoServer /\ ~Quorum(leader, conf)
  /\ leader' = NoServer
  /\ lost' = lost \cup InFlight
  /\ UNCHANGED <<status, addr, believed, queue, busy, deaf, conf, changes, elections,
                 stale>>

\* A change of the configuration is in force when the leader has stored it.
\* If it cannot be committed the leader steps down and the caller gets an error.
Change(n, new) ==
  /\ leader = n
  /\ conf' = new
  /\ leader' = IF Quorum(n, new) THEN n ELSE NoServer
  /\ lost' = IF Quorum(n, new) THEN lost ELSE lost \cup InFlight

RemoveServer(n, id) == Change(n, {s \in conf : s.id # id})

\* No configuration has two servers with one address.
Taken(id, a) == \E s \in conf : s.id # id /\ s.addr = a

AddVoter(n, id, a) ==
  /\ ~Taken(id, a)
  /\ Change(n, {s \in conf : s.id # id} \cup {[id |-> id, addr |-> a]})

(***************************************************************************)
(* The agent                                                               *)
(***************************************************************************)

Tell(S, e) == [n \in Servers |-> IF n \in S THEN Append(queue[n], e) ELSE queue[n]]

\* Is the leader among the members S that hear of n?
Heard(S, n) == IF leader \in S \ {n} THEN {} ELSE {n}

\* NewAgent as far as setupLog: raft runs on the configuration it finds.  The
\* address may be another one, though serf has not noticed yet that n had gone.
StartLog(n, a) ==
  /\ n \notin Running
  /\ changes < MaxChanges
  /\ \A m \in Running : addr[m] # a
  /\ changes' = changes + 1
  /\ status' = [status EXCEPT ![n] = "starting"]
  /\ addr' = [addr EXCEPT ![n] = a]
  /\ stale' = IF n \in believed /\ a # addr[n] THEN stale \cup {n} ELSE stale
  /\ UNCHANGED <<believed, queue, busy, deaf, conf, leader, elections, lost>>

\* setupLog waits three seconds for a leader if the server bootstraps: itself, as
\* it does not serve the connections of another one yet.  setupMembership needs
\* another member to join the cluster if it does not.
MayJoin(n) == IF n = Bootstrap THEN leader = n ELSE Up # {}

\* setupMembership: a new serf instance, which hears of itself and of every
\* live member.  To the others a member they took for gone has joined; of one
\* they took for alive serf tells an update of its tags at most, which
\* eventHandler reads and drops, whatever the address.
SetupMembership(n) ==
  /\ status[n] = "starting"
  /\ MayJoin(n)
  /\ status' = [status EXCEPT ![n] = "up"]
  /\ believed' = believed \cup {n}
  /\ queue' = [Tell(IF n \in believed THEN {} ELSE Up, JoinEvent(n))
                 EXCEPT ![n] = <<JoinEvent(n)>> \o SetToSeq({JoinEvent(m) : m \in Up})]
  /\ busy' = [busy EXCEPT ![n] = Idle]
  /\ deaf' = deaf \ {n}
  /\ lost' = IF n \in believed THEN lost ELSE lost \cup Heard(Up, n)
  /\ UNCHANGED <<addr, conf, leader, changes, elections, stale>>

\* The raft instance of a server goes with its process.
Gone(n, s) ==
  /\ status' = [status EXCEPT ![n] = s]
  /\ leader' = IF leader = n THEN NoServer ELSE leader
  /\ lost' = IF leader = n THEN lost \cup InFlight ELSE lost
  /\ busy' = [busy EXCEPT ![n] = Idle]

\* NewAgent returns an error and the process ends.
StartFails(n) ==
  /\ status[n] = "starting"
  /\ ~MayJoin(n)
  /\ Gone(n, "down")
  /\ UNCHANGED <<addr, believed, queue, deaf, conf, changes, elections, stale>>

\* Agent.Shutdown, first: membership.Leave, which serf reports to the member
\* itself too.  The server's raft instance is still running.
MembershipLeave(n) ==
  /\ status[n] = "up"
  /\ changes < MaxChanges
  /\ changes' = changes + 1
  /\ status' = [status EXCEPT ![n] = "leaving"]
  /\ believed' = believed \ {n}
  /\ stale' = stale \ {n}
  /\ queue' = Tell(Up, GoneEvent(n))
  /\ lost' = lost \cup Heard(Up, n) \cup (IF leader = n THEN InFlight ELSE {})
  /\ UNCHANGED <<addr, busy, deaf, conf, leader, elections>>

\* Agent.Shutdown, last: log.Close.
LogClose(n) ==
  /\ status[n] = "leaving"
  /\ Gone(n, "left")
  /\ queue' = [queue EXCEPT ![n] = <<>>]
  /\ UNCHANGED <<addr, believed, deaf, conf, changes, elections, stale>>

Crash(n) ==
  /\ n \in Running
  /\ changes < MaxChanges
  /\ changes' = changes + 1
  /\ Gone(n, "down")
  /\ queue' = [queue EXCEPT ![n] = <<>>]
  /\ UNCHANGED <<addr, believed, deaf, conf, elections, stale>>

\* serf declares a member failed, which may have come back as far as its log.
DeclareFailed(n) ==
  /\ n \in believed /\ status[n] \in {"down", "starting"}
  /\ Up # {}
  /\ believed' = believed \ {n}
  /\ stale' = stale \ {n}
  /\ queue' = Tell(Up, GoneEvent(n))
  /\ lost' = lost \cup Heard(Up, n)
  /\ UNCHANGED <<status, addr, busy, deaf, conf, leader, changes, elections>>

(***************************************************************************)
(* eventHandler, one goroutine per server                                  *)
(***************************************************************************)

Listening(n) == status[n] \in {"up", "leaving"} /\ n \notin deaf /\ busy[n] = Idle
Event1(n) == Head(queue[n])
HasEvent(n) == Listening(n) /\ queue[n] # <<>>

Dealt(n) == queue' = [queue EXCEPT ![n] = Tail(@)]

\* Wrong: the server acts on the events about itself.
IsLocalNever(n) == FALSE

\* isLocal: a join is skipped, a leave or failure ends the handler.
IsLocal(n) == Event1(n).name = n

\* Wrong: the handler returns on the member's own join as well.
HandleLocalReturns(n) ==
  /\ HasEvent(n) /\ IsLocal(n)
  /\ deaf' = deaf \cup {n}
  /\ Dealt(n)
  /\ UNCHANGED <<status, addr, believed, busy, conf, leader, changes, elections, lost,
                 stale>>

HandleLocal(n) ==
  /\ HasEvent(n) /\ IsLocal(n)
  /\ deaf' = IF Event1(n).type = "join" THEN deaf ELSE deaf \cup {n}
  /\ Dealt(n)
  /\ UNCHANGED <<status, addr, believed, busy, conf, leader, changes, elections, lost,
                 stale>>

\* Wrong: members that leave or fail are left in the configuration.
HandleLeaveNothing(n) ==
  /\ HasEvent(n) /\ ~IsLocal(n) /\ Event1(n).type = "gone"
  /\ Dealt(n)
  /\ UNCHANGED <<status, addr, believed, busy, deaf, conf, leader, changes, elections, lost,
                 stale>>

\* handleLeave: RemoveServer, whose error is only logged.
HandleLeave(n) ==
  /\ HasEvent(n) /\ ~IsLocal(n) /\ Event1(n).type = "gone"
  /\ \/ RemoveServer(n, Event1(n).name)
     \/ leader # n /\ UNCHANGED <<conf, leader, lost>>
  /\ Dealt(n)
  /\ UNCHANGED <<status, addr, believed, busy, deaf, changes, elections, stale>>

\* handleJoin: Join goes through the configuration it is given.  It returns if
\* the server is in it; each other entry with its id or its address is one
\* call of RemoveServer to come.
Clashes(e) == {s \in conf : s.id = e.name \/ s.addr = e.addr}
Joined(e)  == [id |-> e.name, addr |-> e.addr] \in conf

HandleJoin(n) ==
  /\ HasEvent(n) /\ ~IsLocal(n) /\ Event1(n).type = "join"
  /\ busy' = IF Joined(Event1(n)) THEN busy
             ELSE [busy EXCEPT ![n] = [event |-> Event1(n),
                                       clashes |-> Cardinality(Clashes(Event1(n)))]]
  /\ Dealt(n)
  /\ UNCHANGED <<status, addr, believed, deaf, conf, leader, changes, elections, lost,
                 stale>>

\* "remove the existing server": RemoveServer is called with the id of the
\* server that joins.  An error ends the call of Join.
RemoveExisting(n) ==
  /\ busy[n] # Idle /\ busy[n].clashes > 0
  /\ \/ RemoveServer(n, busy[n].event.name)
     \/ leader # n /\ UNCHANGED <<conf, leader, lost>>
  /\ busy' = IF leader' = n THEN [busy EXCEPT ![n].clashes = @ - 1]
             ELSE [busy EXCEPT ![n] = Idle]
  /\ UNCHANGED <<status, addr, believed, queue, deaf, changes, elections, stale>>

JoinVoter(n) ==
  /\ busy[n] # Idle /\ busy[n].clashes = 0
  /\ LET e == busy[n].event
     IN  \/ AddVoter(n, e.name, e.addr)
         \/ leader # n /\ UNCHANGED <<conf, leader, lost>>
         \/ /\ leader = n /\ Taken(e.name, e.addr)
            /\ lost' = lost \cup {e.name}
            /\ UNCHANGED <<conf, leader>>
  /\ busy' = [busy EXCEPT ![n] = Idle]
  /\ UNCHANGED <<status, addr, believed, queue, deaf, changes, elections, stale>>

Handler(n) ==
  HandleLocal(n) \/ HandleLeave(n) \/ HandleJoin(n) \/ RemoveExisting(n) \/ JoinVoter(n)

Next ==
  \/ \E n \in Servers : Elect(n)
  \/ StepDown
  \/ \E n \in Servers, a \in Addrs : StartLog(n, a)
  \/ \E n \in Servers : SetupMembership(n) \/ StartFails(n)
  \/ \E n \in Servers : MembershipLeave(n) \/ LogClose(n)
  \/ \E n \in Servers : Crash(n) \/ DeclareFailed(n)
  \/ \E n \in Servers : Handler(n)

Spec == Init /\ [][Next]_vars

\* A handler that has an event or is in a call goes on, a shutdown ends, serf
\* notices a dead member, raft elects a leader when it can, and a leader without
\* a majority steps down (its lease).
Fairness ==
  /\ \A n \in Servers : WF_vars(Handler(n)) /\ WF_vars(LogClose(n))
  /\ \A n \in Servers : WF_vars(DeclareFailed(n))
  /\ WF_vars(\E n \in Servers : Elect(n)) /\ WF_vars(StepDown)

FairSpec == Spec /\ Fairness

(***************************************************************************)
(* Properties                                                              *)
(***************************************************************************)

TypeOK ==
  /\ status \in [Servers -> {"down", "starting", "up", "leaving", "left"}]
  /\ addr \in [Servers -> Addrs]
  /\ believed \subseteq Servers
  /\ \A n \in Servers : queue[n] \in Seq(Event)
  /\ \A n \in Servers : busy[n] \in Call \cup {Idle}
  /\ deaf \subseteq Servers
  /\ conf \subseteq Voter
  /\ leader \in Ids(conf) \cup {NoServer}
  /\ lost \subseteq Servers /\ stale \subseteq believed

\* A leader that has read all its events has the right voters: every member
\* whose events came while there was a leader to act on them is in raft's
\* configuration if it is up, and is not if it has gone.  A member that raft
\* refused because of its address counts as lost too.  The entry has the
\* member's present address, unless the member came back with another one
\* before serf had noticed that it was gone: serf calls that an update, which
\* eventHandler drops (membership.go:91).
Converged ==
  (leader \in Up \ deaf /\ busy[leader] = Idle /\ queue[leader] = <<>>) =>
    \A n \in Servers \ lost :
      /\ n \in Up \ {leader} =>
           n \in Ids(conf) /\ (n \in stale \/ [id |-> n, addr |-> addr[n]] \in conf)
      /\ n \notin believed => n \notin Ids(conf)

\* A server that stays up while there is a leader becomes a voter and stays
\* one: no handler gets stuck (membership.go:89).
MembersSettle ==
  \A n \in Servers :
    <>[](n \in Up \ lost /\ leader \in Up) => <>[](n \in Ids(conf))

=============================================================================
