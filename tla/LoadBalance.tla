----------------------------- MODULE LoadBalance -----------------------------
(***************************************************************************)
(* internal/loadbalance: how a client finds the servers and chooses one    *)
(* for a call.  The package registers one Resolver and one Picker, which   *)
(* every client connection of the program shares.                          *)
(*                                                                         *)
(* gRPC is external: it builds the resolver when a connection is dialled,  *)
(* calls ResolveNow again when a subconnection breaks, keeps one           *)
(* subconnection for each address it was last given, which it connects     *)
(* anew when the attribute of the address has changed, and builds the      *)
(* picker whenever one gets or ceases to be ready.  raft's configuration   *)
(* stays as it is: every answer lists the same servers.                    *)
(***************************************************************************)
EXTENDS Naturals, Sequences, FiniteSets, SequencesExt

CONSTANTS
  Conns,       \* client connections of the program
  Servers,
  NoConn, NoSubConn, NoCall, NoServer,
  MaxPicks,    \* bound: calls that pick a follower
  MaxChanges   \* bound: leaders lost or elected, and broken connections

ASSUME ConstantsAssumption ==
  NoConn \notin Conns /\ NoServer \notin Servers /\ MaxPicks \in Nat /\ MaxChanges \in Nat
ASSUME ServersAssumption == IsFiniteSet(Servers)

VARIABLES
  raftLeader,    \* raft.Leader() on the server that is asked, or NoServer
  clientConn,    \* Resolver.clientConn
  resolverConn,  \* Resolver.resolverConn: the one dialled for this connection
  closed,        \* those of them that have been closed
  stage,         \* per connection: "new", "building" once Resolver.Build has set
                 \* clientConn, "built" from its ResolveNow on, "closed"
  wanted,        \* calls of ResolveNow to come, by connection
  resolving,     \* the call of ResolveNow that holds the lock
  known,         \* per connection: the addresses of its last UpdateState
  ready,         \* per connection: its ready subconnections
  redialled,     \* per connection: those of them that got another attribute, and
                 \* are connected anew before gRPC tells of it
  leader, followers, current,  \* the Picker's fields
  picks,         \* history: the followers picked since the last Build
  missed,        \* history: the connections one of whose resolutions has failed
  changes

vars == <<raftLeader, clientConn, resolverConn, closed, stage, wanted,
          resolving, known, ready, redialled, leader, followers, current,
          picks, missed, changes>>
grpcVars   == <<known, ready, redialled, leader, followers, picks>>
resolverVars == <<clientConn, resolverConn, closed, stage, wanted, resolving, missed>>

Address == [server : Servers, isLeader : BOOLEAN]
SubConn == [conn : Conns, server : Servers]

Init ==
  /\ raftLeader \in Servers
  /\ clientConn = NoConn /\ resolverConn = NoConn
  /\ closed = {}
  /\ stage = [c \in Conns |-> "new"]
  /\ wanted = {}
  /\ resolving = NoCall
  /\ known = [c \in Conns |-> {}]
  /\ ready = [c \in Conns |-> {}]
  /\ redialled = [c \in Conns |-> {}]
  /\ leader = NoSubConn
  /\ followers = <<>>
  /\ current = 0
  /\ picks = <<>>
  /\ missed = {}
  /\ changes = 0

(***************************************************************************)
(* Resolver                                                                *)
(***************************************************************************)

\* Wrong: ResolveNow is called before the resolver's own connection is dialled.
ResolverBuildAsks(c) ==
  /\ stage[c] = "new"
  /\ stage' = [stage EXCEPT ![c] = "building"]
  /\ clientConn' = c
  /\ wanted' = wanted \cup {c}
  /\ UNCHANGED <<raftLeader, resolverConn, closed, resolving, grpcVars, current,
                 missed, changes>>

\* Build, under no lock: the connection gRPC passes is stored first, ...
ResolverBuild(c) ==
  /\ stage[c] = "new"
  /\ stage' = [stage EXCEPT ![c] = "building"]
  /\ clientConn' = c
  /\ UNCHANGED <<raftLeader, resolverConn, closed, wanted, resolving, grpcVars,
                 current, missed, changes>>

\* Wrong: a connection of the resolver that is there already is used as it is.
ResolverDialOnce(c) ==
  /\ stage[c] = "building"
  /\ stage' = [stage EXCEPT ![c] = "built"]
  /\ resolverConn' = IF resolverConn = NoConn THEN c ELSE resolverConn
  /\ wanted' = IF resolverConn = NoConn THEN wanted \cup {c} ELSE wanted
  /\ UNCHANGED <<raftLeader, clientConn, closed, resolving, grpcVars, current,
                 missed, changes>>

\* ... then the resolver's own connection is dialled, and ResolveNow called.
ResolverDial(c) ==
  /\ stage[c] = "building"
  /\ stage' = [stage EXCEPT ![c] = "built"]
  /\ resolverConn' = c
  /\ wanted' = wanted \cup {c}
  /\ UNCHANGED <<raftLeader, clientConn, closed, resolving, grpcVars, current,
                 missed, changes>>

ResolveNow(c) ==
  /\ c \in wanted
  /\ resolving = NoCall
  /\ wanted' = wanted \ {c}
  /\ resolving' = [caller |-> c, via |-> resolverConn, todo |-> SetToSeq(Servers),
                   servers |-> {}]
  /\ UNCHANGED <<raftLeader, clientConn, resolverConn, closed, stage,
                 grpcVars, current, missed, changes>>

Asking == resolving # NoCall /\ resolving.todo # <<>>

\* GetServers fails, for whatever reason: the error is only logged, and nothing
\* asks for the servers again.
ResolveFails ==
  /\ Asking
  /\ missed' = missed \cup {resolving.caller}
  /\ resolving' = NoCall
  /\ UNCHANGED <<raftLeader, clientConn, resolverConn, closed, stage,
                 wanted, grpcVars, current, changes>>

\* DistributedLog.GetServers goes through the configuration and asks for the
\* leader at each server: its answer may name one leader, none, or two.
GetServers ==
  /\ Asking
  /\ resolving.via \notin closed
  /\ LET s == Head(resolving.todo)
     IN  resolving' = [resolving EXCEPT
                         !.todo = Tail(@),
                         !.servers = @ \cup {[server |-> s, isLeader |-> s = raftLeader]}]
  /\ UNCHANGED <<raftLeader, clientConn, resolverConn, closed, stage,
                 wanted, grpcVars, current, missed, changes>>

Answered == resolving # NoCall /\ resolving.todo = <<>>

\* The client closes its connection, and gRPC its subconnections.  Close closes
\* the resolver's connection, whichever that is by now; the picker stays.
ResolverClose(c) ==
  /\ stage[c] = "built"
  /\ stage' = [stage EXCEPT ![c] = "closed"]
  /\ closed' = closed \cup {resolverConn}
  /\ wanted' = wanted \ {c}
  /\ known' = [known EXCEPT ![c] = {}]
  /\ ready' = [ready EXCEPT ![c] = {}]
  /\ redialled' = [redialled EXCEPT ![c] = {}]
  /\ UNCHANGED <<raftLeader, clientConn, resolverConn, resolving, leader,
                 followers, picks, current, missed, changes>>

(***************************************************************************)
(* Picker                                                                  *)
(***************************************************************************)

SubConns(c, A) == {[conn |-> c, server |-> a.server] : a \in A}

\* The attribute "is_leader" a subconnection has by the addresses A.
SaidToLead(sc, A) == [server |-> sc.server, isLeader |-> TRUE] \in A

\* Those of the ready subconnections of c that are said to lead.
Leaders(c) == {sc \in ready[c] : SaidToLead(sc, known[c])}

\* Wrong: a leader once set is kept.
PickerBuildFirst(scs, leaders) ==
  /\ IF leaders = {} \/ leader # NoSubConn THEN UNCHANGED leader ELSE leader' \in leaders
  /\ followers' \in SetToSeqs(scs \ leaders)
  /\ picks' = <<>>

\* Build goes through the ready subconnections, a map, in any order.  The
\* leader is set if it is among them and left alone if it is not.
PickerBuild(scs, leaders) ==
  /\ IF leaders = {} THEN UNCHANGED leader ELSE leader' \in leaders
  /\ followers' \in SetToSeqs(scs \ leaders)
  /\ picks' = <<>>

\* UpdateState on the connection the resolver has now.  Nothing happens if that
\* connection is closed.
UpdateClosed ==
  /\ Answered
  /\ stage[clientConn] = "closed"
  /\ resolving' = NoCall
  /\ UNCHANGED <<raftLeader, clientConn, resolverConn, closed, stage, wanted,
                 grpcVars, current, missed, changes>>

\* The subconnections stay; those that are not what they were said to be any
\* more are connected anew.  The picker is not built yet.
UpdateState ==
  /\ Answered
  /\ stage[clientConn] # "closed"
  /\ LET c == clientConn
     IN  /\ known' = [known EXCEPT ![c] = resolving.servers]
         /\ redialled' = [redialled EXCEPT ![c] = @ \cup
               {sc \in ready[c] :
                  SaidToLead(sc, resolving.servers) # SaidToLead(sc, known[c])}]
  /\ resolving' = NoCall
  /\ UNCHANGED <<raftLeader, clientConn, resolverConn, closed, stage, wanted,
                 ready, leader, followers, picks, current, missed, changes>>

\* gRPC's balancer hears what became of a subconnection.
Heard(c) == PickerBuild(ready'[c], Leaders(c)')

Redialled(c, sc) ==
  /\ sc \in redialled[c]
  /\ redialled' = [redialled EXCEPT ![c] = @ \ {sc}]
  /\ ready' = [ready EXCEPT ![c] = @ \ {sc}]
  /\ UNCHANGED <<raftLeader, resolverVars, known, current, changes>>
  /\ Heard(c)

Connected(c, sc) ==
  /\ sc \in SubConns(c, known[c]) \ ready[c]
  /\ ready' = [ready EXCEPT ![c] = @ \cup {sc}]
  /\ UNCHANGED <<raftLeader, resolverVars, known, redialled, current, changes>>
  /\ Heard(c)

Disconnected(c, sc) ==
  /\ sc \in ready[c]
  /\ changes < MaxChanges
  /\ changes' = changes + 1
  /\ ready' = [ready EXCEPT ![c] = @ \ {sc}]
  /\ redialled' = [redialled EXCEPT ![c] = @ \ {sc}]
  /\ wanted' = IF stage[c] = "built" THEN wanted \cup {c} ELSE wanted
  /\ UNCHANGED <<raftLeader, clientConn, resolverConn, closed, stage,
                 resolving, known, current, missed>>
  /\ Heard(c)

\* nextFollower: the counter goes on across Builds.
NextFollower(n) == followers[(n % Len(followers)) + 1]

\* Pick of a method whose name has "Produce" in it.
PickForProduce == leader

\* Pick of one with "Consume": a follower in turn, or the leader if alone.
PickForConsume == IF followers = <<>> THEN leader ELSE NextFollower(current + 1)

\* Wrong: the counter is read and not increased.
ConsumeUncounted ==
  /\ followers # <<>>
  /\ picks' = Append(picks, PickForConsume)
  /\ UNCHANGED <<raftLeader, resolverVars, known, ready, redialled, leader, followers, current,
                 changes>>

Consume ==
  /\ followers # <<>>
  /\ current < MaxPicks
  /\ current' = current + 1
  /\ picks' = Append(picks, PickForConsume)
  /\ UNCHANGED <<raftLeader, resolverVars, known, ready, redialled, leader, followers, changes>>

LeaderChange(s) ==
  /\ s \in (Servers \cup {NoServer}) \ {raftLeader}
  /\ changes < MaxChanges
  /\ changes' = changes + 1
  /\ raftLeader' = s
  /\ UNCHANGED <<resolverVars, grpcVars, current>>

Next ==
  \/ \E c \in Conns : ResolverBuild(c) \/ ResolverDial(c) \/ ResolveNow(c)
  \/ ResolveFails
  \/ GetServers
  \/ UpdateState
  \/ UpdateClosed
  \/ \E c \in Conns : ResolverClose(c)
  \/ \E c \in Conns, sc \in SubConn : Connected(c, sc) \/ Redialled(c, sc) \/ Disconnected(c, sc)
  \/ Consume
  \/ \E s \in Servers \cup {NoServer} : LeaderChange(s)

Spec == Init /\ [][Next]_vars

\* A call of ResolveNow that was made goes on and ends, one way or the other; gRPC
\* connects, and tells of it.
Fairness ==
  /\ \A c \in Conns : WF_vars(ResolverDial(c)) /\ WF_vars(ResolveNow(c))
  /\ WF_vars(GetServers \/ ResolveFails) /\ WF_vars(UpdateState \/ UpdateClosed)
  /\ \A c \in Conns, sc \in SubConn : WF_vars(Connected(c, sc)) /\ WF_vars(Redialled(c, sc))

FairSpec == Spec /\ Fairness

(***************************************************************************)
(* Properties                                                              *)
(***************************************************************************)

TypeOK ==
  /\ raftLeader \in Servers \cup {NoServer}
  /\ {clientConn, resolverConn} \subseteq Conns \cup {NoConn}
  /\ closed \subseteq Conns
  /\ stage \in [Conns -> {"new", "building", "built", "closed"}]
  /\ wanted \subseteq {c \in Conns : stage[c] = "built"}
  /\ resolving = NoCall \/ ({resolving.caller, resolving.via} \subseteq Conns
                            /\ resolving.servers \subseteq Address)
  /\ known \in [Conns -> SUBSET Address]
  /\ \A c \in Conns : redialled[c] \subseteq ready[c] /\ ready[c] \subseteq SubConns(c, known[c])
  /\ leader \in SubConn \cup {NoSubConn}
  /\ followers \in Seq(SubConn)
  /\ current \in 0..MaxPicks
  /\ missed \subseteq Conns

\* The connection c is the only one the program has dialled.
Alone(c) == \A d \in Conns \ {c} : stage[d] = "new"

\* Once the connections to all the servers last resolved are ready, consumes go
\* to all those not said to lead and to no other, and a produce to one said to
\* lead if there is one, whatever leaders, answers and broken connections came
\* before (picker.go:41).
SettledRouting ==
  \A c \in Conns :
    (/\ Alone(c) /\ known[c] # {}
     /\ ready[c] = SubConns(c, known[c]) /\ redialled[c] = {}) =>
      /\ Range(followers) = ready[c] \ Leaders(c)
      /\ Leaders(c) # {} => PickForProduce \in Leaders(c)

\* Consumers take the followers in turn: none is picked twice before each has
\* been picked, wherever the counter stood when the picker was built.
RoundRobin ==
  \A i, j \in 1..Len(picks) :
    (i < j /\ j - i < Len(followers)) => picks[i] # picks[j]

\* A produce call finds a ready server said to lead in the end (picker.go:73) if
\* the servers were last resolved while there was a leader: the picker does not
\* stay with one that is said to follow by now, as it does for a while when the
\* servers are resolved anew and the new leader is not ready.
ProduceFindsLeader ==
  \A c \in Conns :
    <>[](stage[c] = "built" /\ Alone(c) /\ \E a \in known[c] : a.isLeader)
      => <>[](PickForProduce \in Leaders(c))

\* The connection dialled last gets its servers, unless a resolution of its own
\* fails: the resolutions that others asked for, whether they fail or not and on
\* whichever connection they go out, do not make it miss its own (resolver.go:41).
LastDialledResolved ==
  \A c \in Conns :
    <>[](clientConn = c /\ stage[c] = "built")
      => <>[](known[c] # {} \/ c \in missed)

=============================================================================
