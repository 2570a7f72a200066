-------------------------- MODULE LoadBalanceProofs --------------------------
(***************************************************************************)
(* The routing of module LoadBalance, for any connections of the program,  *)
(* any finite set of servers and any number of calls and changes.          *)
(***************************************************************************)
EXTENDS LoadBalance, Integers, FiniteSetTheorems, TLAPS

(***************************************************************************)
(* The invariant                                                           *)
(***************************************************************************)

\* A call of ResolveNow, whose answer lists every server in the end.
Call ==
  {r \in [caller : Conns, via : Conns, todo : Seq(Servers), servers : SUBSET Address] :
     \A s \in Servers : s \in Range(r.todo) \/ \E a \in r.servers : a.server = s}

\* The types of the variables of the resolver and of gRPC.
ResolverTypes ==
  /\ raftLeader \in Servers \cup {NoServer}
  /\ clientConn \in Conns \cup {NoConn} /\ resolverConn \in Conns \cup {NoConn}
  /\ closed \subseteq Conns
  /\ stage \in [Conns -> {"new", "building", "built", "closed"}]
  /\ wanted \subseteq {c \in Conns : stage[c] = "built"}
  /\ resolving = NoCall \/ resolving \in Call
  /\ known \in [Conns -> SUBSET Address]
  /\ ready \in [Conns -> SUBSET SubConn]
  /\ redialled \in [Conns -> SUBSET SubConn]
  /\ \A c \in Conns : redialled[c] \subseteq ready[c] /\ ready[c] \subseteq SubConns(c, known[c])
  /\ missed \subseteq Conns

\* Those of the picker's.
PickerTypes ==
  /\ leader \in SubConn \cup {NoSubConn}
  /\ followers \in Seq(SubConn)
  /\ current \in 0..MaxPicks
  /\ picks \in Seq(SubConn)

\* What is stored when a connection is dialled, is there from then on.
Dialled ==
  /\ \A c \in Conns : stage[c] # "new" => clientConn \in Conns
  /\ \A c \in Conns : stage[c] \in {"built", "closed"} => resolverConn \in Conns
  /\ resolving # NoCall => clientConn \in Conns
  /\ clientConn \in Conns => stage[clientConn] # "new"
  /\ \A c \in Conns : stage[c] \in {"new", "closed"} => known[c] = {}

\* The picker was built from the subconnections of c that are ready and from what
\* the last answer says of them.
Fits(c) ==
  /\ Range(followers) = ready[c] \ Leaders(c)
  /\ Leaders(c) # {} => leader \in Leaders(c)

\* A connection that is alone has the picker for itself, but gRPC builds it only
\* when the subconnections that got another attribute are connected anew.
PickerFits ==
  \A c \in Conns : Alone(c) /\ stage[c] # "closed" /\ redialled[c] = {} => Fits(c)

\* No follower is in the list twice.
FollowersOnce == IsInjective(followers)

\* The picks since the last Build went through the list from where the counter
\* stood.
PicksInTurn ==
  /\ Len(picks) <= current
  /\ picks # <<>> => followers # <<>>
  /\ \A i \in 1..Len(picks) : picks[i] = NextFollower((current - Len(picks)) + i)

IInv ==
  /\ ResolverTypes /\ PickerTypes /\ Dialled
  /\ PickerFits /\ FollowersOnce /\ PicksInTurn

(***************************************************************************)
(* Finite sets and their sequences                                         *)
(***************************************************************************)

\* A connection has finitely many subconnections.
LEMMA SubConnsFinite ==
  ASSUME NEW c \in Conns, NEW A \in SUBSET Address
  PROVE  /\ IsFiniteSet(SubConns(c, A))
         /\ SubConns(c, A) \subseteq SubConn
<1> DEFINE all == SubConns(c, Address)
           f == [s \in Servers |-> [conn |-> c, server |-> s]]
<1>1. f \in Surjection(Servers, all)
  <2>1. \A s \in Servers : f[s] \in all
    <3>1. ASSUME NEW s \in Servers PROVE [conn |-> c, server |-> s] \in all
      <4>1. [server |-> s, isLeader |-> TRUE] \in Address
        BY DEF Address
      <4> QED BY <4>1 DEF SubConns
    <3> QED BY <3>1
  <2>2. \A y \in all : \E s \in Servers : f[s] = y
    BY DEF SubConns, Address
  <2> QED BY <2>1, <2>2 DEF Surjection
<1>2. IsFiniteSet(all)
  BY <1>1, ServersAssumption, FS_Surjection
<1>3. SubConns(c, A) \subseteq all
  BY DEF SubConns
<1>4. SubConns(c, A) \subseteq SubConn
  BY DEF SubConns, SubConn, Address
<1> QED BY <1>2, <1>3, <1>4, FS_Subset

\* A sequence that names every element of a set once.
LEMMA SetToSeqsLists ==
  ASSUME NEW S, IsFiniteSet(S), NEW f \in SetToSeqs(S)
  PROVE  f \in Seq(S) /\ Range(f) = S /\ IsInjective(f)
<1> DEFINE n == Cardinality(S)
<1>1. n \in Nat /\ IsFiniteSet(1..n) /\ Cardinality(1..n) = n
  BY FS_CardinalityType, FS_Interval
<1>2. f \in [1..n -> S] /\ \A i, j \in 1..n : i # j => f[i] # f[j]
  BY DEF SetToSeqs
<1>3. IsInjective(f)
  BY <1>2 DEF IsInjective
<1>4. f \in Injection(1..n, S)
  BY <1>2, <1>3 DEF Injection
<1>5. f \in Surjection(1..n, S)
  BY <1>1, <1>4, FS_Injection
<1>6. Range(f) = S
  BY <1>2, <1>5 DEF Range, Surjection
<1>7. f \in Seq(S)
  BY <1>1, <1>2
<1> QED BY <1>3, <1>6, <1>7

\* There is one.
LEMMA SetToSeqLists ==
  ASSUME NEW S, IsFiniteSet(S)
  PROVE  SetToSeq(S) \in Seq(S) /\ Range(SetToSeq(S)) = S
<1> DEFINE n == Cardinality(S)
<1>1. n \in Nat /\ ExistsBijection(1..n, S) /\ IsFiniteSet(1..n) /\ Cardinality(1..n) = n
  BY FS_CardinalityType, FS_Interval
<1>2. \E f \in [1..n -> S] : IsInjective(f)
  BY <1>1 DEF ExistsBijection, Bijection, Injection
<1>3. PICK f \in [1..n -> S] : f = SetToSeq(S) /\ IsInjective(f)
  BY <1>2 DEF SetToSeq
<1>4. f \in Surjection(1..n, S)
  BY <1>1, <1>3, FS_Injection DEF Injection
<1>5. Range(f) = S
  BY <1>3, <1>4 DEF Range, Surjection
<1> QED BY <1>1, <1>3, <1>5

\* Numbers that are closer to each other than n differ modulo n.
LEMMA RemaindersDiffer ==
  ASSUME NEW a \in Nat, NEW b \in Nat, NEW n \in Nat \ {0}, a < b, b - a < n
  PROVE  a % n # b % n
<1> DEFINE p == a \div n
           q == b \div n
<1>1. /\ p \in Int /\ q \in Int
      /\ a = n * p + (a % n) /\ b = n * q + (b % n)
      /\ a % n \in Int /\ b % n \in Int
  OBVIOUS
<1> HIDE DEF p, q
<1> SUFFICES ASSUME a % n = b % n PROVE FALSE
  OBVIOUS
<1>2. n * q - n * p = n * (q - p)
  BY <1>1
<1>3. b - a = n * (q - p)
  BY <1>1, <1>2
<1>4. 0 < n * (q - p) /\ n * (q - p) < n
  BY <1>3
<1>5. PICK d \in Int : d = q - p
  BY <1>1
<1>6. 0 < n * d /\ n * d < n
  BY <1>4, <1>5
<1> QED BY <1>6

(***************************************************************************)
(* Steps                                                                   *)
(***************************************************************************)

\* Picker.Build.
LEMMA Built ==
  ASSUME PickerTypes, NEW scs \in SUBSET SubConn, IsFiniteSet(scs), NEW leaders \in SUBSET scs,
         PickerBuild(scs, leaders), current' = current
  PROVE  /\ PickerTypes' /\ FollowersOnce' /\ PicksInTurn'
         /\ Range(followers') = scs \ leaders
         /\ leaders # {} => leader' \in leaders
<1>1. IsFiniteSet(scs \ leaders)
  BY FS_Difference
<1>2. followers' \in SetToSeqs(scs \ leaders) /\ picks' = <<>>
  BY DEF PickerBuild
<1>3. /\ followers' \in Seq(scs \ leaders)
      /\ Range(followers') = scs \ leaders /\ IsInjective(followers')
  BY <1>1, <1>2, SetToSeqsLists
<1>4. followers' \in Seq(SubConn)
  BY <1>3
<1>5. leader' \in SubConn \cup {NoSubConn} /\ (leaders # {} => leader' \in leaders)
  BY DEF PickerBuild, PickerTypes
<1>6. PickerTypes'
  BY <1>2, <1>4, <1>5 DEF PickerTypes
<1>7. PicksInTurn'
  BY <1>2, ConstantsAssumption DEF PicksInTurn, PickerTypes
<1> QED BY <1>3, <1>5, <1>6, <1>7 DEF FollowersOnce

\* Nothing is said of the picker that a step which leaves it alone could change.
LEMMA PickerSame ==
  ASSUME PickerTypes, FollowersOnce, PicksInTurn,
         UNCHANGED <<leader, followers, picks, current>>
  PROVE  PickerTypes' /\ FollowersOnce' /\ PicksInTurn'
BY DEF PickerTypes, FollowersOnce, PicksInTurn, NextFollower

\* Nor of how it fits, if the subconnections stay as well and no connection goes
\* back in its life.
LEMMA FitsSame ==
  ASSUME PickerFits, UNCHANGED <<leader, followers, ready, redialled, known>>,
         \A c \in Conns : stage'[c] = "new" => stage[c] = "new",
         \A c \in Conns : stage[c] = "closed" => stage'[c] = "closed"
  PROVE  PickerFits'
BY DEF PickerFits, Fits, Alone, Leaders

\* The steps that dial a connection and resolve the servers.
LEMMA ResolverSteps ==
  ASSUME IInv,
         \/ \E c \in Conns : ResolverBuild(c) \/ ResolverDial(c) \/ ResolveNow(c)
         \/ ResolveFails \/ GetServers \/ UpdateClosed
         \/ \E s \in Servers \cup {NoServer} : LeaderChange(s)
         \/ UNCHANGED vars
  PROVE  IInv'
<1>1. UNCHANGED <<leader, followers, picks, current, known, ready, redialled>>
  BY DEF ResolverBuild, ResolverDial, ResolveNow, ResolveFails, GetServers, UpdateClosed,
         LeaderChange, vars, grpcVars, resolverVars
<1>2. /\ \A c \in Conns : stage'[c] = "new" => stage[c] = "new"
      /\ \A c \in Conns : stage[c] = "closed" => stage'[c] = "closed"
  BY DEF ResolverBuild, ResolverDial, ResolveNow, ResolveFails, GetServers, UpdateClosed,
         LeaderChange, vars, grpcVars, resolverVars, IInv, ResolverTypes
<1>3. PickerTypes' /\ FollowersOnce' /\ PicksInTurn' /\ PickerFits'
  BY <1>1, <1>2, PickerSame, FitsSame DEF IInv
<1>4. ASSUME NEW c \in Conns, ResolverBuild(c) PROVE ResolverTypes' /\ Dialled'
  BY <1>1, <1>4 DEF ResolverBuild, IInv, ResolverTypes, Dialled
<1>5. ASSUME NEW c \in Conns, ResolverDial(c) PROVE ResolverTypes' /\ Dialled'
  BY <1>1, <1>5 DEF ResolverDial, IInv, ResolverTypes, Dialled
<1>6. ASSUME NEW c \in Conns, ResolveNow(c) PROVE ResolverTypes' /\ Dialled'
  <2>1. SetToSeq(Servers) \in Seq(Servers) /\ Range(SetToSeq(Servers)) = Servers
    BY ServersAssumption, SetToSeqLists
  <2>2. stage[c] = "built" /\ resolverConn \in Conns /\ clientConn \in Conns
    BY <1>6 DEF ResolveNow, IInv, ResolverTypes, Dialled
  <2>3. resolving' \in Call
    BY <1>6, <2>1, <2>2 DEF ResolveNow, Call
  <2> QED BY <1>1, <1>6, <2>2, <2>3 DEF ResolveNow, IInv, ResolverTypes, Dialled
<1>7. ASSUME ResolveFails \/ UpdateClosed PROVE ResolverTypes' /\ Dialled'
  <2>1. CASE ResolveFails
    <3>1. resolving.caller \in Conns
      BY <2>1 DEF ResolveFails, Asking, IInv, ResolverTypes, Call
    <3> QED BY <1>1, <2>1, <3>1 DEF ResolveFails, IInv, ResolverTypes, Dialled, grpcVars
  <2>2. CASE UpdateClosed
    BY <1>1, <2>2 DEF UpdateClosed, IInv, ResolverTypes, Dialled, grpcVars
  <2> QED BY <1>7, <2>1, <2>2
<1>8. ASSUME GetServers PROVE ResolverTypes' /\ Dialled'
  <2>1. resolving \in Call /\ resolving.todo # <<>> /\ resolving # NoCall
    BY <1>8 DEF GetServers, Asking, IInv, ResolverTypes
  <2>2. PICK x \in Servers, t \in Seq(Servers) :
          /\ x = Head(resolving.todo) /\ t = Tail(resolving.todo)
          /\ Range(resolving.todo) \subseteq {x} \cup Range(t)
    <3> DEFINE q == resolving.todo
    <3>1. q \in Seq(Servers) /\ q # <<>>
      BY <2>1 DEF Call
    <3> HIDE DEF q
    <3>2. Head(q) = q[1] /\ Head(q) \in Servers /\ Tail(q) \in Seq(Servers)
          /\ Len(q) \in Nat \ {0} /\ Len(Tail(q)) = Len(q) - 1
          /\ \A k \in 1..Len(Tail(q)) : Tail(q)[k] = q[k + 1]
      BY <3>1
    <3>3. ASSUME NEW k \in 1..Len(q), k # 1 PROVE q[k] \in Range(Tail(q))
      <4>1. k - 1 \in 1..Len(Tail(q)) /\ Tail(q)[k - 1] = q[k]
        BY <3>2, <3>3
      <4>2. DOMAIN Tail(q) = 1..Len(Tail(q))
        BY <3>2
      <4> QED BY <4>1, <4>2 DEF Range
    <3>4. Range(q) \subseteq {Head(q)} \cup Range(Tail(q))
      <4>1. DOMAIN q = 1..Len(q)
        BY <3>1
      <4> QED BY <3>2, <3>3, <4>1 DEF Range
    <3> QED BY <3>2, <3>4 DEF q
  <2>3. resolving' \in Call
    <3> DEFINE a == [server |-> x, isLeader |-> x = raftLeader]
    <3>1. a \in Address /\ a.server = x
      BY DEF Address
    <3> HIDE DEF a
    <3>2. resolving' = [resolving EXCEPT !.todo = t, !.servers = @ \cup {a}]
      BY <1>8, <2>2 DEF GetServers, a
    <3>3. /\ resolving'.todo = t /\ resolving'.servers = resolving.servers \cup {a}
          /\ resolving' \in [caller : Conns, via : Conns, todo : Seq(Servers), servers : SUBSET Address]
      BY <2>1, <2>2, <3>1, <3>2 DEF Call
    <3>4. ASSUME NEW s \in Servers
          PROVE  s \in Range(t) \/ \E b \in resolving'.servers : b.server = s
      BY <2>1, <2>2, <3>1, <3>3, <3>4 DEF Call
    <3> QED BY <3>3, <3>4 DEF Call
  <2> QED BY <1>1, <1>8, <2>1, <2>3 DEF GetServers, IInv, ResolverTypes, Dialled
<1>9. ASSUME NEW s \in Servers \cup {NoServer}, LeaderChange(s) PROVE ResolverTypes' /\ Dialled'
  BY <1>1, <1>9 DEF LeaderChange, IInv, ResolverTypes, Dialled, resolverVars
<1>10. ASSUME UNCHANGED vars PROVE ResolverTypes' /\ Dialled'
  BY <1>10 DEF vars, IInv, ResolverTypes, Dialled
<1> QED BY <1>3, <1>4, <1>5, <1>6, <1>7, <1>8, <1>9, <1>10 DEF IInv

\* A client that closes its connection leaves the picker as it is, which is of
\* no use to it any more.
LEMMA CloseSteps ==
  ASSUME IInv, NEW c \in Conns, ResolverClose(c)
  PROVE  IInv'
<1>1. UNCHANGED <<leader, followers, picks, current>>
  BY DEF ResolverClose
<1>2. PickerTypes' /\ FollowersOnce' /\ PicksInTurn'
  BY <1>1, PickerSame DEF IInv
<1>3. stage[c] = "built" /\ resolverConn \in Conns
  BY DEF ResolverClose, IInv, Dialled
<1>4. /\ stage' = [stage EXCEPT ![c] = "closed"]
      /\ known' = [known EXCEPT ![c] = {}] /\ ready' = [ready EXCEPT ![c] = {}]
      /\ redialled' = [redialled EXCEPT ![c] = {}]
  BY DEF ResolverClose
<1>5. ResolverTypes'
  BY <1>3 DEF ResolverClose, IInv, ResolverTypes
<1>6. Dialled'
  BY <1>3 DEF ResolverClose, IInv, ResolverTypes, Dialled
<1>7. PickerFits'
  <2>1. SUFFICES ASSUME NEW d \in Conns, Alone(d)', stage'[d] # "closed"
                 PROVE  FALSE
    BY DEF PickerFits
  <2>2. d # c /\ stage'[c] = "closed"
    BY <1>4, <2>1 DEF IInv, ResolverTypes
  <2> QED BY <2>1, <2>2 DEF Alone
<1> QED BY <1>2, <1>5, <1>6, <1>7 DEF IInv

\* The picker is built anew from the subconnections of c, and only they change.
LEMMA BuildSteps ==
  ASSUME IInv, NEW c \in Conns, stage[c] # "new",
         UNCHANGED <<stage, current>>, ResolverTypes', Dialled',
         Heard(c)
  PROVE  IInv'
<1>1. ready'[c] \in SUBSET SubConn /\ IsFiniteSet(ready'[c])
  <2>1. known'[c] \in SUBSET Address /\ ready'[c] \subseteq SubConns(c, known'[c])
    BY DEF ResolverTypes
  <2>2. PICK A \in SUBSET Address : A = known'[c]
    BY <2>1
  <2>3. IsFiniteSet(SubConns(c, A)) /\ SubConns(c, A) \subseteq SubConn
    BY SubConnsFinite
  <2> QED BY <2>1, <2>2, <2>3, FS_Subset DEF SubConns
<1>2. PICK scs \in SUBSET SubConn, leaders \in SUBSET SubConn :
        scs = ready'[c] /\ leaders = Leaders(c)' /\ leaders \in SUBSET scs
  <2>1. Leaders(c)' \in SUBSET ready'[c]
    BY DEF Leaders
  <2> QED BY <1>1, <2>1
<1>3. /\ PickerTypes' /\ FollowersOnce' /\ PicksInTurn'
      /\ Range(followers') = scs \ leaders
      /\ leaders # {} => leader' \in leaders
  BY <1>1, <1>2, Built DEF IInv, Heard
<1>4. ASSUME NEW d \in Conns, Alone(d)', stage'[d] # "closed"
      PROVE  Fits(d)'
  <2>1. d = c
    BY <1>4 DEF Alone
  <2> QED BY <1>2, <1>3, <2>1 DEF Fits
<1>5. PickerFits'
  BY <1>4 DEF PickerFits
<1> QED BY <1>3, <1>5 DEF IInv

\* Subconnections come and go.
LEMMA SubConnSteps ==
  ASSUME IInv, NEW c \in Conns, NEW sc \in SubConn,
         Connected(c, sc) \/ Redialled(c, sc) \/ Disconnected(c, sc)
  PROVE  IInv'
<1>1. known' = known /\ stage' = stage /\ current' = current /\ Heard(c)
  BY DEF Connected, Redialled, Disconnected, resolverVars
<1>2. \/ /\ ready' = [ready EXCEPT ![c] = @ \cup {sc}] /\ sc \in SubConns(c, known[c])
         /\ redialled' = redialled
      \/ /\ ready' = [ready EXCEPT ![c] = @ \ {sc}] /\ sc \in ready[c]
         /\ redialled' = [redialled EXCEPT ![c] = @ \ {sc}]
  <2>1. CASE Redialled(c, sc)
    BY <2>1 DEF Redialled, IInv, ResolverTypes
  <2>2. CASE Connected(c, sc) \/ Disconnected(c, sc)
    BY <2>2 DEF Connected, Disconnected
  <2> QED BY <2>1, <2>2
<1>3. known[c] # {} /\ stage[c] \notin {"new", "closed"}
  BY <1>2 DEF SubConns, IInv, ResolverTypes, Dialled
<1>4. ready' \in [Conns -> SUBSET SubConn] /\ redialled' \in [Conns -> SUBSET SubConn]
      /\ \A d \in Conns : redialled'[d] \subseteq ready'[d] /\ ready'[d] \subseteq SubConns(d, known'[d])
  BY <1>1, <1>2 DEF IInv, ResolverTypes
<1>5. ResolverTypes'
  BY <1>1, <1>4 DEF Connected, Redialled, Disconnected, resolverVars, IInv, ResolverTypes
<1>6. Dialled'
  BY DEF Connected, Redialled, Disconnected, resolverVars, IInv, Dialled
<1> QED BY <1>1, <1>3, <1>5, <1>6, BuildSteps

\* UpdateState on the connection the resolver has: what is ready and not connected
\* anew is still what it was said to be.
LEMMA UpdateSteps ==
  ASSUME IInv, UpdateState
  PROVE  IInv'
<1>1. PICK c \in Conns : c = clientConn
  BY DEF UpdateState, Answered, IInv, Dialled
<1>2. stage[c] \notin {"new", "closed"} /\ resolving \in Call
  BY <1>1 DEF UpdateState, Answered, IInv, ResolverTypes, Dialled
<1>3. PICK A \in SUBSET Address : A = resolving.servers
  BY <1>2 DEF Call
<1> DEFINE other == {sc \in ready[c] : SaidToLead(sc, A) # SaidToLead(sc, known[c])}
<1>4. /\ known' = [known EXCEPT ![c] = A]
      /\ redialled' = [redialled EXCEPT ![c] = @ \cup other]
      /\ UNCHANGED <<raftLeader, clientConn, resolverConn, closed, stage, wanted, current,
                     ready, leader, followers, picks, missed>>
      /\ resolving' = NoCall
  BY <1>1, <1>3 DEF UpdateState
<1>5. ResolverTypes'
  <2>1. \A d \in Conns : redialled'[d] \subseteq ready'[d]
    BY <1>4 DEF IInv, ResolverTypes
  <2>2. ready[c] \subseteq SubConns(c, A)
    <3>1. \A s \in Servers : \E a \in A : a.server = s
      <4>1. Range(resolving.todo) = {}
        BY DEF UpdateState, Answered, Range
      <4> QED BY <1>2, <1>3, <4>1 DEF Call
    <3>2. \A sc \in ready[c] : sc.server \in Servers /\ sc = [conn |-> c, server |-> sc.server]
      BY DEF IInv, ResolverTypes, SubConns, Address
    <3> QED BY <3>1, <3>2 DEF SubConns
  <2>3. redialled' \in [Conns -> SUBSET SubConn]
    BY <1>4 DEF IInv, ResolverTypes
  <2>4. \A d \in Conns : ready'[d] \subseteq SubConns(d, known'[d])
    BY <1>4, <2>2 DEF IInv, ResolverTypes
  <2> QED BY <1>4, <2>1, <2>3, <2>4 DEF IInv, ResolverTypes
<1>6. Dialled'
  BY <1>2, <1>4 DEF IInv, ResolverTypes, Dialled
<1>7. PickerTypes' /\ FollowersOnce' /\ PicksInTurn'
  BY <1>4, PickerSame DEF IInv
<1>8. PickerFits'
  <2>1. SUFFICES ASSUME NEW d \in Conns, Alone(d)', stage'[d] # "closed", redialled'[d] = {}
                 PROVE  Fits(d)'
    BY DEF PickerFits
  <2>2. Alone(d) /\ stage[d] # "closed" /\ redialled[d] = {}
    BY <1>4, <2>1 DEF Alone, IInv, ResolverTypes
  <2>3. Fits(d)
    BY <2>2 DEF IInv, PickerFits
  <2>4. CASE d = c
    <3>1. other = {} /\ known'[c] = A
      BY <1>4, <2>1, <2>4 DEF IInv, ResolverTypes
    <3>2. Leaders(c)' = Leaders(c)
      BY <1>4, <3>1 DEF Leaders
    <3> QED BY <1>4, <2>3, <2>4, <3>2 DEF Fits
  <2>5. CASE d # c
    <3>1. Leaders(d)' = Leaders(d)
      BY <1>4, <2>5 DEF Leaders, IInv, ResolverTypes
    <3> QED BY <1>4, <2>3, <3>1 DEF Fits
  <2> QED BY <2>4, <2>5
<1> QED BY <1>5, <1>6, <1>7, <1>8 DEF IInv

\* A follower is picked.
LEMMA ConsumeSteps ==
  ASSUME IInv, Consume
  PROVE  IInv'
<1>1. /\ followers # <<>> /\ current < MaxPicks /\ current' = current + 1
      /\ picks' = Append(picks, NextFollower(current + 1))
      /\ UNCHANGED <<raftLeader, resolverVars, known, ready, redialled, leader, followers>>
  BY DEF Consume, PickForConsume
<1>2. current \in Nat /\ current + 1 \in Nat /\ picks \in Seq(SubConn)
      /\ followers \in Seq(SubConn)
  BY ConstantsAssumption DEF IInv, PickerTypes
<1>3. NextFollower(current + 1) \in SubConn
  <2>1. Len(followers) \in Nat \ {0}
    BY <1>1, <1>2
  <2>2. ((current + 1) % Len(followers)) + 1 \in 1..Len(followers)
    BY <1>2, <2>1
  <2> QED BY <1>2, <2>2 DEF NextFollower
<1>4. PickerTypes'
  BY <1>1, <1>2, <1>3, ConstantsAssumption DEF IInv, PickerTypes
<1>5. PicksInTurn'
  <2>1. /\ Len(picks') = Len(picks) + 1 /\ Len(picks) \in Nat
        /\ picks'[Len(picks) + 1] = NextFollower(current + 1)
        /\ \A i \in 1..Len(picks) : picks'[i] = picks[i]
    BY <1>1, <1>2, <1>3
  <2>2. \A n : NextFollower(n)' = followers[(n' % Len(followers)) + 1]
    BY <1>1 DEF NextFollower
  <2>3. ASSUME NEW i \in 1..Len(picks')
        PROVE  picks'[i] = followers[(((current' - Len(picks')) + i) % Len(followers)) + 1]
    <3>1. (current' - Len(picks')) + i = (current - Len(picks)) + i
      BY <1>1, <1>2, <2>1
    <3>2. CASE i \in 1..Len(picks)
      BY <2>1, <3>1, <3>2 DEF IInv, PicksInTurn, NextFollower
    <3>3. CASE i = Len(picks) + 1
      <4>1. (current - Len(picks)) + i = current + 1
        BY <1>2, <2>1, <3>3
      <4> QED BY <2>1, <3>1, <3>3, <4>1 DEF NextFollower
    <3> QED BY <2>1, <3>2, <3>3
  <2>4. Len(picks') <= current'
    BY <1>1, <1>2, <2>1 DEF IInv, PicksInTurn
  <2> QED BY <1>1, <2>3, <2>4 DEF PicksInTurn, NextFollower
<1>6. ResolverTypes' /\ Dialled' /\ FollowersOnce'
  BY <1>1 DEF IInv, ResolverTypes, Dialled, FollowersOnce, resolverVars
<1>7. PickerFits'
  BY <1>1, FitsSame DEF IInv, resolverVars
<1> QED BY <1>4, <1>5, <1>6, <1>7 DEF IInv

(***************************************************************************)
(* The theorems                                                            *)
(***************************************************************************)

\* At first there is no connection and the picker is empty.
LEMMA InitIInv ==
  ASSUME Init
  PROVE  IInv
<1>1. ResolverTypes /\ Dialled
  BY ConstantsAssumption DEF Init, ResolverTypes, Dialled
<1>2. PickerTypes
  BY ConstantsAssumption DEF Init, PickerTypes
<1>3. Range(followers) = {} /\ IsInjective(followers)
  BY DEF Init, Range, IsInjective
<1>4. PickerFits /\ FollowersOnce
  BY <1>3 DEF Init, PickerFits, Fits, Leaders, FollowersOnce
<1>5. PicksInTurn
  BY DEF Init, PicksInTurn
<1> QED BY <1>1, <1>2, <1>4, <1>5 DEF IInv

\* Every step keeps the invariant.
LEMMA NextIInv ==
  ASSUME IInv, [Next]_vars
  PROVE  IInv'
BY ResolverSteps, CloseSteps, SubConnSteps, UpdateSteps, ConsumeSteps DEF Next

\* The inductive invariant: what is stored of a connection once it is dialled, and
\* that the picker of a connection that is alone was built from what it has ready.
THEOREM IInvHolds == Spec => []IInv
<1> QED BY InitIInv, NextIInv, PTL DEF Spec

\* Every variable keeps its type: a call of ResolveNow has a connection to go out
\* on, and what is connected anew is among what is ready.
THEOREM TypeOKHolds == Spec => []TypeOK
<1>1. IInv => TypeOK
  BY DEF IInv, ResolverTypes, PickerTypes, TypeOK, Call
<1> QED BY <1>1, IInvHolds, PTL

\* A connection that is alone and has all its servers ready consumes from all that
\* do not lead and produces to one said to lead (picker.go:41).
THEOREM SettledRoutingHolds == Spec => []SettledRouting
<1>1. ASSUME IInv PROVE SettledRouting
  <2>1. SUFFICES ASSUME NEW c \in Conns, Alone(c), known[c] # {}, redialled[c] = {}
                 PROVE  Fits(c)
    BY DEF SettledRouting, Fits, PickForProduce
  <2>2. stage[c] # "closed"
    BY <1>1, <2>1 DEF IInv, Dialled
  <2> QED BY <1>1, <2>1, <2>2 DEF IInv, PickerFits
<1> QED BY <1>1, IInvHolds, PTL

\* Consumers take the followers in turn (picker.go:82), wherever the counter
\* stood when the picker was built.
THEOREM RoundRobinHolds == Spec => []RoundRobin
<1>1. ASSUME IInv PROVE RoundRobin
  <2>1. SUFFICES ASSUME NEW i \in 1..Len(picks), NEW j \in 1..Len(picks),
                        i < j, j - i < Len(followers)
                 PROVE  picks[i] # picks[j]
    BY DEF RoundRobin
  <2>2. /\ current \in Nat /\ Len(picks) \in Nat /\ Len(picks) <= current
        /\ followers \in Seq(SubConn)
    BY <1>1, ConstantsAssumption DEF IInv, PickerTypes, PicksInTurn
  <2>3. PICK n \in Nat \ {0} : n = Len(followers)
    BY <2>1, <2>2
  <2>4. PICK a \in Nat, b \in Nat : a = (current - Len(picks)) + i /\ b = (current - Len(picks)) + j
    <3>1. (current - Len(picks)) + i \in Nat /\ (current - Len(picks)) + j \in Nat
      BY <2>2
    <3> QED BY <3>1
  <2>5. a < b /\ b - a < n
    BY <2>1, <2>2, <2>3, <2>4
  <2>6. a % n # b % n /\ (a % n) + 1 \in 1..n /\ (b % n) + 1 \in 1..n
    <3>1. a % n # b % n
      BY <2>5, RemaindersDiffer
    <3>2. a % n \in 0..(n - 1) /\ b % n \in 0..(n - 1)
      OBVIOUS
    <3> QED BY <3>1, <3>2
  <2>7. picks[i] = followers[(a % n) + 1] /\ picks[j] = followers[(b % n) + 1]
    BY <1>1, <2>3, <2>4 DEF IInv, PicksInTurn, NextFollower
  <2>8. DOMAIN followers = 1..n
    BY <2>2, <2>3
  <2>9. (a % n) + 1 # (b % n) + 1
    BY <2>6
  <2> QED BY <1>1, <2>6, <2>7, <2>8, <2>9 DEF IInv, FollowersOnce, IsInjective
<1> QED BY <1>1, IInvHolds, PTL

=============================================================================
