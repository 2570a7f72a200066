--------------------------- MODULE MembershipProofs ---------------------------
(***************************************************************************)
(* What TLAPS proves of Membership, for any servers, addresses and numbers *)
(* of starts, stops and elections: the types, and Converged.               *)
(*                                                                         *)
(* The argument: the last event about a member that a leader still has to  *)
(* act on says what serf knows of it (Heeded); once there is none, raft's  *)
(* configuration does (Settled).  Whoever has an event under way when the  *)
(* leader goes is lost, so that the next leader begins with what is        *)
(* settled.                                                                *)
(***************************************************************************)
EXTENDS Membership, FiniteSetTheorems, SequenceTheorems, TLAPS

(***************************************************************************)
(* The invariant                                                           *)
(***************************************************************************)

Types ==
  /\ status \in [Servers -> {"down", "starting", "up", "leaving", "left"}]
  /\ addr \in [Servers -> Addrs]
  /\ believed \subseteq Servers
  /\ queue \in [Servers -> Seq(Event)]
  /\ busy \in [Servers -> Call \cup {Idle}]
  /\ deaf \subseteq Servers
  /\ conf \subseteq Voter
  /\ leader \in Ids(conf) \cup {NoServer}
  /\ lost \subseteq Servers /\ stale \subseteq believed

\* No two voters have one id or one address, so at most two stand in the way of
\* a server that joins.
OneEach == \A s, t \in conf : s.id = t.id \/ s.addr = t.addr => s = t

\* The calls are for joins of others.
JoinCalls ==
  \A n \in Servers : busy[n] # Idle => busy[n].event.type = "join" /\ busy[n].event.name # n

\* Only a running event handler has events, and a leader runs.
Awake ==
  /\ \A n \in Servers \ Serving : queue[n] = <<>> /\ busy[n] = Idle
  /\ leader = NoServer \/ leader \in Running
  /\ Up \subseteq believed

\* An event that says of n what serf has told the handlers.
Right(e, n) ==
  IF n \in believed THEN /\ e.type = "join" /\ e.name = n
                         /\ n \in stale \/ e.addr = addr[n]
  ELSE e.type = "gone"

\* Raft's configuration has what serf has told the handlers of n.
Settled(n) ==
  IF n \in believed THEN /\ n \in Ids(conf)
                         /\ n \in stale \/ [id |-> n, addr |-> addr[n]] \in conf
  ELSE n \notin Ids(conf)

Queued(l, n) == \E k \in 1..Len(queue[l]) : queue[l][k].name = n

\* The k-th event of the handler of l is its last one about n.
LastNews(l, n, k) ==
  /\ k \in 1..Len(queue[l]) /\ queue[l][k].name = n
  /\ \A j \in 1..Len(queue[l]) : k < j => queue[l][j].name # n

\* What the handler of l is about to do leaves n as serf has told of it.
Heeded(l, n) ==
  /\ \A k \in 1..Len(queue[l]) : LastNews(l, n, k) => Right(queue[l][k], n)
  /\ ~Queued(l, n) /\ n \in InCall(l) => Right(busy[l].event, n)
  /\ ~Queued(l, n) /\ n \notin InCall(l) => Settled(n)

\* Of every member that is not lost, a leader that is up knows what to do.
AllHeeded ==
  \A n \in Servers \ lost : IF leader \in Up \ {n} THEN Heeded(leader, n) ELSE Settled(n)

\* A leader that is not up does nothing any more to the others.
OthersHarmless ==
  leader \in Servers \ Up =>
    /\ \A k \in 1..Len(queue[leader]) : queue[leader][k].name \in lost
    /\ InCall(leader) \subseteq lost

IInv == Types /\ OneEach /\ JoinCalls /\ Awake /\ AllHeeded /\ OthersHarmless

(***************************************************************************)
(* Lemmas about the operators                                              *)
(***************************************************************************)

\* The members of a finite set make a sequence.
LEMMA SeqOfFiniteSet ==
  ASSUME NEW S, IsFiniteSet(S)
  PROVE  /\ SetToSeq(S) \in Seq(S)
         /\ Len(SetToSeq(S)) \in Nat
         /\ \A k \in 1..Len(SetToSeq(S)) : SetToSeq(S)[k] \in S
<1> DEFINE c == Cardinality(S)
<1>1. c \in Nat /\ ExistsBijection(1..c, S)
  BY FS_CardinalityType
<1>2. PICK f \in [1..c -> S] : IsInjective(f)
  BY <1>1 DEF ExistsBijection, Bijection, Injection, Surjection, IsInjective
<1>3. SetToSeq(S) \in [1..c -> S]
  BY <1>2 DEF SetToSeq
<1> HIDE DEF c
<1>4. SetToSeq(S) \in Seq(S)
  BY <1>1, <1>3, SeqDef
<1> QED BY <1>4, LenProperties, ElementOfSeq

\* There are finitely many joins to tell a member that starts of.
LEMMA JoinsFinite ==
  ASSUME NEW S \in SUBSET Servers
  PROVE  IsFiniteSet({JoinEvent(m) : m \in S})
<1> DEFINE f == [m \in S |-> JoinEvent(m)]
           T == {JoinEvent(m) : m \in S}
<1>1. IsFiniteSet(S)
  BY ServersAssumption, FS_Subset
<1>2. f \in [S -> T] /\ \A e \in T : \E m \in S : f[m] = e
  OBVIOUS
<1>3. f \in Surjection(S, T)
  BY <1>2 DEF Surjection
<1> HIDE DEF f, T
<1>4. IsFiniteSet(T)
  BY <1>1, <1>3, FS_Surjection
<1> QED BY <1>4 DEF T

\* Two entries of the configuration at most stand in the way of a server.
LEMMA AtMostTwoClash ==
  ASSUME Types, OneEach, NEW e \in Event
  PROVE  Cardinality(Clashes(e)) \in 0..2
<1> DEFINE s == CHOOSE x \in conf : x.id = e.name
           t == CHOOSE x \in conf : x.addr = e.addr
<1>1. \A x \in conf : x.id = e.name => x = s
  BY DEF OneEach
<1>2. \A x \in conf : x.addr = e.addr => x = t
  BY DEF OneEach
<1> HIDE DEF s, t
<1>3. Clashes(e) \subseteq {s} \cup {t}
  BY <1>1, <1>2 DEF Clashes
<1>4. IsFiniteSet({s}) /\ Cardinality({s}) = 1
  BY FS_Singleton
<1>5. /\ IsFiniteSet({s} \cup {t})
      /\ Cardinality({s} \cup {t}) = IF t \in {s} THEN Cardinality({s}) ELSE Cardinality({s}) + 1
  BY <1>4, FS_AddElement
<1>6. IsFiniteSet(Clashes(e)) /\ Cardinality(Clashes(e)) <= Cardinality({s} \cup {t})
  BY <1>3, <1>5, FS_Subset
<1>7. Cardinality(Clashes(e)) \in Nat
  BY <1>6, FS_CardinalityType
<1> QED BY <1>4, <1>5, <1>6, <1>7

\* Where an element of a sequence that lost its head or got one more was.
LEMMA TailElements ==
  ASSUME NEW s \in Seq(Event), s # <<>>
  PROVE  /\ Head(s) = s[1] /\ s[1] \in Event
         /\ Tail(s) \in Seq(Event)
         /\ Len(s) \in Nat \ {0} /\ Len(Tail(s)) = Len(s) - 1
         /\ \A k \in 1..Len(Tail(s)) : Tail(s)[k] = s[k + 1]
BY HeadTailProperties, EmptySeq, ElementOfSeq

(***************************************************************************)
(* What is under way                                                       *)
(***************************************************************************)

\* The events that handlers have not acted on are about these members.
UnderWay ==
  /\ InFlight \subseteq Servers
  /\ \A l \in Servers :
       /\ InCall(l) \subseteq InFlight
       /\ \A k \in 1..Len(queue[l]) : queue[l][k].name \in InFlight

LEMMA NamesInFlight == Types => UnderWay
<1> SUFFICES ASSUME Types PROVE UnderWay
  OBVIOUS
<1>1. \A l \in Servers : Range(queue[l]) = {queue[l][k] : k \in 1..Len(queue[l])}
  BY LenProperties DEF Types, Range
<1>2. \A l \in Servers : \A k \in 1..Len(queue[l]) : queue[l][k].name \in Servers
  <2>1. \A l \in Servers : \A k \in 1..Len(queue[l]) : queue[l][k] \in Event
    BY ElementOfSeq DEF Types
  <2> QED BY <2>1 DEF Event
<1>3. \A l \in Servers : InCall(l) \subseteq Servers
  BY DEF Types, InCall, Call, Event
<1> DEFINE about(l) == {e.name : e \in Range(queue[l])} \cup InCall(l)
<1>4. \A l \in Servers : \A k \in 1..Len(queue[l]) : queue[l][k].name \in about(l)
  BY <1>1
<1>5. \A l \in Servers : about(l) \subseteq Servers
  BY <1>1, <1>2, <1>3
<1>6. \A l \in Servers : InCall(l) \subseteq about(l)
  OBVIOUS
<1>7. InFlight = UNION {about(l) : l \in Servers}
  BY DEF InFlight
<1> HIDE DEF about
<1> QED BY <1>4, <1>5, <1>6, <1>7 DEF UnderWay

\* Whoever is not lost and has nothing under way is settled.
LEMMA QuietIsSettled ==
  ASSUME IInv, NEW m \in Servers \ lost, m \notin InFlight
  PROVE  Settled(m)
<1>1. CASE leader \in Up \ {m}
  <2>1. leader \in Servers /\ Heeded(leader, m)
    BY <1>1 DEF IInv, AllHeeded, Up
  <2>2. ~Queued(leader, m) /\ m \notin InCall(leader)
    BY <2>1, NamesInFlight DEF IInv, Queued, UnderWay
  <2> QED BY <2>1, <2>2 DEF Heeded
<1>2. CASE leader \notin Up \ {m}
  BY <1>2 DEF IInv, AllHeeded
<1> QED BY <1>1, <1>2

\* When all with something under way are lost, any leader is a good one.
LEMMA LostIsEnough ==
  ASSUME Types', InFlight' \subseteq lost', \A m \in Servers \ lost' : Settled(m)'
  PROVE  AllHeeded' /\ OthersHarmless'
<1>1. UnderWay'
  BY NamesInFlight, PTL
<1>2. OthersHarmless'
  BY <1>1 DEF OthersHarmless, UnderWay, Up
<1>3. \A l \in Servers, m \in Servers \ lost' : Heeded(l, m)'
  <2> SUFFICES ASSUME NEW l \in Servers, NEW m \in Servers \ lost' PROVE Heeded(l, m)'
    OBVIOUS
  <2>1. \A k \in 1..Len(queue'[l]) : queue'[l][k].name # m
    BY <1>1 DEF UnderWay
  <2>2. m \notin InCall(l)' /\ Settled(m)'
    BY <1>1 DEF UnderWay
  <2> QED BY <2>1, <2>2 DEF Heeded, LastNews, Queued
<1> QED BY <1>2, <1>3 DEF AllHeeded, Up

(***************************************************************************)
(* What a step leaves as it was                                            *)
(***************************************************************************)

\* A step that changes neither what serf tells of m nor its entry: a new address
\* is not told of a member that serf takes for alive.
Same(m) ==
  /\ m \in believed' <=> m \in believed
  /\ m \in believed => m \in stale' \/ (m \notin stale /\ addr'[m] = addr[m])
  /\ \A s \in Voter : s.id = m => (s \in conf' <=> s \in conf)

LEMMA SameSettled ==
  ASSUME Types, Types', NEW m \in Servers, Same(m)
  PROVE  Settled(m) => Settled(m)'
<1>1. m \in Ids(conf') <=> m \in Ids(conf)
  BY DEF Same, Types, Ids
<1>2. [id |-> m, addr |-> addr[m]] \in Voter
  BY DEF Types, Voter
<1> QED BY <1>1, <1>2 DEF Same, Settled

LEMMA SameRight ==
  ASSUME NEW m \in Servers, Same(m)
  PROVE  \A e : Right(e, m) => Right(e, m)'
BY DEF Same, Right

\* A step in which the handler of l reads, acts on or is told of an event about
\* c is none of the business of m.
LEMMA HeededKept ==
  ASSUME Types, Types', NEW l \in Servers, NEW m \in Servers, NEW c, Same(m), Heeded(l, m),
         \/ queue'[l] = queue[l]
         \/ queue[l] # <<>> /\ Head(queue[l]).name = c /\ queue'[l] = Tail(queue[l]) /\ c # m
         \/ \E e \in Event : e.name = c /\ queue'[l] = Append(queue[l], e) /\ c # m,
         \/ busy'[l] = busy[l]
         \/ InCall(l) \cup InCall(l)' \subseteq {c} /\ c # m
  PROVE  Heeded(l, m)'
<1> DEFINE q == queue[l]
           r == queue'[l]
<1>1. q \in Seq(Event) /\ Len(q) \in Nat
  BY LenProperties DEF Types
<1>2. /\ m \in InCall(l)' <=> m \in InCall(l)
      /\ m \in InCall(l) => busy'[l] = busy[l]
  BY DEF InCall
<1>3. \A e : Right(e, m) => Right(e, m)'
  BY SameRight
<1>4. Settled(m) => Settled(m)'
  BY SameSettled
<1>5. /\ \A k \in 1..Len(q) : (q[k].name = m /\ \A j \in 1..Len(q) : k < j => q[j].name # m) => Right(q[k], m)
      /\ (\A k \in 1..Len(q) : q[k].name # m) /\ m \in InCall(l) => Right(busy[l].event, m)
      /\ (\A k \in 1..Len(q) : q[k].name # m) /\ m \notin InCall(l) => Settled(m)
  BY DEF Heeded, LastNews, Queued
<1> SUFFICES
      /\ \A k \in 1..Len(r) : (r[k].name = m /\ \A j \in 1..Len(r) : k < j => r[j].name # m) => Right(r[k], m)
      /\ (\E k \in 1..Len(r) : r[k].name = m) <=> (\E k \in 1..Len(q) : q[k].name = m)
  <2>1. \A k \in 1..Len(r) : LastNews(l, m, k)' => Right(queue[l][k], m)'
    BY <1>3 DEF LastNews
  <2>2. Queued(l, m)' <=> \E k \in 1..Len(q) : q[k].name = m
    BY DEF Queued
  <2> HIDE DEF q
  <2>3. ~Queued(l, m)' /\ m \in InCall(l)' => Right(busy[l].event, m)'
    BY <1>2, <1>3, <1>5, <2>2
  <2>4. ~Queued(l, m)' /\ m \notin InCall(l)' => Settled(m)'
    BY <1>2, <1>4, <1>5, <2>2
  <2> QED BY <2>1, <2>3, <2>4 DEF Heeded, LastNews
<1>6. CASE r = q
  BY <1>5, <1>6
<1>7. CASE q # <<>> /\ Head(q).name = c /\ r = Tail(q) /\ c # m
  <2>1. /\ q[1].name # m /\ Len(q) \in Nat \ {0} /\ Len(r) = Len(q) - 1
        /\ \A k \in 1..Len(r) : r[k] = q[k + 1]
    BY <1>1, <1>7, TailElements
  <2> HIDE DEF q, r
  <2>2. \A k \in 1..Len(q) : q[k].name = m => k - 1 \in 1..Len(r) /\ r[k - 1] = q[k]
    BY <2>1
  <2>3. ASSUME NEW k \in 1..Len(r), r[k].name = m, \A j \in 1..Len(r) : k < j => r[j].name # m
        PROVE  Right(r[k], m)
    <3>1. k + 1 \in 1..Len(q) /\ q[k + 1] = r[k]
      BY <2>1
    <3>2. \A j \in 1..Len(q) : k + 1 < j => q[j].name # m
      BY <2>2, <2>3
    <3> QED BY <1>5, <2>3, <3>1, <3>2
  <2>4. \A k \in 1..Len(r) : k + 1 \in 1..Len(q) /\ q[k + 1] = r[k]
    BY <2>1
  <2> QED BY <2>2, <2>3, <2>4
<1>8. CASE \E e \in Event : e.name = c /\ r = Append(q, e) /\ c # m
  <2>1. PICK e \in Event : e.name # m /\ r = Append(q, e)
    BY <1>8
  <2>2. /\ Len(r) = Len(q) + 1 /\ r[Len(q) + 1] = e
        /\ \A k \in 1..Len(q) : r[k] = q[k]
    BY <1>1, <2>1, AppendProperties
  <2> HIDE DEF q, r
  <2>3. \A k \in 1..Len(r) : r[k].name = m => k \in 1..Len(q)
    BY <1>1, <2>1, <2>2
  <2>4. 1..Len(q) \subseteq 1..Len(r)
    BY <1>1, <2>2
  <2> QED BY <1>5, <2>2, <2>3, <2>4
<1> QED BY <1>6, <1>7, <1>8

\* The last event about m that its handler is told of is right.
LEMMA HeededTold ==
  ASSUME Types, Types', NEW l \in Servers, NEW m \in Servers, NEW e \in Event,
         e.name = m, Right(e, m)', queue'[l] = Append(queue[l], e)
  PROVE  Heeded(l, m)'
<1>1. queue[l] \in Seq(Event) /\ Len(queue[l]) \in Nat
  BY LenProperties DEF Types
<1>2. Len(queue'[l]) = Len(queue[l]) + 1 /\ queue'[l][Len(queue[l]) + 1] = e
  BY <1>1, AppendProperties
<1>3. Len(queue'[l]) \in 1..Len(queue'[l]) /\ queue'[l][Len(queue'[l])] = e
  BY <1>1, <1>2
<1>4. \A k \in 1..Len(queue'[l]) : k = Len(queue'[l]) \/ k < Len(queue'[l])
  BY <1>1, <1>2
<1> QED BY <1>3, <1>4 DEF Heeded, LastNews, Queued

\* An event about m that was the last one is right when it is read.
LEMMA ReadIsRight ==
  ASSUME Types, Types', NEW l \in Servers, NEW m \in Servers, Heeded(l, m), queue[l] # <<>>,
         Head(queue[l]).name = m, queue'[l] = Tail(queue[l]),
         \A e : Right(e, m) => Right(e, m)'
  PROVE  /\ \A k \in 1..Len(queue'[l]) : LastNews(l, m, k)' => Right(queue[l][k], m)'
         /\ Queued(l, m)' \/ Right(Head(queue[l]), m)
<1> DEFINE q == queue[l]
           r == queue'[l]
<1>1. q \in Seq(Event)
  BY DEF Types
<1>2. /\ Head(q) = q[1] /\ Len(q) \in Nat \ {0} /\ Len(r) = Len(q) - 1
      /\ \A k \in 1..Len(r) : r[k] = q[k + 1]
  BY <1>1, TailElements
<1>3. \A k \in 1..Len(q) : (q[k].name = m /\ \A j \in 1..Len(q) : k < j => q[j].name # m) => Right(q[k], m)
  BY DEF Heeded, LastNews
<1>4. ASSUME NEW k \in 1..Len(r), LastNews(l, m, k)'
      PROVE  Right(queue[l][k], m)'
  <2>1. r[k].name = m /\ \A j \in 1..Len(r) : k < j => r[j].name # m
    BY <1>4 DEF LastNews
  <2> HIDE DEF q, r
  <2>2. k + 1 \in 1..Len(q) /\ q[k + 1] = r[k]
    BY <1>2
  <2>3. \A j \in 1..Len(q) : k + 1 < j => j - 1 \in 1..Len(r) /\ k < j - 1 /\ q[j] = r[j - 1]
    BY <1>2
  <2>4. Right(q[k + 1], m)
    BY <1>3, <2>1, <2>2, <2>3
  <2>5. \A e : e = q[k + 1] => Right(e, m)'
    BY <2>4
  <2> QED BY <2>2, <2>5 DEF r
<1>5. ASSUME ~Queued(l, m)' PROVE Right(Head(q), m)
  <2>1. \A k \in 1..Len(r) : r[k].name # m
    BY <1>5 DEF Queued
  <2>2. q[1].name = m
    BY <1>2
  <2> HIDE DEF q, r
  <2>3. \A j \in 1..Len(q) : 1 < j => j - 1 \in 1..Len(r) /\ q[j] = r[j - 1]
    BY <1>2
  <2>4. 1 \in 1..Len(q)
    BY <1>2
  <2> QED BY <1>2, <1>3, <2>1, <2>2, <2>3, <2>4
<1> QED BY <1>4, <1>5

(***************************************************************************)
(* Three kinds of steps under one leader                                   *)
(***************************************************************************)

\* The step is none of the leader's business.
LEMMA AsideOfLeader ==
  ASSUME IInv, Types', leader' = leader, lost \subseteq lost',
         leader \in Servers => /\ leader \in Up' <=> leader \in Up
                              /\ queue'[leader] = queue[leader]
                              /\ busy'[leader] = busy[leader],
         \A m \in Servers \ lost' : Same(m)
  PROVE  AllHeeded' /\ OthersHarmless'
<1> USE DEF IInv
<1>1. ASSUME NEW m \in Servers \ lost', leader \in Up' \ {m}
      PROVE  Heeded(leader, m)'
  <2>1. leader \in Servers /\ leader \in Up \ {m}
    BY <1>1 DEF Up
  <2>2. Heeded(leader, m) /\ queue'[leader] = queue[leader] /\ busy'[leader] = busy[leader]
    BY <2>1 DEF AllHeeded
  <2>3. PICK i \in Servers : i = leader
    BY <2>1
  <2>4. Heeded(i, m)'
    BY <2>2, <2>3, HeededKept
  <2> QED BY <2>3, <2>4 DEF Heeded, LastNews, Queued, InCall
<1>2. ASSUME NEW m \in Servers \ lost', leader \notin Up' \ {m}
      PROVE  Settled(m)'
  <2>1. leader \notin Up \ {m}
    BY <1>2 DEF Up
  <2> QED BY <2>1, SameSettled DEF AllHeeded
<1>3. OthersHarmless'
  BY DEF OthersHarmless, InCall, Up
<1> QED BY <1>1, <1>2, <1>3 DEF AllHeeded

\* Something happens to another member, and the leader is told if it is up.
LEMMA LeaderIsTold ==
  ASSUME IInv, Types', leader' = leader, NEW n \in Servers, leader # n,
         NEW e \in Event, e.name = n, Right(e, n)', lost \cup Heard(Up, n) \subseteq lost',
         leader \in Servers =>
           /\ leader \in Up' <=> leader \in Up
           /\ queue'[leader] = IF leader \in Up THEN Append(queue[leader], e) ELSE queue[leader]
           /\ busy'[leader] = busy[leader],
         \A m \in Servers \ {n} : Same(m)
  PROVE  AllHeeded' /\ OthersHarmless'
<1> USE DEF IInv
<1>1. ASSUME NEW m \in Servers \ lost', leader \in Up' \ {m}
      PROVE  Heeded(leader, m)'
  <2>1. leader \in Servers /\ leader \in Up \ {m}
    BY <1>1 DEF Up
  <2>2. /\ Heeded(leader, m)
        /\ queue'[leader] = Append(queue[leader], e) /\ busy'[leader] = busy[leader]
    BY <2>1 DEF AllHeeded
  <2>3. PICK i \in Servers : i = leader
    BY <2>1
  <2>4. CASE m = n
    <3>1. Heeded(i, m)'
      BY <2>2, <2>3, <2>4, HeededTold
    <3> QED BY <2>3, <3>1 DEF Heeded, LastNews, Queued, InCall
  <2>5. CASE m # n
    <3>1. Heeded(i, m)'
      BY <2>2, <2>3, <2>5, HeededKept
    <3> QED BY <2>3, <3>1 DEF Heeded, LastNews, Queued, InCall
  <2> QED BY <2>4, <2>5
<1>2. ASSUME NEW m \in Servers \ lost', leader \notin Up' \ {m}
      PROVE  Settled(m)'
  <2>1. leader \notin Up \ {m}
    BY <1>2 DEF Up
  <2>2. m # n
    BY <2>1 DEF Heard
  <2> QED BY <2>1, <2>2, SameSettled DEF AllHeeded
<1>3. OthersHarmless'
  BY DEF OthersHarmless, InCall, Up
<1> QED BY <1>1, <1>2, <1>3 DEF AllHeeded

\* The handler of the leader deals with an event about c.
LEMMA LeaderActs ==
  ASSUME IInv, Types', NEW l \in Servers, leader = l, leader' = l, status' = status,
         lost \subseteq lost', NEW c,
         \/ queue[l] # <<>> /\ Head(queue[l]).name = c /\ queue'[l] = Tail(queue[l])
         \/ c \in InCall(l) /\ queue'[l] = queue[l],
         \/ busy'[l] = busy[l]
         \/ InCall(l) \cup InCall(l)' \subseteq {c},
         \A m \in Servers \ {c} : Same(m),
         c \in Servers \ lost' /\ l \in Up => IF c = l THEN Same(l) ELSE Heeded(l, c)'
  PROVE  AllHeeded' /\ OthersHarmless'
<1> USE DEF IInv
<1>1. Up' = Up
  BY DEF Up
<1>2. ASSUME NEW m \in Servers \ lost', l \in Up \ {m}
      PROVE  Heeded(l, m)'
  <2>1. Heeded(l, m)
    BY <1>2 DEF AllHeeded
  <2>2. CASE m = c
    BY <1>2, <2>2
  <2>3. CASE m # c
    BY <2>1, <2>3, HeededKept
  <2> QED BY <2>2, <2>3
<1>3. l \notin Up => c \in lost
  <2> SUFFICES ASSUME l \notin Up PROVE c \in lost
    OBVIOUS
  <2>1. queue[l] \in Seq(Event)
    BY DEF Types
  <2>2. queue[l] # <<>> => Head(queue[l]) = queue[l][1] /\ 1 \in 1..Len(queue[l])
    BY <2>1, TailElements
  <2> QED BY <2>2 DEF OthersHarmless
<1>4. ASSUME NEW m \in Servers \ lost', l \notin Up \ {m}
      PROVE  Settled(m)'
  <2>1. Settled(m)
    BY <1>4 DEF AllHeeded
  <2>2. Same(m)
    BY <1>3, <1>4
  <2> QED BY <2>1, <2>2, SameSettled
<1>5. ASSUME l \notin Up
      PROVE  /\ \A k \in 1..Len(queue'[l]) : queue'[l][k].name \in lost'
             /\ InCall(l)' \subseteq lost'
  <2>1. /\ \A k \in 1..Len(queue[l]) : queue[l][k].name \in lost
        /\ InCall(l) \subseteq lost
    BY <1>5 DEF OthersHarmless
  <2>2. queue[l] \in Seq(Event)
    BY DEF Types
  <2>3. InCall(l)' \subseteq lost'
    BY <1>3, <1>5, <2>1 DEF InCall
  <2>4. CASE queue'[l] = queue[l]
    BY <2>1, <2>3, <2>4
  <2>5. CASE queue[l] # <<>> /\ queue'[l] = Tail(queue[l])
    <3>1. /\ Len(queue[l]) \in Nat \ {0} /\ Len(queue'[l]) = Len(queue[l]) - 1
          /\ \A k \in 1..Len(queue'[l]) : queue'[l][k] = queue[l][k + 1]
      BY <2>2, <2>5, TailElements
    <3>2. \A k \in 1..Len(queue'[l]) : k + 1 \in 1..Len(queue[l])
      BY <3>1
    <3> QED BY <2>1, <2>3, <3>1, <3>2
  <2> QED BY <2>4, <2>5
<1>6. OthersHarmless'
  BY <1>1, <1>5 DEF OthersHarmless, InCall
<1>7. AllHeeded'
  BY <1>1, <1>2, <1>4 DEF AllHeeded, Heeded, LastNews, Queued, InCall
<1> QED BY <1>6, <1>7

(***************************************************************************)
(* raft's steps                                                            *)
(***************************************************************************)

LEMMA InitMembershipInv == Init => IInv
<1> SUFFICES ASSUME Init PROVE IInv
  OBVIOUS
<1> USE ServersAssumption DEF Init
<1>1. JoinEvent(Bootstrap) = [type |-> "join", name |-> Bootstrap, addr |-> FirstAddr]
  BY DEF JoinEvent
<1>2. JoinEvent(Bootstrap) \in Event
  BY <1>1 DEF Event
<1>3. /\ <<JoinEvent(Bootstrap)>> \in Seq(Event) /\ Len(<<JoinEvent(Bootstrap)>>) = 1
      /\ <<JoinEvent(Bootstrap)>>[1] = JoinEvent(Bootstrap)
  BY <1>2
<1>4. queue \in [Servers -> Seq(Event)]
  BY <1>3
<1>5. Ids(conf) = {Bootstrap}
  BY DEF Ids
<1>6. Types
  <2>1. status \in [Servers -> {"down", "starting", "up", "leaving", "left"}]
    OBVIOUS
  <2>2. addr \in [Servers -> Addrs] /\ busy \in [Servers -> Call \cup {Idle}]
    OBVIOUS
  <2>3. conf \subseteq Voter
    BY DEF Voter
  <2>4. /\ believed \subseteq Servers /\ deaf \subseteq Servers /\ lost \subseteq Servers
        /\ stale \subseteq believed
        /\ leader \in Ids(conf) \cup {NoServer}
    BY <1>5
  <2> QED BY <1>4, <2>1, <2>2, <2>3, <2>4 DEF Types
<1>7. OneEach /\ JoinCalls
  BY DEF OneEach, JoinCalls
<1>8. Awake
  BY DEF Awake, Serving, Running, Up
<1>9. Up = {Bootstrap}
  BY DEF Up
<1>10. \A m \in Servers : Settled(m)
  BY <1>5 DEF Settled
<1>11. \A m \in Servers : m # Bootstrap => Heeded(Bootstrap, m)
  <2> SUFFICES ASSUME NEW m \in Servers, m # Bootstrap PROVE Heeded(Bootstrap, m)
    OBVIOUS
  <2>1. queue[Bootstrap] = <<JoinEvent(Bootstrap)>>
    OBVIOUS
  <2>2. \A k \in 1..Len(queue[Bootstrap]) : queue[Bootstrap][k].name # m
    BY <1>1, <1>3, <2>1
  <2>3. InCall(Bootstrap) = {}
    BY DEF InCall
  <2> QED BY <1>10, <2>2, <2>3 DEF Heeded, LastNews, Queued
<1>12. AllHeeded
  BY <1>9, <1>10, <1>11 DEF AllHeeded
<1>13. OthersHarmless
  BY <1>9 DEF OthersHarmless
<1> QED BY <1>6, <1>7, <1>8, <1>12, <1>13 DEF IInv

\* A change of leaders: whoever has something under way is lost.
LEMMA NewLeaderKeepsIInv ==
  ASSUME IInv, leader' \in Ids(conf) \cup {NoServer}, leader' = NoServer \/ leader' \in Running,
         lost' = lost \cup InFlight,
         UNCHANGED <<status, addr, believed, queue, busy, deaf, conf, stale>>
  PROVE  IInv'
<1> USE DEF IInv
<1>1. UnderWay
  BY NamesInFlight
<1>2. Types'
  BY <1>1 DEF Types, UnderWay
<1>3. InFlight' = InFlight
  BY DEF InFlight, InCall
<1>4. \A m \in Servers : Same(m)
  BY DEF Same
<1>5. \A m \in Servers \ lost' : Settled(m)'
  BY <1>2, <1>4, QuietIsSettled, SameSettled
<1>6. AllHeeded' /\ OthersHarmless'
  BY <1>2, <1>3, <1>5, LostIsEnough
<1>7. OneEach' /\ JoinCalls'
  BY DEF OneEach, JoinCalls
<1>8. Awake'
  BY DEF Awake, Serving, Running, Up
<1> QED BY <1>2, <1>6, <1>7, <1>8

LEMMA ElectKeepsIInv == ASSUME IInv, NEW n \in Servers, Elect(n) PROVE IInv'
BY NewLeaderKeepsIInv DEF Elect

LEMMA StepDownKeepsIInv == ASSUME IInv, StepDown PROVE IInv'
BY NewLeaderKeepsIInv DEF StepDown

(***************************************************************************)
(* The agent's steps                                                       *)
(***************************************************************************)

\* A leader is a server whose raft instance runs.
LEMMA LeaderRuns ==
  ASSUME IInv
  PROVE  /\ leader # NoServer => leader \in Servers /\ leader \in Running
         /\ leader \in Servers => leader \in Running
         /\ Up \subseteq Running /\ Serving \subseteq Running
BY ServersAssumption DEF IInv, Types, Ids, Voter, Awake, Running, Up, Serving

LEMMA StartLogKeepsIInv ==
  ASSUME IInv, NEW n \in Servers, NEW a \in Addrs, StartLog(n, a) PROVE IInv'
<1> USE DEF IInv
<1>1. /\ n \notin Running
      /\ status' = [status EXCEPT ![n] = "starting"] /\ addr' = [addr EXCEPT ![n] = a]
      /\ stale' = (IF n \in believed /\ a # addr[n] THEN stale \cup {n} ELSE stale)
      /\ UNCHANGED <<believed, queue, busy, deaf, conf, leader, lost>>
  BY DEF StartLog
<1>2. Types'
  BY <1>1 DEF Types
<1>3. /\ leader # n /\ Up' = Up /\ Serving' = Serving /\ Running' = Running \cup {n}
  BY <1>1, LeaderRuns DEF Types, Up, Serving, Running
<1>4. \A m \in Servers : Same(m)
  BY <1>1 DEF Same, Types
<1>5. AllHeeded' /\ OthersHarmless'
  BY <1>1, <1>2, <1>3, <1>4, AsideOfLeader
<1>6. OneEach' /\ JoinCalls'
  BY <1>1 DEF OneEach, JoinCalls
<1>7. Awake'
  BY <1>1, <1>3 DEF Awake
<1> QED BY <1>2, <1>5, <1>6, <1>7

\* The process of a server ends.
LEMMA GoneKeepsIInv ==
  ASSUME IInv, NEW n \in Servers, n \in Running, NEW s \in {"down", "left"}, Gone(n, s),
         queue' = [queue EXCEPT ![n] = <<>>] \/ (queue' = queue /\ queue[n] = <<>>),
         UNCHANGED <<addr, believed, deaf, conf, stale>>
  PROVE  IInv'
<1> USE DEF IInv
<1>1. /\ status' = [status EXCEPT ![n] = s]
      /\ leader' = (IF leader = n THEN NoServer ELSE leader)
      /\ lost' = (IF leader = n THEN lost \cup InFlight ELSE lost)
      /\ busy' = [busy EXCEPT ![n] = Idle]
  BY DEF Gone
<1>2. UnderWay
  BY NamesInFlight
<1>3. /\ queue' \in [Servers -> Seq(Event)] /\ queue'[n] = <<>>
      /\ \A l \in Servers \ {n} : queue'[l] = queue[l]
  <2>1. <<>> \in Seq(Event) /\ queue \in [Servers -> Seq(Event)]
    BY EmptySeq DEF Types
  <2>2. CASE queue' = [queue EXCEPT ![n] = <<>>]
    BY <2>1, <2>2
  <2>3. CASE queue' = queue /\ queue[n] = <<>>
    BY <2>1, <2>3
  <2> QED BY <2>2, <2>3
<1>4. Types'
  BY <1>1, <1>2, <1>3 DEF Types, UnderWay
<1>5. \A m \in Servers : Same(m)
  BY DEF Same
<1>6. /\ Up' = Up \ {n} /\ Serving' = Serving \ {n} /\ Running' = Running \ {n}
  BY <1>1 DEF Types, Up, Serving, Running
<1>7. ASSUME leader = n PROVE AllHeeded' /\ OthersHarmless'
  <2>1. \A l \in Servers : /\ InCall(l)' \subseteq InCall(l)
                           /\ Range(queue'[l]) \subseteq Range(queue[l])
    BY <1>1, <1>3 DEF InCall, Range, Types
  <2>2. InFlight' \subseteq InFlight
    BY <2>1 DEF InFlight
  <2>3. \A m \in Servers \ lost' : Settled(m)'
    BY <1>1, <1>4, <1>5, <1>7, QuietIsSettled, SameSettled
  <2> QED BY <1>1, <1>4, <1>7, <2>2, <2>3, LostIsEnough
<1>8. ASSUME leader # n PROVE AllHeeded' /\ OthersHarmless'
  BY <1>1, <1>3, <1>4, <1>5, <1>6, <1>8, AsideOfLeader DEF Types
<1>9. OneEach' /\ JoinCalls'
  BY <1>1 DEF OneEach, JoinCalls, Types
<1>10. Awake'
  <2>1. leader' = NoServer \/ leader' \in Running'
    BY <1>1, <1>6, LeaderRuns
  <2>2. \A m \in Servers \ Serving' : queue'[m] = <<>> /\ busy'[m] = Idle
    BY <1>1, <1>3, <1>6 DEF Awake, Types
  <2> QED BY <1>6, <2>1, <2>2 DEF Awake
<1> QED BY <1>4, <1>7, <1>8, <1>9, <1>10

LEMMA EndsKeepIInv ==
  ASSUME IInv, NEW n \in Servers, StartFails(n) \/ LogClose(n) \/ Crash(n) PROVE IInv'
<1>1. CASE StartFails(n)
  <2>1. queue[n] = <<>> /\ n \in Running
    BY <1>1 DEF StartFails, IInv, Awake, Serving, Running
  <2> QED BY <1>1, <2>1, GoneKeepsIInv DEF StartFails
<1>2. CASE LogClose(n)
  BY <1>2, GoneKeepsIInv DEF LogClose, Running
<1>3. CASE Crash(n)
  BY <1>3, GoneKeepsIInv DEF Crash
<1> QED BY <1>1, <1>2, <1>3

LEMMA TellTypes ==
  ASSUME Types, NEW S \in SUBSET Servers, NEW e \in Event
  PROVE  /\ Tell(S, e) \in [Servers -> Seq(Event)]
         /\ \A l \in Servers : Tell(S, e)[l] = IF l \in S THEN Append(queue[l], e) ELSE queue[l]
<1>1. \A l \in Servers : queue[l] \in Seq(Event) /\ Append(queue[l], e) \in Seq(Event)
  BY AppendProperties DEF Types
<1> QED BY <1>1 DEF Tell

LEMMA EventTypes ==
  ASSUME Types, NEW n \in Servers
  PROVE  JoinEvent(n) \in Event /\ GoneEvent(n) \in Event
BY DEF Types, Event, JoinEvent, GoneEvent

\* serf reports a member that left or failed.
LEMMA ReportedGoneKeepsIInv ==
  ASSUME IInv, NEW n \in Servers, MembershipLeave(n) \/ DeclareFailed(n) PROVE IInv'
<1> USE DEF IInv
<1>1. /\ status \in [Servers -> {"down", "starting", "up", "leaving", "left"}]
      /\ believed' = believed \ {n} /\ queue' = Tell(Up, GoneEvent(n))
      /\ lost' = lost \cup Heard(Up, n) \cup (IF leader = n /\ n \in Up THEN InFlight ELSE {})
      /\ status' = status \/ status' = [status EXCEPT ![n] = "leaving"]
      /\ status[n] \in {"up", "down", "starting"}
      /\ status' = [status EXCEPT ![n] = IF @ = "up" THEN "leaving" ELSE @]
      /\ stale' = stale \ {n}
      /\ UNCHANGED <<addr, busy, deaf, conf, leader>>
  <2>1. CASE MembershipLeave(n)
    BY <2>1 DEF MembershipLeave, Types, Up
  <2>2. CASE DeclareFailed(n)
    <3>1. status[n] \in {"down", "starting"} /\ status' = status
      BY <2>2 DEF DeclareFailed
    <3>2. lost' = lost \cup Heard(Up, n) \cup {} /\ n \notin Up
      BY <2>2 DEF DeclareFailed, Up
    <3> QED BY <2>2, <3>1, <3>2 DEF DeclareFailed, Types
  <2> QED BY <2>1, <2>2
<1>2. PICK e \in Event : e = GoneEvent(n)
  BY EventTypes
<1>3. /\ queue' \in [Servers -> Seq(Event)]
      /\ \A l \in Servers : queue'[l] = IF l \in Up THEN Append(queue[l], e) ELSE queue[l]
  <2>1. Up \in SUBSET Servers /\ queue' = Tell(Up, e)
    BY <1>1, <1>2 DEF Up
  <2>2. /\ Tell(Up, e) \in [Servers -> Seq(Event)]
        /\ \A l \in Servers : Tell(Up, e)[l] = IF l \in Up THEN Append(queue[l], e) ELSE queue[l]
    BY <2>1, TellTypes
  <2> QED BY <2>1, <2>2
<1>4. UnderWay
  BY NamesInFlight
<1>5. Types'
  <2>1. lost' \subseteq Servers
    BY <1>1, <1>4 DEF Types, UnderWay, Heard
  <2>2. status' \in [Servers -> {"down", "starting", "up", "leaving", "left"}]
    BY <1>1
  <2> QED BY <1>1, <1>3, <2>1, <2>2 DEF Types
<1>6. /\ Up' = Up \ {n} /\ Serving' = Serving /\ Running' = Running
  BY <1>1 DEF Up, Serving, Running
<1>7. \A m \in Servers \ {n} : Same(m)
  BY <1>1 DEF Same
<1>8. e.name = n /\ Right(e, n)'
  BY <1>1, <1>2 DEF GoneEvent, Right
<1>9. ASSUME leader = n, n \in Up PROVE AllHeeded' /\ OthersHarmless'
  <2>1. n \in lost'
    BY <1>1, <1>9 DEF Heard
  <2>2. \A l \in Servers : InCall(l)' = InCall(l)
    BY <1>1 DEF InCall
  <2>3. \A l \in Servers : Range(queue'[l]) \subseteq Range(queue[l]) \cup {e}
    <3> SUFFICES ASSUME NEW l \in Servers
                 PROVE  Range(queue'[l]) \subseteq Range(queue[l]) \cup {e}
      OBVIOUS
    <3>1. queue[l] \in Seq(Event)
      BY DEF Types
    <3>2. CASE queue'[l] = Append(queue[l], e)
      <4>1. /\ Len(queue[l]) \in Nat /\ DOMAIN queue[l] = 1..Len(queue[l])
            /\ DOMAIN queue'[l] = 1..(Len(queue[l]) + 1)
            /\ \A k \in 1..Len(queue[l]) : queue'[l][k] = queue[l][k]
            /\ queue'[l][Len(queue[l]) + 1] = e
        BY <3>1, <3>2, AppendProperties, LenProperties
      <4>2. \A k \in 1..(Len(queue[l]) + 1) : k \in 1..Len(queue[l]) \/ k = Len(queue[l]) + 1
        BY <4>1
      <4> QED BY <4>1, <4>2 DEF Range
    <3> QED BY <1>3, <3>2
  <2>4. InFlight' \subseteq InFlight \cup {n}
    BY <1>8, <2>2, <2>3 DEF InFlight
  <2>5. InFlight' \subseteq lost'
    BY <1>1, <1>9, <2>1, <2>4
  <2>6. \A m \in Servers \ lost' : Settled(m)'
    BY <1>1, <1>5, <1>7, <1>9, <2>1, QuietIsSettled, SameSettled
  <2> QED BY <1>5, <2>5, <2>6, LostIsEnough
<1>10. ASSUME leader # n PROVE AllHeeded' /\ OthersHarmless'
  BY <1>1, <1>3, <1>5, <1>6, <1>7, <1>8, <1>10, LeaderIsTold
<1>11. ASSUME leader = n, n \notin Up PROVE AllHeeded' /\ OthersHarmless'
  <2>1. n \in lost'
    BY <1>1, <1>11 DEF Heard
  <2> QED BY <1>1, <1>3, <1>5, <1>6, <1>7, <1>11, <2>1, AsideOfLeader
<1>12. OneEach' /\ JoinCalls'
  BY <1>1 DEF OneEach, JoinCalls
<1>13. Awake'
  <2>1. Up \subseteq Serving
    BY DEF Up, Serving
  <2> QED BY <1>1, <1>3, <1>6, <2>1 DEF Awake
<1> QED BY <1>5, <1>9, <1>10, <1>11, <1>12, <1>13

\* A server that starts is told of itself and of every live member.
LEMMA SetupMembershipKeepsIInv ==
  ASSUME IInv, NEW n \in Servers, SetupMembership(n) PROVE IInv'
<1> USE DEF IInv
<1> DEFINE others == SetToSeq({JoinEvent(m) : m \in Up})
           told == IF n \in believed THEN {} ELSE Up
<1>1. /\ status[n] = "starting" /\ status' = [status EXCEPT ![n] = "up"]
      /\ believed' = believed \cup {n}
      /\ queue' = [Tell(told, JoinEvent(n)) EXCEPT ![n] = <<JoinEvent(n)>> \o others]
      /\ busy' = [busy EXCEPT ![n] = Idle] /\ deaf' = deaf \ {n}
      /\ lost' = IF n \in believed THEN lost ELSE lost \cup Heard(Up, n)
      /\ UNCHANGED <<addr, conf, leader, stale>>
  BY DEF SetupMembership
<1>2. PICK e \in Event : e = JoinEvent(n)
  BY EventTypes
<1>3. /\ others \in Seq(Event) /\ Len(others) \in Nat
      /\ \A k \in 1..Len(others) : others[k] \in {JoinEvent(m) : m \in Up}
  <2> DEFINE S == {JoinEvent(m) : m \in Up}
  <2>1. IsFiniteSet(S) /\ S \subseteq Event
    BY JoinsFinite, EventTypes DEF Up
  <2> HIDE DEF S
  <2>2. SetToSeq(S) \in Seq(S) /\ Len(SetToSeq(S)) \in Nat /\ \A k \in 1..Len(SetToSeq(S)) : SetToSeq(S)[k] \in S
    BY <2>1, SeqOfFiniteSet
  <2>3. SetToSeq(S) \in Seq(Event)
    BY <2>1, <2>2, SeqMonotonic
  <2> QED BY <2>2, <2>3 DEF S
<1> HIDE DEF others
<1>4. /\ <<e>> \o others \in Seq(Event)
      /\ Len(<<e>> \o others) \in Nat
      /\ \A k \in 1..Len(<<e>> \o others) : (<<e>> \o others)[k] \in {JoinEvent(m) : m \in Up \cup {n}}
  <2>1. <<e>> \in Seq(Event) /\ Len(<<e>>) = 1 /\ <<e>>[1] = e
    OBVIOUS
  <2>2. /\ <<e>> \o others \in Seq(Event)
        /\ Len(<<e>> \o others) = 1 + Len(others)
        /\ \A k \in 1..(1 + Len(others)) :
             (<<e>> \o others)[k] = IF k <= 1 THEN <<e>>[k] ELSE others[k - 1]
    BY <1>3, <2>1, ConcatProperties
  <2>3. \A k \in 1..(1 + Len(others)) : k = 1 \/ (~(k <= 1) /\ k - 1 \in 1..Len(others))
    BY <1>3
  <2>4. \A k \in 1..(1 + Len(others)) :
          (<<e>> \o others)[k] \in {JoinEvent(m) : m \in Up} \cup {e}
    BY <1>3, <2>1, <2>2, <2>3
  <2> QED BY <1>2, <1>3, <2>2, <2>4
<1>5. /\ queue' \in [Servers -> Seq(Event)] /\ queue'[n] = <<e>> \o others
      /\ \A l \in Servers \ {n} :
           queue'[l] = IF l \in told THEN Append(queue[l], e) ELSE queue[l]
  <2>1. told \in SUBSET Servers
    BY DEF Up
  <2>2. /\ Tell(told, e) \in [Servers -> Seq(Event)]
        /\ \A l \in Servers : Tell(told, e)[l] = IF l \in told THEN Append(queue[l], e) ELSE queue[l]
    BY <2>1, TellTypes
  <2> HIDE DEF told
  <2> QED BY <1>1, <1>2, <1>4, <2>2
<1>6. Types'
  <2>1. lost' \subseteq Servers
    BY <1>1 DEF Types, Heard
  <2> QED BY <1>1, <1>5, <2>1 DEF Types
<1>7. /\ Up' = Up \cup {n} /\ Serving' = Serving \cup {n} /\ Running' = Running /\ n \notin Up
  BY <1>1 DEF Types, Up, Serving, Running
<1>8. \A m \in Servers \ {n} : Same(m)
  BY <1>1 DEF Same
<1>9. n \in believed => Same(n)
  BY <1>1 DEF Same
<1>10. e.name = n /\ Right(e, n)'
  BY <1>1, <1>2 DEF JoinEvent, Right
<1>11. ASSUME leader = n PROVE AllHeeded' /\ OthersHarmless'
  <2>1. ASSUME NEW m \in Servers \ lost', m # n PROVE Heeded(n, m)'
    <3>1. Settled(m)'
      BY <1>1, <1>6, <1>7, <1>8, <1>11, <2>1, SameSettled DEF AllHeeded
    <3>2. InCall(n)' = {}
      BY <1>1 DEF InCall, Types
    <3>3. ASSUME NEW k \in 1..Len(queue'[n]), queue'[n][k].name = m
          PROVE  Right(queue[n][k], m)'
      <4>1. PICK i \in Up \cup {n} : queue'[n][k] = JoinEvent(i)
        BY <1>4, <1>5
      <4>2. i = m /\ m \in Up
        BY <2>1, <3>3, <4>1 DEF JoinEvent
      <4>3. m \in believed' /\ queue'[n][k] = [type |-> "join", name |-> m, addr |-> addr'[m]]
        BY <1>1, <4>1, <4>2 DEF Awake, JoinEvent
      <4> QED BY <4>3 DEF Right
    <3> QED BY <3>1, <3>2, <3>3 DEF Heeded, LastNews, Queued
  <2>2. n \in lost' \/ Settled(n)'
    <3>1. CASE n \in believed
      BY <1>1, <1>6, <1>9, <1>11, <3>1, SameSettled DEF AllHeeded
    <3>2. CASE n \notin believed
      BY <1>1, <1>11, <3>2 DEF Heard
    <3> QED BY <3>1, <3>2
  <2>3. leader' = n /\ n \in Up'
    BY <1>1, <1>7, <1>11
  <2>4. AllHeeded'
    BY <2>1, <2>2, <2>3 DEF AllHeeded, Heeded, LastNews, Queued, InCall
  <2> QED BY <2>3, <2>4 DEF OthersHarmless
<1>12. ASSUME leader # n, n \in believed PROVE AllHeeded' /\ OthersHarmless'
  BY <1>1, <1>5, <1>6, <1>7, <1>8, <1>9, <1>12, AsideOfLeader DEF Types
<1>13. ASSUME leader # n, n \notin believed PROVE AllHeeded' /\ OthersHarmless'
  BY <1>1, <1>5, <1>6, <1>7, <1>8, <1>10, <1>13, LeaderIsTold DEF Types
<1>14. OneEach' /\ JoinCalls'
  BY <1>1 DEF OneEach, JoinCalls, Types
<1>15. Awake'
  <2>1. \A l \in Servers \ Serving' : queue'[l] = <<>> /\ busy'[l] = Idle
    BY <1>1, <1>5, <1>7 DEF Awake, Types, Up, Serving
  <2> QED BY <1>1, <1>7, <2>1 DEF Awake
<1> QED BY <1>6, <1>11, <1>12, <1>13, <1>14, <1>15

(***************************************************************************)
(* The steps of an event handler                                           *)
(***************************************************************************)

\* What the handler of n leaves alone.
OneHandler(n) ==
  /\ UNCHANGED <<status, addr, believed, stale>>
  /\ \A l \in Servers \ {n} : queue'[l] = queue[l] /\ busy'[l] = busy[l]
  /\ leader' \in {leader, NoServer}

LEMMA HandlerKeepsAwake ==
  ASSUME IInv, NEW n \in Serving, OneHandler(n)
  PROVE  Awake'
BY DEF IInv, Awake, OneHandler, Serving, Running, Up

\* The handler of a server that does not lead disturbs nobody.
LEMMA FollowerActs ==
  ASSUME IInv, Types', NEW n \in Servers, OneHandler(n), leader # n,
         UNCHANGED <<conf, leader, lost>>
  PROVE  AllHeeded' /\ OthersHarmless'
<1>1. Up' = Up
  BY DEF OneHandler, Up
<1>2. \A m \in Servers : Same(m)
  BY DEF OneHandler, Same
<1> QED BY <1>1, <1>2, AsideOfLeader DEF OneHandler

\* A leader that cannot commit its change steps down.
LEMMA LeaderStepsDown ==
  ASSUME IInv, Types', NEW n \in Servers, OneHandler(n), lost' = lost \cup InFlight,
         NEW c \in InFlight, \A m \in Servers \ {c} : Same(m),
         queue'[n] = queue[n] \/ (queue[n] # <<>> /\ queue'[n] = Tail(queue[n])),
         InCall(n)' \subseteq InCall(n)
  PROVE  AllHeeded' /\ OthersHarmless'
<1> USE DEF IInv
<1>1. \A l \in Servers : InCall(l)' \subseteq InCall(l)
  BY DEF OneHandler, InCall
<1>2. \A l \in Servers : Range(queue'[l]) \subseteq Range(queue[l])
  <2>1. Range(queue'[n]) \subseteq Range(queue[n])
    <3>1. queue[n] \in Seq(Event)
      BY DEF Types
    <3>2. CASE queue[n] # <<>> /\ queue'[n] = Tail(queue[n])
      <4>1. /\ Len(queue[n]) \in Nat \ {0} /\ DOMAIN queue[n] = 1..Len(queue[n])
            /\ Len(queue'[n]) = Len(queue[n]) - 1 /\ DOMAIN queue'[n] = 1..Len(queue'[n])
            /\ \A k \in 1..Len(queue'[n]) : queue'[n][k] = queue[n][k + 1]
        BY <3>1, <3>2, TailElements, LenProperties
      <4>2. \A k \in 1..Len(queue'[n]) : k + 1 \in 1..Len(queue[n])
        BY <4>1
      <4> QED BY <4>1, <4>2 DEF Range
    <3> QED BY <3>2
  <2> QED BY <2>1 DEF OneHandler
<1>3. InFlight' \subseteq InFlight
  BY <1>1, <1>2 DEF InFlight
<1>4. \A m \in Servers \ lost' : Settled(m)'
  BY QuietIsSettled, SameSettled
<1> QED BY <1>3, <1>4, LostIsEnough

\* The voters of one id are changed at most.
LEMMA ChangeOfOne ==
  ASSUME IInv, NEW n \in Servers, NEW c \in Servers \ {n}, NEW new \in SUBSET Voter,
         Change(n, new), \A s \in Voter : s.id # c => (s \in new <=> s \in conf)
  PROVE  /\ conf' = new /\ leader = n
         /\ \/ leader' = n /\ lost' = lost
            \/ leader' = NoServer /\ lost' = lost \cup InFlight
         /\ leader' \in Ids(conf') \cup {NoServer} /\ lost' \subseteq Servers
         /\ UNCHANGED <<addr, believed, stale>> => \A m \in Servers \ {c} : Same(m)
<1>1. /\ conf' = new /\ leader = n
      /\ \/ leader' = n /\ lost' = lost
         \/ leader' = NoServer /\ lost' = lost \cup InFlight
  BY DEF Change
<1>2. n \in Ids(conf)
  BY <1>1, ServersAssumption DEF IInv, Types
<1>3. n \in Ids(new)
  BY <1>2 DEF Ids, IInv, Types
<1>4. lost' \subseteq Servers
  BY <1>1, NamesInFlight DEF IInv, Types, UnderWay
<1>5. UNCHANGED <<addr, believed, stale>> => \A m \in Servers \ {c} : Same(m)
  BY <1>1 DEF Same
<1> QED BY <1>1, <1>3, <1>4, <1>5

LEMMA RemoveOfOne ==
  ASSUME IInv, NEW n \in Servers, NEW c \in Servers \ {n}, RemoveServer(n, c)
  PROVE  /\ leader = n /\ c \notin Ids(conf') /\ conf' \subseteq conf
         /\ \/ leader' = n /\ lost' = lost
            \/ leader' = NoServer /\ lost' = lost \cup InFlight
         /\ leader' \in Ids(conf') \cup {NoServer} /\ lost' \subseteq Servers
         /\ UNCHANGED <<addr, believed, stale>> => \A m \in Servers \ {c} : Same(m)
<1> DEFINE new == {s \in conf : s.id # c}
<1>1. new \in SUBSET Voter /\ \A s \in Voter : s.id # c => (s \in new <=> s \in conf)
  BY DEF IInv, Types
<1>2. Change(n, new)
  BY DEF RemoveServer
<1>3. c \notin Ids(new) /\ new \subseteq conf
  BY DEF Ids
<1> HIDE DEF new
<1> QED BY <1>1, <1>2, <1>3, ChangeOfOne

\* The next event of the queue is read.
LEMMA DealtFacts ==
  ASSUME Types, NEW n \in Servers, HasEvent(n), Dealt(n)
  PROVE  /\ n \in Serving /\ busy[n] = Idle /\ InCall(n) = {}
         /\ queue[n] # <<>> /\ Event1(n) \in Event /\ Event1(n).name \in Servers
         /\ Event1(n).name \in InFlight
         /\ queue'[n] = Tail(queue[n]) /\ queue' \in [Servers -> Seq(Event)]
         /\ \A l \in Servers \ {n} : queue'[l] = queue[l]
<1>1. queue \in [Servers -> Seq(Event)] /\ queue[n] # <<>>
  BY DEF Types, HasEvent
<1>2. /\ Event1(n) = queue[n][1] /\ Event1(n) \in Event /\ 1 \in 1..Len(queue[n])
      /\ Tail(queue[n]) \in Seq(Event)
  BY <1>1, TailElements DEF Event1
<1>3. queue' = [queue EXCEPT ![n] = Tail(queue[n])]
  BY DEF Dealt
<1>4. Event1(n).name \in InFlight
  BY <1>2, NamesInFlight DEF UnderWay
<1> QED BY <1>1, <1>2, <1>3, <1>4 DEF HasEvent, Listening, Serving, InCall, Event

LEMMA HandleLocalKeepsIInv ==
  ASSUME IInv, NEW n \in Servers, HandleLocal(n) PROVE IInv'
<1> USE DEF IInv
<1>1. /\ HasEvent(n) /\ Dealt(n) /\ Event1(n).name = n
      /\ deaf' = IF Event1(n).type = "join" THEN deaf ELSE deaf \cup {n}
      /\ UNCHANGED <<status, addr, believed, busy, conf, leader, lost, stale>>
  BY DEF HandleLocal, IsLocal
<1>2. /\ n \in Serving /\ queue[n] # <<>> /\ Head(queue[n]).name = n
      /\ queue'[n] = Tail(queue[n]) /\ queue' \in [Servers -> Seq(Event)]
      /\ \A l \in Servers \ {n} : queue'[l] = queue[l]
  BY <1>1, DealtFacts DEF Event1
<1>3. Types'
  BY <1>1, <1>2 DEF Types
<1>4. OneHandler(n)
  BY <1>1, <1>2 DEF OneHandler
<1>5. ASSUME leader = n PROVE AllHeeded' /\ OthersHarmless'
  <2>1. \A m \in Servers : Same(m)
    BY <1>1 DEF Same
  <2>2. leader' = n /\ status' = status /\ lost \subseteq lost' /\ busy'[n] = busy[n]
    BY <1>1, <1>5
  <2> QED BY <1>2, <1>3, <1>5, <2>1, <2>2, LeaderActs
<1>6. ASSUME leader # n PROVE AllHeeded' /\ OthersHarmless'
  BY <1>1, <1>3, <1>4, <1>6, FollowerActs
<1>7. OneEach' /\ JoinCalls' /\ Awake'
  BY <1>1, <1>2, <1>4, HandlerKeepsAwake DEF OneEach, JoinCalls
<1> QED BY <1>3, <1>5, <1>6, <1>7

LEMMA HandleLeaveKeepsIInv ==
  ASSUME IInv, NEW n \in Servers, HandleLeave(n) PROVE IInv'
<1> USE DEF IInv
<1>1. PICK c \in Servers : c = Event1(n).name
  BY DealtFacts DEF HandleLeave
<1>2. /\ HasEvent(n) /\ Dealt(n) /\ c # n /\ Event1(n).type = "gone"
      /\ RemoveServer(n, c) \/ (leader # n /\ UNCHANGED <<conf, leader, lost>>)
      /\ UNCHANGED <<status, addr, believed, busy, deaf, stale>>
  BY <1>1 DEF HandleLeave, IsLocal
<1>3. /\ n \in Serving /\ InCall(n) = {} /\ InCall(n)' = {}
      /\ queue[n] # <<>> /\ Head(queue[n]).name = c /\ c \in InFlight
      /\ queue'[n] = Tail(queue[n]) /\ queue' \in [Servers -> Seq(Event)]
      /\ \A l \in Servers \ {n} : queue'[l] = queue[l]
  BY <1>1, <1>2, DealtFacts DEF Event1, InCall
<1>4. ASSUME leader # n, UNCHANGED <<conf, leader, lost>>
      PROVE  IInv'
  <2>1. Types'
    BY <1>2, <1>3, <1>4 DEF Types
  <2>2. OneHandler(n)
    BY <1>2, <1>3, <1>4 DEF OneHandler
  <2>3. AllHeeded' /\ OthersHarmless'
    BY <1>4, <2>1, <2>2, FollowerActs
  <2>4. OneEach' /\ JoinCalls' /\ Awake'
    BY <1>2, <1>3, <1>4, <2>2, HandlerKeepsAwake DEF OneEach, JoinCalls
  <2> QED BY <2>1, <2>3, <2>4
<1>5. ASSUME RemoveServer(n, c)
      PROVE  IInv'
  <2>1. /\ leader = n /\ c \notin Ids(conf') /\ conf' \subseteq conf
        /\ \/ leader' = n /\ lost' = lost
           \/ leader' = NoServer /\ lost' = lost \cup InFlight
        /\ leader' \in Ids(conf') \cup {NoServer} /\ lost' \subseteq Servers
        /\ \A m \in Servers \ {c} : Same(m)
    BY <1>2, <1>5, RemoveOfOne
  <2>2. Types'
    BY <1>2, <1>3, <2>1 DEF Types
  <2>3. OneHandler(n)
    BY <1>2, <1>3, <2>1 DEF OneHandler
  <2>4. OneEach' /\ JoinCalls' /\ Awake'
    BY <1>2, <1>3, <2>1, <2>3, HandlerKeepsAwake DEF OneEach, JoinCalls
  <2>5. ASSUME leader' = NoServer, lost' = lost \cup InFlight PROVE AllHeeded' /\ OthersHarmless'
    BY <1>3, <2>1, <2>2, <2>3, <2>5, LeaderStepsDown
  <2>6. ASSUME leader' = n, lost' = lost PROVE AllHeeded' /\ OthersHarmless'
    <3>1. ASSUME c \in Servers \ lost', n \in Up PROVE Heeded(n, c)'
      <4>1. Heeded(n, c)
        BY <1>2, <2>1, <2>6, <3>1 DEF AllHeeded
      <4>2. \A e : Right(e, c)' <=> Right(e, c)
        BY <1>2 DEF Right
      <4>3. /\ \A k \in 1..Len(queue'[n]) : LastNews(n, c, k)' => Right(queue[n][k], c)'
            /\ Queued(n, c)' \/ Right(Head(queue[n]), c)
        BY <1>3, <2>2, <4>1, <4>2, ReadIsRight
      <4>4. Right(Head(queue[n]), c) => Settled(c)'
        BY <1>2, <2>1 DEF Right, Settled, Event1
      <4> QED BY <1>3, <4>3, <4>4 DEF Heeded
    <3>2. status' = status /\ lost \subseteq lost' /\ busy'[n] = busy[n]
      BY <1>2, <2>6
    <3> QED BY <1>2, <1>3, <2>1, <2>2, <2>6, <3>1, <3>2, LeaderActs
  <2> QED BY <2>1, <2>2, <2>4, <2>5, <2>6
<1> QED BY <1>2, <1>4, <1>5

LEMMA HandleJoinKeepsIInv ==
  ASSUME IInv, NEW n \in Servers, HandleJoin(n) PROVE IInv'
<1> USE DEF IInv
<1>1. PICK e \in Event : e = Event1(n)
  BY DealtFacts DEF HandleJoin
<1> DEFINE c == e.name
           call == [event |-> e, clashes |-> Cardinality(Clashes(e))]
<1>2. /\ HasEvent(n) /\ Dealt(n) /\ c # n /\ c \in Servers /\ e.type = "join"
      /\ busy' = IF Joined(e) THEN busy ELSE [busy EXCEPT ![n] = call]
      /\ UNCHANGED <<status, addr, believed, deaf, conf, leader, lost, stale>>
  BY <1>1 DEF HandleJoin, IsLocal, Event
<1>3. /\ n \in Serving /\ busy[n] = Idle /\ InCall(n) = {}
      /\ queue[n] # <<>> /\ Head(queue[n]) = e
      /\ queue'[n] = Tail(queue[n]) /\ queue' \in [Servers -> Seq(Event)]
      /\ \A l \in Servers \ {n} : queue'[l] = queue[l]
  BY <1>1, <1>2, DealtFacts DEF Event1
<1>4. call \in Call /\ call.event = e /\ call # Idle
  BY AtMostTwoClash, IdleAssumption DEF Call
<1> HIDE DEF call
<1>5. /\ Joined(e) => busy'[n] = Idle /\ InCall(n)' = {}
      /\ ~Joined(e) => busy'[n] = call /\ InCall(n)' = {c}
      /\ busy' \in [Servers -> Call \cup {Idle}]
      /\ \A l \in Servers \ {n} : busy'[l] = busy[l]
  BY <1>2, <1>3, <1>4 DEF Types, InCall
<1>6. Types'
  BY <1>2, <1>3, <1>5 DEF Types
<1>7. OneHandler(n)
  BY <1>2, <1>3, <1>5 DEF OneHandler
<1>8. ASSUME leader # n PROVE AllHeeded' /\ OthersHarmless'
  BY <1>2, <1>6, <1>7, <1>8, FollowerActs
<1>9. ASSUME leader = n PROVE AllHeeded' /\ OthersHarmless'
  <2>1. ASSUME c \in Servers \ lost', n \in Up PROVE Heeded(n, c)'
    <3>1. Heeded(n, c)
      BY <1>2, <1>9, <2>1 DEF AllHeeded
    <3>2. \A f : Right(f, c)' <=> Right(f, c)
      BY <1>2 DEF Right
    <3>3. /\ \A k \in 1..Len(queue'[n]) : LastNews(n, c, k)' => Right(queue[n][k], c)'
          /\ Queued(n, c)' \/ Right(e, c)
      BY <1>2, <1>3, <1>6, <3>1, <3>2, ReadIsRight
    <3>4. CASE Joined(e)
      <4>1. Right(e, c) => Settled(c)'
        BY <1>2, <3>4 DEF Right, Settled, Joined, Ids
      <4> QED BY <1>5, <3>3, <3>4, <4>1 DEF Heeded
    <3>5. CASE ~Joined(e)
      <4>1. busy'[n].event = e /\ c \in InCall(n)'
        BY <1>4, <1>5, <3>5
      <4>2. Right(e, c) => Right(busy[n].event, c)'
        BY <3>2, <4>1
      <4> QED BY <3>3, <4>1, <4>2 DEF Heeded
    <3> QED BY <3>4, <3>5
  <2>2. \A m \in Servers : Same(m)
    BY <1>2 DEF Same
  <2>3. /\ leader' = n /\ status' = status /\ lost \subseteq lost'
        /\ InCall(n) \cup InCall(n)' \subseteq {c}
    BY <1>2, <1>3, <1>5, <1>9
  <2> QED BY <1>2, <1>3, <1>6, <1>9, <2>1, <2>2, <2>3, LeaderActs
<1>10. JoinCalls'
  BY <1>2, <1>4, <1>5 DEF JoinCalls
<1>11. OneEach' /\ Awake'
  BY <1>2, <1>3, <1>7, HandlerKeepsAwake DEF OneEach
<1> QED BY <1>6, <1>8, <1>9, <1>10, <1>11

\* A call of Join of n goes on for c.
LEMMA CallFacts ==
  ASSUME IInv, NEW n \in Servers, busy[n] # Idle
  PROVE  /\ busy[n] \in Call /\ busy[n].event \in Event /\ busy[n].clashes \in 0..2
         /\ busy[n].event.name \in Servers \ {n} /\ busy[n].event.addr \in Addrs
         /\ InCall(n) = {busy[n].event.name} /\ busy[n].event.name \in InFlight
         /\ n \in Serving
<1>1. busy[n] \in Call
  BY DEF IInv, Types
<1>2. /\ busy[n].event \in Event /\ busy[n].clashes \in 0..2
  BY <1>1 DEF Call
<1>3. busy[n].event.name \in Servers \ {n} /\ busy[n].event.addr \in Addrs
  BY <1>2 DEF Event, IInv, JoinCalls
<1>4. InCall(n) = {busy[n].event.name}
  BY DEF InCall
<1>5. busy[n].event.name \in InFlight
  BY <1>4, NamesInFlight DEF IInv, UnderWay
<1>6. n \in Serving
  BY DEF IInv, Awake
<1> QED BY <1>1, <1>2, <1>3, <1>4, <1>5, <1>6

LEMMA RemoveExistingKeepsIInv ==
  ASSUME IInv, NEW n \in Servers, RemoveExisting(n) PROVE IInv'
<1> USE DEF IInv
<1>1. PICK e \in Event : e = busy[n].event
  BY CallFacts DEF RemoveExisting
<1> DEFINE c == e.name
<1>2. /\ busy[n] # Idle /\ busy[n].clashes > 0
      /\ RemoveServer(n, c) \/ (leader # n /\ UNCHANGED <<conf, leader, lost>>)
      /\ busy' = IF leader' = n THEN [busy EXCEPT ![n].clashes = @ - 1]
                 ELSE [busy EXCEPT ![n] = Idle]
      /\ UNCHANGED <<status, addr, believed, queue, deaf, stale>>
  BY <1>1 DEF RemoveExisting
<1>3. /\ busy[n] \in Call /\ busy[n].clashes \in 0..2 /\ c \in Servers \ {n}
      /\ InCall(n) = {c} /\ c \in InFlight /\ n \in Serving
  BY <1>1, <1>2, CallFacts
<1> HIDE DEF c
<1>4. /\ leader' = n => /\ busy'[n] = [busy[n] EXCEPT !.clashes = @ - 1]
                        /\ busy'[n] \in Call /\ busy'[n].event = e /\ InCall(n)' = {c}
      /\ leader' # n => busy'[n] = Idle /\ InCall(n)' = {}
      /\ busy' \in [Servers -> Call \cup {Idle}]
      /\ \A l \in Servers \ {n} : busy'[l] = busy[l]
  <2>1. CASE leader' = n
    <3> DEFINE call == [busy[n] EXCEPT !.clashes = @ - 1]
    <3>1. busy[n].clashes - 1 \in 0..2
      BY <1>2, <1>3
    <3>2. call \in Call /\ call.event = e
      BY <1>1, <1>3, <3>1 DEF Call
    <3>3. busy' = [busy EXCEPT ![n] = call]
      BY <1>2, <2>1
    <3> HIDE DEF call
    <3>4. busy'[n] = call /\ busy' \in [Servers -> Call \cup {Idle}]
          /\ \A l \in Servers \ {n} : busy'[l] = busy[l]
      BY <3>2, <3>3 DEF Types
    <3>5. InCall(n)' = {c}
      BY <3>2, <3>4, IdleAssumption DEF InCall, c
    <3> QED BY <2>1, <3>2, <3>4, <3>5 DEF call
  <2>2. CASE leader' # n
    <3>1. busy' = [busy EXCEPT ![n] = Idle]
      BY <1>2, <2>2
    <3> QED BY <2>2, <3>1 DEF Types, InCall
  <2> QED BY <2>1, <2>2
<1>5. JoinCalls'
  BY <1>1, <1>2, <1>4 DEF JoinCalls
<1>6. ASSUME leader # n, UNCHANGED <<conf, leader, lost>>
      PROVE  IInv'
  <2>1. Types'
    BY <1>2, <1>4, <1>6 DEF Types
  <2>2. OneHandler(n)
    BY <1>2, <1>4, <1>6 DEF OneHandler
  <2>3. AllHeeded' /\ OthersHarmless'
    BY <1>6, <2>1, <2>2, FollowerActs
  <2>4. OneEach' /\ Awake'
    BY <1>3, <1>6, <2>2, HandlerKeepsAwake DEF OneEach
  <2> QED BY <1>5, <2>1, <2>3, <2>4
<1>7. ASSUME RemoveServer(n, c)
      PROVE  IInv'
  <2>1. /\ leader = n /\ conf' \subseteq conf
        /\ \/ leader' = n /\ lost' = lost
           \/ leader' = NoServer /\ lost' = lost \cup InFlight
        /\ leader' \in Ids(conf') \cup {NoServer} /\ lost' \subseteq Servers
        /\ \A m \in Servers \ {c} : Same(m)
    BY <1>2, <1>3, <1>7, RemoveOfOne
  <2>2. Types'
    BY <1>2, <1>4, <2>1 DEF Types
  <2>3. OneHandler(n)
    BY <1>2, <1>4, <2>1 DEF OneHandler
  <2>4. OneEach' /\ Awake'
    BY <1>3, <2>1, <2>3, HandlerKeepsAwake DEF OneEach
  <2>5. ASSUME leader' = NoServer, lost' = lost \cup InFlight PROVE AllHeeded' /\ OthersHarmless'
    <3>1. InCall(n)' \subseteq InCall(n)
      BY <1>3, <1>4, <2>5, ServersAssumption
    <3> QED BY <1>2, <1>3, <2>1, <2>2, <2>3, <2>5, <3>1, LeaderStepsDown
  <2>6. ASSUME leader' = n, lost' = lost PROVE AllHeeded' /\ OthersHarmless'
    <3>1. ASSUME c \in Servers \ lost', n \in Up PROVE Heeded(n, c)'
      <4>1. Heeded(n, c)
        BY <1>3, <2>1, <2>6, <3>1 DEF AllHeeded
      <4>2. \A f : Right(f, c)' <=> Right(f, c)
        BY <1>2 DEF Right
      <4>3. busy'[n].event = busy[n].event /\ c \in InCall(n) /\ c \in InCall(n)'
        BY <1>1, <1>3, <1>4, <2>6
      <4>4. Right(busy[n].event, c) => Right(busy[n].event, c)'
        BY <4>2, <4>3
      <4>5. \A k \in 1..Len(queue'[n]) : LastNews(n, c, k)' => Right(queue[n][k], c)'
        BY <1>2, <4>1, <4>2 DEF Heeded, LastNews
      <4> QED BY <1>2, <4>1, <4>3, <4>4, <4>5 DEF Heeded, Queued
    <3>2. /\ status' = status /\ lost \subseteq lost' /\ queue'[n] = queue[n]
          /\ InCall(n) \cup InCall(n)' \subseteq {c}
      BY <1>2, <1>3, <1>4, <2>6
    <3> QED BY <1>3, <2>1, <2>2, <2>6, <3>1, <3>2, LeaderActs
  <2> QED BY <1>5, <2>1, <2>2, <2>4, <2>5, <2>6
<1> QED BY <1>2, <1>6, <1>7

LEMMA JoinVoterKeepsIInv ==
  ASSUME IInv, NEW n \in Servers, JoinVoter(n) PROVE IInv'
<1> USE DEF IInv
<1>1. PICK e \in Event : e = busy[n].event
  BY CallFacts DEF JoinVoter
<1> DEFINE c == e.name
<1>2. /\ busy[n] # Idle
      /\ \/ AddVoter(n, c, e.addr)
         \/ leader # n /\ UNCHANGED <<conf, leader, lost>>
         \/ leader = n /\ lost' = lost \cup {c} /\ UNCHANGED <<conf, leader>>
      /\ busy' = [busy EXCEPT ![n] = Idle]
      /\ UNCHANGED <<status, addr, believed, queue, deaf, stale>>
  BY <1>1 DEF JoinVoter
<1>3. /\ c \in Servers \ {n} /\ InCall(n) = {c} /\ c \in InFlight /\ n \in Serving
      /\ e.addr \in Addrs /\ e.type = "join"
  BY <1>1, <1>2, CallFacts DEF JoinCalls
<1> HIDE DEF c
<1>4. /\ busy'[n] = Idle /\ InCall(n)' = {}
      /\ busy' \in [Servers -> Call \cup {Idle}]
      /\ \A l \in Servers \ {n} : busy'[l] = busy[l]
  BY <1>2 DEF Types, InCall
<1>5. JoinCalls'
  BY <1>2, <1>4 DEF JoinCalls
<1>6. ASSUME UNCHANGED <<conf, leader>>, lost' \in {lost, lost \cup {c}}, leader # n => lost' = lost,
             leader = n => c \in lost'
      PROVE  IInv'
  <2>1. Types'
    BY <1>2, <1>3, <1>4, <1>6 DEF Types
  <2>2. OneHandler(n)
    BY <1>2, <1>4, <1>6 DEF OneHandler
  <2>3. ASSUME leader # n PROVE AllHeeded' /\ OthersHarmless'
    BY <1>6, <2>1, <2>2, <2>3, FollowerActs
  <2>4. ASSUME leader = n PROVE AllHeeded' /\ OthersHarmless'
    <3>1. \A m \in Servers : Same(m)
      BY <1>2, <1>6 DEF Same
    <3>2. /\ leader' = n /\ status' = status /\ lost \subseteq lost' /\ queue'[n] = queue[n]
          /\ InCall(n) \cup InCall(n)' \subseteq {c} /\ c \in lost'
      BY <1>2, <1>3, <1>4, <1>6, <2>4
    <3> QED BY <1>3, <2>1, <2>4, <3>1, <3>2, LeaderActs
  <2>5. OneEach' /\ Awake'
    BY <1>3, <1>6, <2>2, HandlerKeepsAwake DEF OneEach
  <2> QED BY <1>5, <2>1, <2>3, <2>4, <2>5
<1>7. ASSUME AddVoter(n, c, e.addr)
      PROVE  IInv'
  <2> DEFINE v == [id |-> c, addr |-> e.addr]
             new == {s \in conf : s.id # c} \cup {v}
  <2>1. v \in Voter /\ v.id = c /\ v.addr = e.addr
    BY <1>3 DEF Voter
  <2>2. new \in SUBSET Voter /\ \A s \in Voter : s.id # c => (s \in new <=> s \in conf)
    BY <2>1 DEF Types
  <2>3. Change(n, new) /\ \A s \in conf : s.id # c => s.addr # e.addr
    BY <1>7 DEF AddVoter, Taken
  <2>4. \A s, t \in new : s.id = t.id \/ s.addr = t.addr => s = t
    BY <2>1, <2>3 DEF OneEach
  <2>5. v \in new
    OBVIOUS
  <2> HIDE DEF new, v
  <2>6. /\ conf' = new /\ leader = n
        /\ \/ leader' = n /\ lost' = lost
           \/ leader' = NoServer /\ lost' = lost \cup InFlight
        /\ leader' \in Ids(conf') \cup {NoServer} /\ lost' \subseteq Servers
        /\ \A m \in Servers \ {c} : Same(m)
    BY <1>2, <1>3, <2>2, <2>3, ChangeOfOne
  <2>7. Types'
    BY <1>2, <1>4, <2>2, <2>6 DEF Types
  <2>8. OneHandler(n)
    BY <1>2, <1>4, <2>6 DEF OneHandler
  <2>9. OneEach' /\ Awake'
    BY <1>3, <2>4, <2>6, <2>8, HandlerKeepsAwake DEF OneEach
  <2>10. ASSUME leader' = NoServer, lost' = lost \cup InFlight PROVE AllHeeded' /\ OthersHarmless'
    BY <1>2, <1>3, <1>4, <2>6, <2>7, <2>8, <2>10, LeaderStepsDown
  <2>11. ASSUME leader' = n, lost' = lost PROVE AllHeeded' /\ OthersHarmless'
    <3>1. ASSUME c \in Servers \ lost', n \in Up PROVE Heeded(n, c)'
      <4>1. Heeded(n, c)
        BY <1>3, <2>6, <2>11, <3>1 DEF AllHeeded
      <4>2. \A f : Right(f, c)' <=> Right(f, c)
        BY <1>2 DEF Right
      <4>3. \A k \in 1..Len(queue'[n]) : LastNews(n, c, k)' => Right(queue[n][k], c)'
        BY <1>2, <4>1, <4>2 DEF Heeded, LastNews
      <4>4. Queued(n, c)' \/ Right(e, c)
        BY <1>1, <1>2, <1>3, <4>1 DEF Heeded, Queued
      <4>5. Right(e, c) => Settled(c)'
        BY <1>2, <1>3, <2>5, <2>6 DEF Right, Settled, v, Ids
      <4> QED BY <1>4, <4>3, <4>4, <4>5 DEF Heeded
    <3>2. /\ status' = status /\ lost \subseteq lost' /\ queue'[n] = queue[n]
          /\ InCall(n) \cup InCall(n)' \subseteq {c} /\ c # n
      BY <1>2, <1>3, <1>4, <2>11
    <3> QED BY <1>3, <2>6, <2>7, <2>11, <3>1, <3>2, LeaderActs
  <2> QED BY <1>5, <2>6, <2>7, <2>9, <2>10, <2>11
<1>8. CASE AddVoter(n, c, e.addr)
  BY <1>7, <1>8
<1>9. CASE leader # n /\ UNCHANGED <<conf, leader, lost>>
  BY <1>6, <1>9
<1>10. CASE leader = n /\ lost' = lost \cup {c} /\ UNCHANGED <<conf, leader>>
  BY <1>6, <1>10
<1> QED BY <1>2, <1>8, <1>9, <1>10

(***************************************************************************)
(* The theorems                                                            *)
(***************************************************************************)

LEMMA NextKeepsMembershipInv == IInv /\ [Next]_vars => IInv'
<1> SUFFICES ASSUME IInv, [Next]_vars PROVE IInv'
  OBVIOUS
<1>1. CASE \E n \in Servers : Elect(n)
  BY <1>1, ElectKeepsIInv
<1>2. CASE StepDown
  BY <1>2, StepDownKeepsIInv
<1>3. CASE \E n \in Servers, a \in Addrs : StartLog(n, a)
  BY <1>3, StartLogKeepsIInv
<1>4. CASE \E n \in Servers : SetupMembership(n)
  BY <1>4, SetupMembershipKeepsIInv
<1>5. CASE \E n \in Servers : StartFails(n) \/ LogClose(n) \/ Crash(n)
  BY <1>5, EndsKeepIInv
<1>6. CASE \E n \in Servers : MembershipLeave(n) \/ DeclareFailed(n)
  BY <1>6, ReportedGoneKeepsIInv
<1>7. CASE \E n \in Servers : Handler(n)
  BY <1>7, HandleLocalKeepsIInv, HandleLeaveKeepsIInv, HandleJoinKeepsIInv,
     RemoveExistingKeepsIInv, JoinVoterKeepsIInv DEF Handler
<1>8. CASE UNCHANGED vars
  <2>1. /\ Types' /\ OneEach' /\ JoinCalls' /\ Awake'
    BY <1>8 DEF vars, IInv, Types, OneEach, JoinCalls, Awake, Serving, Running, Up
  <2>2. AllHeeded' /\ OthersHarmless'
    BY <1>8 DEF vars, IInv, AllHeeded, OthersHarmless, Heeded, LastNews, Queued, Settled,
       Right, InCall, Up
  <2> QED BY <2>1, <2>2 DEF IInv
<1> QED BY <1>1, <1>2, <1>3, <1>4, <1>5, <1>6, <1>7, <1>8 DEF Next

LEMMA MembershipInvHolds == Spec => []IInv
<1> QED BY InitMembershipInv, NextKeepsMembershipInv, PTL DEF Spec

\* The state of serf, the handlers and raft has its types: a leader is in the
\* configuration, and at most two entries stand in the way of a call of Join.
THEOREM MembershipTypeOKHolds == Spec => []TypeOK
<1>1. IInv => TypeOK
  BY DEF IInv, Types, TypeOK
<1> QED BY <1>1, MembershipInvHolds, PTL

\* However servers start, leave, crash, come back with another address and are
\* elected, a leader that has read its events has the right voters, and their
\* right addresses but for those serf told as an update, which eventHandler
\* drops (membership.go:91; handleJoin, handleLeave, Join and Leave).
THEOREM ConvergedHolds == Spec => []Converged
<1>1. ASSUME IInv PROVE Converged
  <2> SUFFICES ASSUME leader \in Up \ deaf, busy[leader] = Idle, queue[leader] = <<>>,
                      NEW n \in Servers \ lost
               PROVE  /\ n \in Up \ {leader} =>
                           /\ n \in Ids(conf)
                           /\ n \in stale \/ [id |-> n, addr |-> addr[n]] \in conf
                      /\ n \notin believed => n \notin Ids(conf)
    BY DEF Converged
  <2>1. Up \subseteq believed
    BY <1>1 DEF IInv, Awake
  <2>2. Settled(n)
    <3>1. CASE n = leader
      BY <1>1, <3>1 DEF IInv, AllHeeded
    <3>2. CASE n # leader
      <4>1. Heeded(leader, n)
        BY <1>1, <3>2 DEF IInv, AllHeeded
      <4>2. Len(queue[leader]) = 0
        OBVIOUS
      <4>3. ~Queued(leader, n) /\ n \notin InCall(leader)
        BY <4>2 DEF Queued, InCall
      <4> QED BY <4>1, <4>3 DEF Heeded
    <3> QED BY <3>1, <3>2
  <2> QED BY <2>1, <2>2 DEF Settled
<1> QED BY <1>1, MembershipInvHolds, PTL

=============================================================================
