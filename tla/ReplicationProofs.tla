-------------------------- MODULE ReplicationProofs --------------------------
(***************************************************************************)
(* The safety properties of module Replication, for any number of servers, *)
(* terms, requests, stops and snapshots.                                   *)
(*                                                                         *)
(* The argument: a conflict deletes a follower's whole log and panics it   *)
(* (OverwritePanics), so that only the start of a server can take entries  *)
(* out of a log, and marks it as one that forgot (LogsKept).  What a       *)
(* majority stored is therefore stored for good by those of it that forgot *)
(* nothing (Safe), and a commit index covers such a part (CommitSafe),     *)
(* since a leader counts what was stored once (MatchHolds).  A server in   *)
(* its first life shows the requests of one (FirstLivesSafe).  While any   *)
(* two majorities share a server that forgot nothing (MajoritiesRemember), *)
(* two such parts are the same (SafeAgree).                                *)
(***************************************************************************)
EXTENDS Replication, SetLemmas, FiniteSetTheorems, SequenceTheorems, TLAPS

\* The k-th entry, seen by the function f that Requests is defined by.
RequestsStep(f, log, k) ==
  IF k = 0 THEN <<>>
  ELSE IF log[k].value = Noop THEN f[k - 1] ELSE Append(f[k - 1], log[k].value)

\* The function that Requests is defined by exists.
LEMMA RequestsExists ==
  ASSUME NEW log \in Seq(Entry)
  PROVE  \E f \in [0..Len(log) -> Seq(Nat)] :
           f = [k \in 0..Len(log) |-> RequestsStep(f, log, k)]
<1> DEFINE Good(n) == {f \in [0..n -> Seq(Nat)] :
                         \A k \in 0..n : f[k] = RequestsStep(f, log, k)}
           S == {n \in Nat : n <= Len(log) => Good(n) # {}}
<1> HIDE DEF Good
<1>1. 0 \in S
  <2>1. [k \in 0..0 |-> <<>>] \in Good(0)
    BY DEF Good, RequestsStep
  <2> QED BY <2>1
<1>2. ASSUME NEW n \in S PROVE n + 1 \in S
  <2> SUFFICES ASSUME n + 1 <= Len(log) PROVE Good(n + 1) # {}
    OBVIOUS
  <2>1. n \in Nat /\ Good(n) # {} /\ Len(log) \in Nat
    OBVIOUS
  <2> HIDE DEF S
  <2>2. PICK f \in [0..n -> Seq(Nat)] : \A k \in 0..n : f[k] = RequestsStep(f, log, k)
    BY <2>1 DEF Good
  <2> DEFINE e == IF log[n + 1].value = Noop THEN f[n] ELSE Append(f[n], log[n + 1].value)
             g == [k \in 0..(n + 1) |-> IF k = n + 1 THEN e ELSE f[k]]
  <2>3. log[n + 1].value \in Nat \cup {Noop}
    <3>1. log[n + 1] \in Entry BY <2>1, ElementOfSeq
    <3> QED BY <3>1 DEF Entry
  <2>4. e \in Seq(Nat)
    <3>1. f[n] \in Seq(Nat) BY <2>1
    <3>2. log[n + 1].value # Noop => Append(f[n], log[n + 1].value) \in Seq(Nat)
      BY <2>3, <3>1
    <3> QED BY <3>1, <3>2
  <2>5. ASSUME NEW k \in 0..(n + 1) PROVE g[k] = RequestsStep(g, log, k)
    <3>1. CASE k = n + 1
      BY <2>1, <3>1 DEF RequestsStep
    <3>2. CASE k # n + 1
      <4>1. k \in 0..n /\ g[k] = f[k] BY <2>1, <3>2
      <4>2. k # 0 => g[k - 1] = f[k - 1] BY <2>1, <4>1
      <4> HIDE DEF e, g
      <4> QED BY <2>2, <4>1, <4>2 DEF RequestsStep
    <3> QED BY <3>1, <3>2
  <2> HIDE DEF e
  <2>6. g \in [0..(n + 1) -> Seq(Nat)]
    BY <2>1, <2>4
  <2>7. g \in Good(n + 1) BY <2>5, <2>6 DEF Good
  <2> QED BY <2>7
<1>3. S = Nat
  <2>1. S \in SUBSET Nat OBVIOUS
  <2> HIDE DEF S
  <2> QED BY <1>1, <1>2, <2>1, SetInduction
<1>4. PICK f : f \in Good(Len(log))
  <2>1. Len(log) \in Nat OBVIOUS
  <2>2. Len(log) \in {n \in Nat : n <= Len(log) => Good(n) # {}} BY <1>3, <2>1
  <2> QED BY <2>1, <2>2
<1> QED BY <1>4 DEF Good

\* What Requests is for the first entries of a log.
LEMMA RequestsDef ==
  ASSUME NEW log \in Seq(Entry)
  PROVE  /\ Requests(log, 0) = <<>>
         /\ \A n \in 0..Len(log) : Requests(log, n) \in Seq(Nat)
         /\ \A n \in 1..Len(log) :
              Requests(log, n) = IF log[n].value = Noop THEN Requests(log, n - 1)
                                 ELSE Append(Requests(log, n - 1), log[n].value)
<1> DEFINE upTo[k \in 0..Len(log)] ==
        IF k = 0 THEN <<>>
        ELSE IF log[k].value = Noop THEN upTo[k - 1]
        ELSE Append(upTo[k - 1], log[k].value)
<1>1. PICK f \in [0..Len(log) -> Seq(Nat)] :
        f = [k \in 0..Len(log) |-> RequestsStep(f, log, k)]
  BY RequestsExists
<1>2. \E g : g = [k \in 0..Len(log) |->
                    IF k = 0 THEN <<>>
                    ELSE IF log[k].value = Noop THEN g[k - 1]
                    ELSE Append(g[k - 1], log[k].value)]
  BY <1>1 DEF RequestsStep
<1>3. upTo = [k \in 0..Len(log) |->
                    IF k = 0 THEN <<>>
                    ELSE IF log[k].value = Noop THEN upTo[k - 1]
                    ELSE Append(upTo[k - 1], log[k].value)]
  BY <1>2
<1>4. \A n : Requests(log, n) = upTo[n]
  BY DEF Requests
<1> HIDE DEF upTo
<1>5. \A k \in 0..Len(log) : upTo[k] = RequestsStep(upTo, log, k)
  BY <1>3 DEF RequestsStep
<1>6. upTo[0] = <<>> /\ \A k \in 1..Len(log) : upTo[k] = RequestsStep(upTo, log, k)
  BY <1>5 DEF RequestsStep
<1>7. \A k \in 0..Len(log) : upTo[k] \in Seq(Nat)
  <2> DEFINE S == {k \in Nat : k <= Len(log) => upTo[k] \in Seq(Nat)}
  <2>1. 0 \in S
    <3>1. upTo[0] \in Seq(Nat) BY <1>6, EmptySeq
    <3> QED BY <3>1
  <2>2. ASSUME NEW k \in S PROVE k + 1 \in S
    <3> SUFFICES ASSUME k + 1 <= Len(log) PROVE upTo[k + 1] \in Seq(Nat)
      OBVIOUS
    <3>1. k + 1 \in 1..Len(log) /\ upTo[k] \in Seq(Nat) OBVIOUS
    <3>2. log[k + 1].value \in Nat \cup {Noop}
      <4>1. log[k + 1] \in Entry BY <3>1, ElementOfSeq
      <4> QED BY <4>1 DEF Entry
    <3>3. upTo[k + 1] = IF log[k + 1].value = Noop THEN upTo[k]
                        ELSE Append(upTo[k], log[k + 1].value)
      BY <1>6, <3>1 DEF RequestsStep
    <3> QED BY <3>1, <3>2, <3>3
  <2>3. S \in SUBSET Nat OBVIOUS
  <2> HIDE DEF S
  <2>4. S = Nat BY <2>1, <2>2, <2>3, SetInduction
  <2> QED BY <2>4 DEF S
<1>8. Requests(log, 0) = <<>>
  BY <1>4, <1>6
<1>9. \A n \in 0..Len(log) : Requests(log, n) \in Seq(Nat)
  BY <1>4, <1>7
<1>10. ASSUME NEW n \in 1..Len(log)
       PROVE  Requests(log, n) = IF log[n].value = Noop THEN Requests(log, n - 1)
                                 ELSE Append(Requests(log, n - 1), log[n].value)
  <2>1. Requests(log, n) = upTo[n] /\ Requests(log, n - 1) = upTo[n - 1]
    BY <1>4
  <2> HIDE DEF Requests
  <2> QED BY <1>6, <2>1 DEF RequestsStep
<1> QED BY <1>8, <1>9, <1>10

\* The value of an entry of a log.
LEMMA EntryOf ==
  ASSUME NEW log \in Seq(Entry), NEW k \in 1..Len(log)
  PROVE  log[k] \in Entry /\ log[k].term \in Nat /\ log[k].value \in Nat \cup {Noop}
<1>1. log[k] \in Entry BY ElementOfSeq
<1> QED BY <1>1 DEF Entry

\* Requests looks at nothing but the first n entries.
LEMMA RequestsOfSame ==
  ASSUME NEW log1 \in Seq(Entry), NEW log2 \in Seq(Entry),
         NEW n \in Nat, n <= Len(log1), n <= Len(log2),
         \A k \in 1..n : log1[k] = log2[k]
  PROVE  Requests(log1, n) = Requests(log2, n)
<1> DEFINE S == {k \in Nat : k <= n => Requests(log1, k) = Requests(log2, k)}
<1>1. Requests(log1, 0) = Requests(log2, 0)
  BY RequestsDef
<1>2. ASSUME NEW k \in Nat, k + 1 <= n, Requests(log1, k) = Requests(log2, k)
      PROVE  Requests(log1, k + 1) = Requests(log2, k + 1)
  <2>1. k + 1 \in 1..Len(log1) /\ k + 1 \in 1..Len(log2) /\ (k + 1) - 1 = k
        /\ log1[k + 1] = log2[k + 1]
    BY <1>2
  <2>2. Requests(log1, k + 1) = IF log1[k + 1].value = Noop THEN Requests(log1, k)
                                ELSE Append(Requests(log1, k), log1[k + 1].value)
    BY <2>1, RequestsDef
  <2>3. Requests(log2, k + 1) = IF log2[k + 1].value = Noop THEN Requests(log2, k)
                                ELSE Append(Requests(log2, k), log2[k + 1].value)
    BY <2>1, RequestsDef
  <2> QED BY <1>2, <2>1, <2>2, <2>3
<1>3. 0 \in S /\ (\A k \in S : k + 1 \in S) /\ S \in SUBSET Nat
  BY <1>1, <1>2
<1> HIDE DEF S
<1>4. S = Nat BY <1>3, SetInduction
<1> QED BY <1>4 DEF S

\* The requests of fewer entries begin those of more, and are the same if only
\* entries of raft are between.
LEMMA RequestsGrow ==
  ASSUME NEW log \in Seq(Entry), NEW m \in Nat, NEW n \in Nat, m <= n, n <= Len(log)
  PROVE  /\ Len(Requests(log, m)) <= Len(Requests(log, n))
         /\ \A i \in 1..Len(Requests(log, m)) : Requests(log, m)[i] = Requests(log, n)[i]
         /\ (\A k \in (m + 1)..n : log[k].value = Noop)
              => Requests(log, m) = Requests(log, n)
<1> DEFINE R(k) == Requests(log, k)
           Good(k) == /\ Len(R(m)) <= Len(R(k))
                      /\ \A i \in 1..Len(R(m)) : R(m)[i] = R(k)[i]
                      /\ (\A j \in (m + 1)..k : log[j].value = Noop) => R(m) = R(k)
           S == {d \in Nat : m + d <= n => Good(m + d)}
<1>1. \A k \in 0..Len(log) : R(k) \in Seq(Nat)
  BY RequestsDef
<1>2. \A k \in 1..Len(log) :
        R(k) = IF log[k].value = Noop THEN R(k - 1) ELSE Append(R(k - 1), log[k].value)
  BY RequestsDef
<1> HIDE DEF R
<1>3. Good(m + 0)
  <2>1. m + 0 = m /\ R(m) \in Seq(Nat) BY <1>1
  <2> QED BY <2>1
<1>4. ASSUME NEW d \in Nat, m + d + 1 <= n, Good(m + d)
      PROVE  Good(m + d + 1)
  <2> DEFINE k == m + d
  <2>1. k \in Nat /\ k + 1 \in 1..Len(log) /\ (k + 1) - 1 = k /\ k \in 0..Len(log)
        /\ k + 1 \in (m + 1)..(k + 1)
    BY <1>4
  <2>2. R(k) \in Seq(Nat) /\ R(m) \in Seq(Nat) BY <1>1, <2>1
  <2>3. R(k + 1) = IF log[k + 1].value = Noop THEN R(k) ELSE Append(R(k), log[k + 1].value)
    BY <1>2, <2>1
  <2>4. Good(k) BY <1>4
  <2>5. m \in Nat /\ \A j \in (m + 1)..k : j \in (m + 1)..(k + 1)
    BY <2>1
  <2> HIDE DEF k
  <2>6. CASE log[k + 1].value = Noop
    <3>1. R(k + 1) = R(k) BY <2>3, <2>6
    <3> QED BY <2>4, <2>5, <3>1 DEF k
  <2>7. CASE log[k + 1].value # Noop
    <3>1. log[k + 1].value \in Nat BY <2>1, <2>7, EntryOf
    <3>2. R(k + 1) = Append(R(k), log[k + 1].value) BY <2>3, <2>7
    <3>3. /\ Len(R(k + 1)) = Len(R(k)) + 1
          /\ \A i \in 1..Len(R(k)) : R(k + 1)[i] = R(k)[i]
      <4>1. PICK q \in Seq(Nat) : q = R(k) BY <2>2
      <4>2. PICK v \in Nat : v = log[k + 1].value BY <3>1
      <4>3. /\ Len(Append(q, v)) = Len(q) + 1
            /\ \A i \in 1..Len(q) : Append(q, v)[i] = q[i]
            /\ Append(q, v)[Len(q) + 1] = v
        BY AppendProperties
      <4>4. R(k + 1) = Append(q, v) BY <3>2, <4>1, <4>2
      <4> QED BY <4>1, <4>2, <4>3, <4>4
    <3>4. ~ \A j \in (m + 1)..(k + 1) : log[j].value = Noop
      BY <2>1, <2>7
    <3>5. Len(R(m)) <= Len(R(k + 1)) /\ \A i \in 1..Len(R(m)) : R(m)[i] = R(k + 1)[i]
      BY <2>2, <2>4, <3>3
    <3> QED BY <3>4, <3>5 DEF k
  <2> QED BY <2>6, <2>7
<1>5. \A d \in Nat : m + (d + 1) = m + d + 1 OBVIOUS
<1> HIDE DEF Good
<1>6. 0 \in S BY <1>3
<1>7. ASSUME NEW d \in S PROVE d + 1 \in S
  BY <1>4, <1>5
<1>8. S \in SUBSET Nat OBVIOUS
<1> HIDE DEF S
<1>9. S = Nat BY <1>6, <1>7, <1>8, SetInduction
<1>10. PICK d \in Nat : m + d = n
  <2>1. n - m \in Nat /\ m + (n - m) = n OBVIOUS
  <2> QED BY <2>1
<1>11. m + d <= n => Good(m + d) BY <1>9 DEF S
<1>12. Good(n) BY <1>10, <1>11
<1> QED BY <1>12 DEF Good, R

\* Every record of Requests is a request of the log.
LEMMA RequestsFrom ==
  ASSUME NEW log \in Seq(Entry), NEW n \in 0..Len(log),
         NEW i \in 1..Len(Requests(log, n))
  PROVE  \E k \in 1..n : log[k].value = Requests(log, n)[i]
<1> DEFINE R(k) == Requests(log, k)
           Good(k) == \A j \in 1..Len(R(k)) : \E h \in 1..k : log[h].value = R(k)[j]
           S == {k \in Nat : k <= Len(log) => Good(k)}
<1>1. R(0) = <<>> /\ \A k \in 0..Len(log) : R(k) \in Seq(Nat)
  BY RequestsDef
<1>2. \A k \in 1..Len(log) :
        R(k) = IF log[k].value = Noop THEN R(k - 1) ELSE Append(R(k - 1), log[k].value)
  BY RequestsDef
<1> HIDE DEF R
<1>3. Good(0) BY <1>1
<1>4. ASSUME NEW k \in Nat, k + 1 <= Len(log), Good(k)
      PROVE  Good(k + 1)
  <2>1. k + 1 \in 1..Len(log) /\ (k + 1) - 1 = k /\ k \in 0..Len(log)
        /\ k + 1 \in 1..(k + 1) /\ \A h \in 1..k : h \in 1..(k + 1)
    BY <1>4
  <2>2. R(k) \in Seq(Nat) BY <1>1, <2>1
  <2>3. R(k + 1) = IF log[k + 1].value = Noop THEN R(k) ELSE Append(R(k), log[k + 1].value)
    BY <1>2, <2>1
  <2>4. CASE log[k + 1].value = Noop
    <3>1. R(k + 1) = R(k) BY <2>3, <2>4
    <3>2. ASSUME NEW j \in 1..Len(R(k + 1))
          PROVE  \E h \in 1..(k + 1) : log[h].value = R(k + 1)[j]
      <4>1. PICK h \in 1..k : log[h].value = R(k)[j] BY <1>4, <3>1
      <4>2. h \in 1..(k + 1) BY <2>1
      <4> QED BY <3>1, <4>1, <4>2
    <3> QED BY <3>2
  <2>5. CASE log[k + 1].value # Noop
    <3>1. log[k + 1].value \in Nat BY <2>1, <2>5, EntryOf
    <3>2. R(k + 1) = Append(R(k), log[k + 1].value) BY <2>3, <2>5
    <3>3. /\ Len(R(k + 1)) = Len(R(k)) + 1
          /\ \A j \in 1..Len(R(k)) : R(k + 1)[j] = R(k)[j]
          /\ R(k + 1)[Len(R(k)) + 1] = log[k + 1].value
      <4>1. PICK q \in Seq(Nat) : q = R(k) BY <2>2
      <4>2. PICK v \in Nat : v = log[k + 1].value BY <3>1
      <4>3. /\ Len(Append(q, v)) = Len(q) + 1
            /\ \A h \in 1..Len(q) : Append(q, v)[h] = q[h]
            /\ Append(q, v)[Len(q) + 1] = v
        BY AppendProperties
      <4>4. R(k + 1) = Append(q, v) BY <3>2, <4>1, <4>2
      <4> QED BY <4>1, <4>2, <4>3, <4>4
    <3> SUFFICES ASSUME NEW j \in 1..Len(R(k + 1))
                 PROVE  \E h \in 1..(k + 1) : log[h].value = R(k + 1)[j]
      OBVIOUS
    <3>4. j \in 1..Len(R(k)) \/ j = Len(R(k)) + 1 BY <2>2, <3>3
    <3> QED BY <1>4, <2>1, <3>3, <3>4
  <2> QED BY <2>4, <2>5
<1> HIDE DEF Good
<1>5. 0 \in S /\ (\A k \in S : k + 1 \in S) /\ S \in SUBSET Nat
  BY <1>3, <1>4
<1> HIDE DEF S
<1>6. S = Nat BY <1>5, SetInduction
<1>7. Good(n) BY <1>6 DEF S
<1> QED BY <1>7 DEF Good, R

(***************************************************************************)
(* The inductive invariant                                                 *)
(***************************************************************************)

\* The log of t has the first n entries of the log of s.
Holds(t, s, n) ==
  n <= LastIndex(t) /\ \A k \in 1..n : raftLog[t][k] = raftLog[s][k]

\* Of a majority those have the first n entries of the log of s that forgot nothing.
Safe(s, n) ==
  n \in 0..LastIndex(s) /\ \E Q \in Quorums : \A q \in Q \ forgot : Holds(q, s, n)

\* The types of all variables.
Types ==
  /\ role \in [Servers -> {"follower", "leader", "stopped", "killed", "panicked", "failed"}]
  /\ term \in [Servers -> 0..MaxTerm]
  /\ raftLog \in [Servers -> Seq(Entry)]
  /\ first \in [Servers -> Nat \ {0}]
  /\ match \in [Servers -> [Servers -> Nat]]
  /\ snapshot \in [Servers -> [index : Nat, records : Seq(1..MaxProduced)]]
  /\ commit \in [Servers -> Nat]
  /\ applied \in [Servers -> Nat]
  /\ userLog \in [Servers -> Seq(1..MaxProduced)]
  /\ futures \subseteq [server : Servers, index : Nat]
  /\ produced \in 0..MaxProduced
  /\ acked \subseteq [offset : Nat, value : 1..MaxProduced]
  /\ reopened \subseteq Servers

\* No entry is ahead of its server's term, which a majority has reached.
TermsReached ==
  \A s \in Servers :
    /\ \A k \in 1..LastIndex(s) : raftLog[s][k].term <= term[s]
    /\ \E Q \in Quorums : \A q \in Q : term[s] <= term[q]

\* A term has one leader.
OneLeader ==
  \A l, m \in Servers :
    role[l] = "leader" /\ role[m] = "leader" /\ term[l] = term[m] => l = m

\* The entries of a leader's term are in its log.
LeaderHasTerm ==
  \A l, s \in Servers : role[l] = "leader" =>
    \A k \in 1..LastIndex(s) : raftLog[s][k].term = term[l] => k <= LastIndex(l)

\* Logs with the same term at an index are the same up to it.
LogMatching ==
  \A s, t \in Servers : \A n \in 1..LastIndex(s) : Agree(s, t, n) => Holds(t, s, n)

\* A request is at one index only, wherever it is stored.
ValuesOnce ==
  \A s, t \in Servers : \A i \in 1..LastIndex(s), j \in 1..LastIndex(t) :
    raftLog[s][i].value # Noop =>
      /\ raftLog[s][i].value \in 1..produced
      /\ raftLog[s][i].value = raftLog[t][j].value => i = j

\* A caller waits for a request that its leader stores.
FuturesOnLeaders ==
  \A x \in futures :
    /\ role[x.server] = "leader"
    /\ x.index \in 1..LastIndex(x.server)
    /\ raftLog[x.server][x.index].value # Noop

LogInv ==
  /\ Types /\ TermsReached /\ OneLeader /\ LeaderHasTerm /\ LogMatching
  /\ ValuesOnce /\ FuturesOnLeaders

\* What a leader noted of a server, that server stores, unless it forgot it.
MatchHolds ==
  \A l, q \in Servers :
    /\ match[l][q] <= (IF role[l] = "leader" THEN LastIndex(l) ELSE 0)
    /\ q \in forgot \/ Holds(q, l, match[l][q])

\* What a server takes for committed is safe.
CommitSafe ==
  \A s \in Servers : Safe(s, commit[s]) /\ applied[s] <= commit[s]

\* What a server shows in its first life are the requests of a safe part of
\* its log, as far as raft has applied it.
FirstLivesSafe ==
  \A s \in Servers \ reopened : \E a \in 0..LastIndex(s) :
    /\ Safe(s, a)
    /\ userLog[s] = Requests(raftLog[s], a)
    /\ s \in Up => a = applied[s]

\* What Append answered is where it said among the requests of a safe part.
AckedSafe ==
  MajoritiesRemember => \A r \in acked : \E s \in Servers : \E a \in 0..LastIndex(s) :
    /\ Safe(s, a)
    /\ r.offset + 1 \in 1..Len(Requests(raftLog[s], a))
    /\ Requests(raftLog[s], a)[r.offset + 1] = r.value

\* A server that is down knows nothing committed or applied.
DownForgets == \A s \in Servers \ Up : commit[s] = 0 /\ applied[s] = 0

\* What was deleted is in the snapshot, and the trailing entries are left.
CompactionBounds ==
  \A s \in Servers :
    /\ snapshot[s].index <= LastIndex(s)
    /\ IF role[s] \in {"panicked", "failed"} THEN first[s] <= LastIndex(s) + 1
       ELSE /\ first[s] <= snapshot[s].index + 1
            /\ first[s] = 1 \/ first[s] + Trailing <= LastIndex(s) + 1

\* The sequence t ends with s.
Ends(s, t) ==
  Len(s) <= Len(t) /\ \A i \in 1..Len(s) : s[i] = t[i + (Len(t) - Len(s))]

\* A user log ends with what raft has applied.
AppliedEnds ==
  \A s \in Up : Ends(Requests(raftLog[s], applied[s]), userLog[s])

\* A snapshot ends with the requests up to its index.
SnapshotEnds ==
  \A s \in Servers :
    Ends(Requests(raftLog[s], snapshot[s].index), snapshot[s].records)

IInv ==
  /\ LogInv /\ MatchHolds /\ CommitSafe /\ FirstLivesSafe /\ AckedSafe /\ DownForgets
  /\ CompactionBounds /\ AppliedEnds /\ SnapshotEnds

(***************************************************************************)
(* Quorums, common prefixes and growing logs                               *)
(***************************************************************************)

\* Two majorities have a server in common.
LEMMA QuorumsMeet ==
  ASSUME NEW P \in Quorums, NEW Q \in Quorums
  PROVE  \E q \in Servers : q \in P /\ q \in Q
<1>1. P \subseteq Servers /\ Q \subseteq Servers
  BY DEF Quorums
<1>2. Cardinality(P) \in Nat /\ Cardinality(Q) \in Nat /\ Cardinality(Servers) \in Nat
  BY <1>1, ServersAssumption, FS_Subset, FS_CardinalityType
<1>3. 2 * Cardinality(P) > Cardinality(Servers) /\ 2 * Cardinality(Q) > Cardinality(Servers)
  BY DEF Quorums
<1>4. Cardinality(P) + Cardinality(Q) > Cardinality(Servers)
  BY <1>2, <1>3
<1>5. P \cap Q # {}
  BY <1>1, <1>4, ServersAssumption, FS_MajoritiesIntersect
<1> QED BY <1>1, <1>5

\* While majorities remember, one in common to two of them has forgotten nothing.
LEMMA RememberMeet ==
  ASSUME MajoritiesRemember, NEW P \in Quorums, NEW Q \in Quorums
  PROVE  \E q \in Servers : q \in P /\ q \in Q /\ q \notin forgot
<1>1. CASE forgot = {} BY <1>1, QuorumsMeet
<1>2. CASE (P \cap Q) \ forgot # {} BY <1>2 DEF Quorums
<1> QED BY <1>1, <1>2 DEF MajoritiesRemember

\* All servers are a majority.
LEMMA ServersAreQuorum ==
  ASSUME NEW s \in Servers PROVE Servers \in Quorums
<1>1. Cardinality(Servers) \in Nat
  BY ServersAssumption, FS_CardinalityType
<1>2. Cardinality(Servers) # 0
  BY ServersAssumption, FS_EmptySet
<1> QED BY <1>1, <1>2 DEF Quorums

\* How far two logs are the same.
LEMMA CommonIs ==
  ASSUME Types, NEW s \in Servers, NEW t \in Servers
  PROVE  /\ Common(s, t) \in 0..LastIndex(s)
         /\ Common(s, t) = 0 \/ Agree(s, t, Common(s, t))
         /\ \A n \in 1..LastIndex(s) : Agree(s, t, n) => n <= Common(s, t)
<1> DEFINE S == {n \in 1..LastIndex(s) : Agree(s, t, n)} \cup {0}
<1>1. LastIndex(s) \in Nat BY DEF LastIndex, Types
<1>2. S \in SUBSET (0..LastIndex(s)) /\ S # {}
  BY <1>1
<1>3. Max(S) \in S /\ \A x \in S : x <= Max(S)
  BY <1>1, <1>2, MaxOfBounded
<1> QED BY <1>1, <1>3 DEF Common

\* Up to there the follower has the leader's entries.
LEMMA CommonHolds ==
  ASSUME Types, LogMatching, NEW s \in Servers, NEW t \in Servers
  PROVE  Holds(t, s, Common(s, t)) /\ Common(s, t) <= LastIndex(t)
<1>1. LastIndex(t) \in Nat BY DEF LastIndex, Types
<1>2. CASE Common(s, t) = 0
  BY <1>1, <1>2 DEF Holds
<1>3. CASE Common(s, t) # 0
  <2>1. Common(s, t) \in 1..LastIndex(s) /\ Agree(s, t, Common(s, t))
    BY <1>3, CommonIs
  <2> QED BY <2>1 DEF LogMatching, Holds
<1> QED BY <1>2, <1>3

\* Nothing is taken out of a log, whatever DeleteRange marks as deleted.
Grows(s) ==
  /\ LastIndex(s) <= LastIndex(s)'
  /\ \A k \in 1..LastIndex(s) : raftLog'[s][k] = raftLog[s][k]

LogsGrow == \A s \in Servers : Grows(s)

\* Only a start takes entries out, and notes that.
LogsKept ==
  /\ forgot \subseteq forgot'
  /\ \A s \in Servers : Grows(s) \/ (NewDistributedLog(s) /\ s \in forgot')

\* A beginning of a safe part is safe.
LEMMA SafeLess ==
  ASSUME Types, NEW s \in Servers, NEW n \in Nat, NEW m \in 0..n, Safe(s, n)
  PROVE  Safe(s, m)
<1>1. PICK Q \in Quorums : \A q \in Q \ forgot : Holds(q, s, n)
  BY DEF Safe
<1>2. \A q \in Q : q \in Servers /\ LastIndex(q) \in Nat
  BY DEF Quorums, Types, LastIndex
<1>3. \A q \in Q \ forgot : Holds(q, s, m)
  BY <1>1, <1>2 DEF Holds
<1>4. m \in 0..LastIndex(s)
  BY DEF Safe, Types, LastIndex
<1> QED BY <1>3, <1>4 DEF Safe

\* No entries are safe after any step.
LEMMA SafeZero ==
  ASSUME Types', NEW s \in Servers PROVE Safe(s, 0)'
<1>1. \A q \in Servers : LastIndex(q)' \in Nat
  <2>1. raftLog' \in [Servers -> Seq(Entry)] BY DEF Types
  <2> QED BY <2>1 DEF LastIndex
<1>2. \A q \in Servers : Holds(q, s, 0)' BY <1>1 DEF Holds
<1>3. Servers \in Quorums BY ServersAreQuorum
<1> QED BY <1>1, <1>2, <1>3 DEF Safe

\* What those of a majority store that forget nothing they keep.
LEMMA SafeStays ==
  ASSUME Types, Types', LogsKept, NEW s \in Servers, Grows(s), NEW n, Safe(s, n)
  PROVE  Safe(s, n)'
<1>1. PICK Q \in Quorums : \A q \in Q \ forgot : Holds(q, s, n)
  BY DEF Safe
<1>2. n \in 0..LastIndex(s) /\ n \in Nat
  BY DEF Safe
<1>3. \A q \in Servers : LastIndex(q) \in Nat /\ LastIndex(q)' \in Nat
  <2>1. raftLog \in [Servers -> Seq(Entry)] /\ raftLog' \in [Servers -> Seq(Entry)]
    BY DEF Types
  <2> QED BY <2>1 DEF LastIndex
<1>4. n \in 0..LastIndex(s)'
  BY <1>2, <1>3 DEF Grows
<1>5. ASSUME NEW q \in Q \ forgot' PROVE Holds(q, s, n)'
  <2>1. q \in Servers /\ q \notin forgot /\ Grows(q) BY DEF Quorums, LogsKept
  <2>2. Holds(q, s, n) BY <1>1, <2>1
  <2>3. n <= LastIndex(q)' BY <1>2, <1>3, <2>1, <2>2 DEF Grows, Holds
  <2>4. ASSUME NEW k \in 1..n PROVE raftLog'[q][k] = raftLog'[s][k]
    <3>1. k \in 1..LastIndex(q) /\ k \in 1..LastIndex(s)
      BY <1>2, <1>3, <2>1, <2>2 DEF Holds
    <3> QED BY <2>1, <2>2, <3>1 DEF Grows, Holds
  <2> QED BY <2>3, <2>4 DEF Holds
<1> QED BY <1>4, <1>5 DEF Safe

\* Two safe parts of logs are the same as far as the shorter one goes.
LEMMA SafeAgree ==
  ASSUME Types, MajoritiesRemember, NEW s \in Servers, NEW t \in Servers, NEW m, NEW n,
         Safe(s, m), Safe(t, n), m <= n
  PROVE  /\ \A k \in 1..m : raftLog[s][k] = raftLog[t][k]
         /\ m \in 0..LastIndex(s) /\ n \in 0..LastIndex(t) /\ m <= LastIndex(t)
<1>1. PICK P \in Quorums : \A q \in P \ forgot : Holds(q, s, m)
  BY DEF Safe
<1>2. PICK Q \in Quorums : \A q \in Q \ forgot : Holds(q, t, n)
  BY DEF Safe
<1>3. PICK q \in Servers : q \in P /\ q \in Q /\ q \notin forgot
  BY RememberMeet
<1>4. m \in 0..LastIndex(s) /\ n \in 0..LastIndex(t)
  BY DEF Safe
<1>5. LastIndex(s) \in Nat /\ LastIndex(t) \in Nat
  <2>1. raftLog \in [Servers -> Seq(Entry)] BY DEF Types
  <2> QED BY <2>1 DEF LastIndex
<1> QED BY <1>1, <1>2, <1>3, <1>4, <1>5 DEF Holds

\* The requests in a part of a log stay what they are.
LEMMA RequestsStay ==
  ASSUME Types, Types', NEW s \in Servers, Grows(s), NEW n \in 0..LastIndex(s)
  PROVE  Requests(raftLog[s], n)' = Requests(raftLog[s], n)
<1>1. raftLog[s] \in Seq(Entry) /\ raftLog'[s] \in Seq(Entry)
  BY DEF Types
<1>2. n \in Nat /\ n <= Len(raftLog[s]) /\ n <= Len(raftLog'[s])
  BY <1>1 DEF LastIndex, Grows
<1>3. \A k \in 1..n : raftLog'[s][k] = raftLog[s][k]
  BY <1>1, <1>2 DEF LastIndex, Grows
<1>4. Requests(raftLog'[s], n) = Requests(raftLog[s], n)
  BY <1>1, <1>2, <1>3, RequestsOfSame
<1> QED BY <1>4

(***************************************************************************)
(* What the steps do to the logs                                           *)
(***************************************************************************)

\* What the types say of logs and terms.
LEMMA LogTypes ==
  ASSUME Types
  PROVE  /\ raftLog \in [Servers -> Seq(Entry)]
         /\ \A s \in Servers : LastIndex(s) \in Nat /\ LastIndex(s) = Len(raftLog[s])
         /\ \A s \in Servers : term[s] \in Nat
         /\ term \in [Servers -> 0..MaxTerm]
         /\ produced \in Nat
<1>1. raftLog \in [Servers -> Seq(Entry)] BY DEF Types
<1>2. term \in [Servers -> 0..MaxTerm] BY DEF Types
<1>3. produced \in 0..MaxProduced BY DEF Types
<1> QED BY <1>1, <1>2, <1>3, BoundsAssumption DEF LastIndex

\* The parts of a concatenation.
LEMMA ConcatParts ==
  ASSUME NEW a \in Seq(Entry), NEW b \in Seq(Entry)
  PROVE  /\ a \o b \in Seq(Entry)
         /\ Len(a \o b) = Len(a) + Len(b)
         /\ \A k \in 1..Len(a) : (a \o b)[k] = a[k]
         /\ \A i \in 1..Len(b) : (a \o b)[Len(a) + i] = b[i]
OBVIOUS

\* StoreLogs of one entry: it is there behind those that were.
LEMMA StoreOne ==
  ASSUME Types, NEW s \in Servers, NEW e \in Entry,
         raftLog' = [raftLog EXCEPT ![s] = StoreLogs(@, <<e>>)]
  PROVE  /\ raftLog' \in [Servers -> Seq(Entry)]
         /\ LogsGrow
         /\ \A t \in Servers \ {s} : raftLog'[t] = raftLog[t]
         /\ Len(raftLog'[s]) = LastIndex(s) + 1
         /\ raftLog'[s][LastIndex(s) + 1] = e
         /\ \A k \in 1..LastIndex(s) : raftLog'[s][k] = raftLog[s][k]
<1>1. raftLog \in [Servers -> Seq(Entry)] /\ raftLog[s] \in Seq(Entry)
  BY DEF Types
<1>2. raftLog'[s] = raftLog[s] \o <<e>> BY <1>1 DEF StoreLogs
<1>3. <<e>> \in Seq(Entry) /\ Len(<<e>>) = 1 /\ <<e>>[1] = e OBVIOUS
<1>4. /\ raftLog'[s] \in Seq(Entry)
      /\ Len(raftLog'[s]) = LastIndex(s) + 1
      /\ raftLog'[s][LastIndex(s) + 1] = e
      /\ \A k \in 1..LastIndex(s) : raftLog'[s][k] = raftLog[s][k]
  <2>1. raftLog[s] \o <<e>> = Append(raftLog[s], e) BY <1>1, AppendIsConcat
  <2> DEFINE a == raftLog[s]
  <2>2. a \in Seq(Entry) BY <1>1
  <2> HIDE DEF a
  <2>3. /\ Append(a, e) \in Seq(Entry)
        /\ Len(Append(a, e)) = Len(a) + 1
        /\ Append(a, e)[Len(a) + 1] = e
        /\ \A k \in 1..Len(a) : Append(a, e)[k] = a[k]
    BY <2>2, AppendProperties
  <2>4. raftLog'[s] = Append(a, e) BY <1>2, <2>1 DEF a
  <2> QED BY <2>3, <2>4 DEF a, LastIndex
<1>5. \A t \in Servers \ {s} : raftLog'[t] = raftLog[t] BY <1>1
<1>6. raftLog' \in [Servers -> Seq(Entry)]
  <2> HIDE DEF StoreLogs
  <2> QED BY <1>1, <1>4, <1>5
<1>7. LogsGrow BY <1>1, <1>4, <1>5 DEF LogsGrow, Grows, LastIndex
<1> QED BY <1>4, <1>5, <1>6, <1>7

\* StoreLogs of what the leader sends: the follower has the same entries so far.
LEMMA SendEntries ==
  ASSUME Types, LogMatching, NEW l \in Servers, NEW f \in Servers,
         NEW n \in 0..(LastIndex(l) - Common(l, f)), AppendEntries(l, f, n)
  PROVE  /\ raftLog' \in [Servers -> Seq(Entry)]
         /\ LogsGrow
         /\ \A t \in Servers \ {f} : raftLog'[t] = raftLog[t]
         /\ n = 0 => raftLog'[f] = raftLog[f]
         /\ n # 0 => Len(raftLog'[f]) = Common(l, f) + n
         /\ \A k \in 1..(Common(l, f) + n) : raftLog'[f][k] = raftLog[l][k]
         /\ Common(l, f) + n <= LastIndex(l) /\ Common(l, f) + n <= Len(raftLog'[f])
<1> DEFINE m == Common(l, f)
           es == SubSeq(raftLog[l], m + 1, m + n)
<1>1. /\ raftLog \in [Servers -> Seq(Entry)]
      /\ raftLog[f] \in Seq(Entry) /\ raftLog[l] \in Seq(Entry)
      /\ LastIndex(l) \in Nat /\ LastIndex(f) \in Nat
  BY LogTypes
<1>2. m \in 0..LastIndex(l) /\ m <= LastIndex(f)
      /\ \A k \in 1..m : raftLog[f][k] = raftLog[l][k]
  BY CommonIs, CommonHolds DEF Holds
<1>3. raftLog' = [raftLog EXCEPT ![f] = raftLog[f] \o es]
  BY DEF AppendEntries, StoreLogs
<1>4. n = 0 \/ LastIndex(f) = m
  BY DEF AppendEntries
<1> HIDE DEF m
<1>5. n \in Nat /\ m \in Nat /\ m + n <= LastIndex(l)
  BY <1>1, <1>2 DEF m
<1>6. es \in Seq(Entry) /\ Len(es) = n /\ \A i \in 1..n : es[i] = raftLog[l][m + i]
  <2>1. \A i \in (m + 1)..(m + n) : raftLog[l][i] \in Entry
    BY <1>1, <1>5, ElementOfSeq DEF LastIndex
  <2>2. m + 1 \in Int /\ m + n \in Int BY <1>5
  <2>3. /\ es \in Seq(Entry)
        /\ Len(es) = IF m + 1 <= m + n THEN (m + n) - (m + 1) + 1 ELSE 0
        /\ \A i \in 1..((m + n) - (m + 1) + 1) : es[i] = raftLog[l][(m + 1) + i - 1]
    BY <2>1, <2>2, SubSeqProperties
  <2> HIDE DEF es
  <2> QED BY <1>5, <2>3
<1> HIDE DEF es
<1>7. raftLog'[f] = raftLog[f] \o es BY <1>1, <1>3
<1>8. \A t \in Servers \ {f} : raftLog'[t] = raftLog[t] BY <1>1, <1>3
<1>9. /\ raftLog'[f] \in Seq(Entry)
      /\ Len(raftLog'[f]) = LastIndex(f) + n
      /\ \A k \in 1..LastIndex(f) : raftLog'[f][k] = raftLog[f][k]
      /\ \A i \in 1..n : raftLog'[f][LastIndex(f) + i] = es[i]
  <2> DEFINE a == raftLog[f]
  <2>1. a \in Seq(Entry) /\ LastIndex(f) = Len(a) BY <1>1 DEF LastIndex
  <2>2. raftLog'[f] = a \o es BY <1>7
  <2> HIDE DEF a
  <2>3. /\ a \o es \in Seq(Entry)
        /\ Len(a \o es) = Len(a) + n
        /\ \A k \in 1..Len(a) : (a \o es)[k] = a[k]
        /\ \A i \in 1..n : (a \o es)[Len(a) + i] = es[i]
    BY <1>6, <2>1, ConcatParts
  <2> QED BY <2>1, <2>2, <2>3 DEF a
<1>10. raftLog' \in [Servers -> Seq(Entry)] BY <1>1, <1>3, <1>8, <1>9
<1>12. LogsGrow
  <2> SUFFICES ASSUME NEW t \in Servers
               PROVE  /\ LastIndex(t) <= LastIndex(t)'
                      /\ \A k \in 1..LastIndex(t) : raftLog'[t][k] = raftLog[t][k]
    BY DEF LogsGrow, Grows
  <2>1. LastIndex(t) \in Nat /\ LastIndex(t) = Len(raftLog[t])
        /\ LastIndex(t)' = Len(raftLog'[t])
    BY <1>1 DEF LastIndex
  <2>2. CASE t = f
    <3>1. LastIndex(t) <= LastIndex(t)' BY <1>5, <1>9, <2>1, <2>2
    <3> QED BY <1>9, <2>2, <3>1
  <2>3. CASE t # f
    BY <1>8, <2>1, <2>3
  <2> QED BY <2>2, <2>3
<1>13. ASSUME NEW k \in 1..(m + n) PROVE raftLog'[f][k] = raftLog[l][k]
  <2>1. CASE k <= m
    <3>1. k \in 1..m /\ k \in 1..LastIndex(f) BY <1>1, <1>2, <1>5, <2>1 DEF m
    <3> QED BY <1>2, <1>9, <3>1 DEF m
  <2>2. CASE k > m
    <3>1. LastIndex(f) = m /\ k - m \in 1..n /\ m + (k - m) = k
      BY <1>1, <1>4, <1>5, <2>2
    <3>2. raftLog'[f][m + (k - m)] = es[k - m] BY <1>9, <3>1
    <3>3. es[k - m] = raftLog[l][m + (k - m)] BY <1>6, <3>1
    <3> QED BY <3>1, <3>2, <3>3
  <2> QED BY <1>5, <2>1, <2>2
<1>14. n = 0 => raftLog'[f] = raftLog[f]
  <2>1. CASE n = 0
    <3>1. es = <<>> BY <1>6, <2>1, EmptySeq
    <3> QED BY <1>1, <1>7, <3>1, ConcatEmptySeq
  <2> QED BY <2>1
<1>15. (n # 0 => Len(raftLog'[f]) = m + n) /\ m + n <= Len(raftLog'[f])
  BY <1>1, <1>2, <1>4, <1>5, <1>9 DEF m
<1> QED BY <1>5, <1>8, <1>10, <1>12, <1>13, <1>14, <1>15 DEF m

\* A new leader's term is above every server's, because a majority has reached
\* each of those.
LEMMA ElectedTerm ==
  ASSUME Types, TermsReached, NEW s \in Servers, NEW Q \in Quorums, Elect(s, Q)
  PROVE  \E new \in 1..MaxTerm :
           /\ \A t \in Servers : term[t] < new
           /\ term' = [q \in Servers |-> IF q \in Q THEN new ELSE term[q]]
           /\ raftLog' = [raftLog EXCEPT ![s] =
                            StoreLogs(@, <<[term |-> new, value |-> Noop]>>)]
<1> DEFINE S == {term[q] : q \in Q}
           new == Max(S) + 1
<1>1. Q \subseteq Servers /\ s \in Q /\ new <= MaxTerm
  BY DEF Elect, Quorums
<1>2. MaxTerm \in Nat /\ \A q \in Servers : term[q] \in 0..MaxTerm
  BY BoundsAssumption DEF Types
<1>3. S \in SUBSET (0..MaxTerm) /\ S # {}
  BY <1>1, <1>2
<1>4. Max(S) \in S /\ \A x \in S : x <= Max(S)
  BY <1>2, <1>3, MaxOfBounded
<1>5. Max(S) \in Nat /\ \A q \in Q : term[q] <= Max(S)
  BY <1>2, <1>3, <1>4
<1>6. term' = [q \in Servers |-> IF q \in Q THEN new ELSE term[q]]
  BY DEF Elect
<1>7. raftLog' = [raftLog EXCEPT ![s] = StoreLogs(@, <<[term |-> new, value |-> Noop]>>)]
  BY DEF Elect
<1> HIDE DEF S
<1>8. ASSUME NEW t \in Servers PROVE term[t] < new
  <2>1. PICK P \in Quorums : \A q \in P : term[t] <= term[q]
    BY DEF TermsReached
  <2>2. PICK q \in Servers : q \in P /\ q \in Q BY QuorumsMeet
  <2>3. term[t] \in Nat /\ term[q] \in Nat BY <1>2
  <2> QED BY <1>5, <2>1, <2>2, <2>3
<1>9. new \in 1..MaxTerm BY <1>1, <1>2, <1>5
<1> QED BY <1>6, <1>7, <1>8, <1>9

(***************************************************************************)
(* Types                                                                   *)
(***************************************************************************)

\* Each action keeps the types.
LEMMA ElectTypes ==
  ASSUME Types, TermsReached, NEW s \in Servers, NEW Q \in Quorums, Elect(s, Q)
  PROVE  Types'
<1>1. PICK new \in 1..MaxTerm :
        /\ term' = [q \in Servers |-> IF q \in Q THEN new ELSE term[q]]
        /\ raftLog' = [raftLog EXCEPT ![s] =
                         StoreLogs(@, <<[term |-> new, value |-> Noop]>>)]
  BY ElectedTerm
<1>2. [term |-> new, value |-> Noop] \in Entry BY BoundsAssumption DEF Entry
<1>3. raftLog' \in [Servers -> Seq(Entry)] BY <1>1, <1>2, StoreOne
<1>4. term' \in [Servers -> 0..MaxTerm]
  <2>1. term \in [Servers -> 0..MaxTerm] BY DEF Types
  <2>2. new \in 0..MaxTerm BY BoundsAssumption
  <2> QED BY <1>1, <2>1, <2>2
<1>5. role' \in [Servers -> {"follower", "leader", "stopped", "killed", "panicked", "failed"}]
  BY DEF Types, Elect
<1>6. futures' \subseteq [server : Servers, index : Nat]
  BY DEF Types, Elect
<1>7. match' \in [Servers -> [Servers -> Nat]]
  BY DEF Types, Elect, Nothing
<1> QED BY <1>3, <1>4, <1>5, <1>6, <1>7 DEF Types, Elect, storeVars, lifeVars

\* The types, action by action: a leader appends a request to its raft log.
LEMMA ProduceTypes ==
  ASSUME Types, NEW s \in Servers, Produce(s)
  PROVE  Types'
<1>1. [term |-> term[s], value |-> produced'] \in Entry
  BY LogTypes DEF Produce, Entry
<1>2. raftLog' \in [Servers -> Seq(Entry)]
  BY <1>1, StoreOne DEF Produce
<1>3. produced' \in 0..MaxProduced
  BY BoundsAssumption DEF Types, Produce
<1>4. futures' \subseteq [server : Servers, index : Nat]
  <2>1. LastIndex(s) + 1 \in Nat BY LogTypes
  <2>2. futures' = futures \cup {[server |-> s, index |-> LastIndex(s) + 1]}
    BY DEF Produce
  <2>3. futures \subseteq [server : Servers, index : Nat] BY DEF Types
  <2> QED BY <2>1, <2>2, <2>3
<1> QED BY <1>2, <1>3, <1>4 DEF Types, Produce, storeVars, lifeVars

\* The leader notes what the follower stores, the follower leads nobody.
LEMMA MatchAfterSend ==
  ASSUME Types, NEW l \in Servers, NEW f \in Servers,
         NEW n \in 0..(LastIndex(l) - Common(l, f)), AppendEntries(l, f, n)
  PROVE  \E k \in Nat :
           /\ k = match[l][f] \/ (n # 0 /\ k = Common(l, f) + n)
           /\ match' = [match EXCEPT ![l][f] = k, ![f] = Nothing]
<1> DEFINE h == Common(l, f) + n
<1>1. h \in Nat /\ n \in Nat BY CommonIs, LogTypes
<1>2. match[l][f] \in Nat BY DEF Types
<1>3. match' = [match EXCEPT ![l][f] = IF n = 0 THEN @ ELSE Max({@, h}), ![f] = Nothing]
  BY DEF AppendEntries
<1> HIDE DEF h
<1>4. Max({match[l][f], h}) = IF match[l][f] >= h THEN match[l][f] ELSE h
  BY <1>1, <1>2, MaxOfTwo
<1> DEFINE k == IF n = 0 THEN match[l][f] ELSE Max({match[l][f], h})
<1>5. k \in Nat /\ (k = match[l][f] \/ (n # 0 /\ k = h))
  BY <1>1, <1>2, <1>4
<1>6. match' = [match EXCEPT ![l][f] = k, ![f] = Nothing] BY <1>3
<1> HIDE DEF k
<1> QED BY <1>5, <1>6 DEF h

\* A follower stores the leader's next entries.
LEMMA AppendEntriesTypes ==
  ASSUME Types, LogMatching, NEW l \in Servers, NEW f \in Servers,
         NEW n \in 0..(LastIndex(l) - Common(l, f)), AppendEntries(l, f, n)
  PROVE  Types'
<1>1. raftLog' \in [Servers -> Seq(Entry)] BY SendEntries
<1>2. term' \in [Servers -> 0..MaxTerm] BY DEF Types, AppendEntries, FollowerOf
<1>3. role' \in [Servers -> {"follower", "leader", "stopped", "killed", "panicked", "failed"}]
  BY DEF Types, AppendEntries
<1>4. futures' \subseteq [server : Servers, index : Nat]
  BY DEF Types, AppendEntries, FollowerOf
<1>5. commit' \in [Servers -> Nat]
  <2> DEFINE m == Common(l, f)
             c == Max({commit[f], Min({commit[l], m + n})})
  <2>1. commit \in [Servers -> Nat] BY DEF Types
  <2>2. m + n \in Nat BY CommonIs, LogTypes
  <2> HIDE DEF m
  <2>3. Min({commit[l], m + n}) \in Nat
    <3>1. {commit[l], m + n} \in SUBSET Nat /\ {commit[l], m + n} # {} BY <2>1, <2>2
    <3> QED BY <3>1, MinOfSet
  <2>4. c \in Nat
    BY <2>1, <2>3, MaxOfTwo
  <2>5. commit' = [commit EXCEPT ![f] = c] \/ commit' = commit
    BY DEF AppendEntries, m
  <2> HIDE DEF c
  <2> QED BY <2>1, <2>4, <2>5
<1>6. match' \in [Servers -> [Servers -> Nat]]
  <2>1. match \in [Servers -> [Servers -> Nat]] BY DEF Types
  <2>2. Nothing \in [Servers -> Nat] BY DEF Nothing
  <2>3. PICK k \in Nat : match' = [match EXCEPT ![l][f] = k, ![f] = Nothing]
    BY MatchAfterSend
  <2> QED BY <2>1, <2>2, <2>3
<1> QED
  BY <1>1, <1>2, <1>3, <1>4, <1>5, <1>6 DEF Types, AppendEntries, storeVars, lifeVars

\* The deletion of conflicting entries leaves nothing, and the server panics.
LEMMA OverwritePanics ==
  ASSUME Types, NEW l \in Servers, NEW f \in Servers, OverwriteConflict(l, f)
  PROVE  /\ role' = [role EXCEPT ![f] = "panicked"]
         /\ first' = [first EXCEPT ![f] = LastIndex(f) + 1]
         /\ commit' = [commit EXCEPT ![f] = 0]
         /\ applied' = [applied EXCEPT ![f] = 0]
         /\ match' = [match EXCEPT ![f] = Nothing]
         /\ UNCHANGED <<raftLog, userLog, acked, reopened, forgot, snapshot>>
<1>1. LastIndex(f) \in Nat BY LogTypes
<1>2. DeleteRange(f, Common(l, f) + 1, LastIndex(f)) = {LastIndex(f) + 1}
  BY <1>1 DEF DeleteRange
<1>3. first' = [first EXCEPT ![f] = LastIndex(f) + 1]
  BY <1>2 DEF OverwriteConflict
<1>4. first'[f] > LastIndex(f)
  <2>1. first \in [Servers -> Nat \ {0}] BY DEF Types
  <2> QED BY <1>1, <1>3, <2>1
<1>5. /\ role' = [role EXCEPT ![f] = "panicked"]
      /\ commit' = [commit EXCEPT ![f] = 0]
      /\ applied' = [applied EXCEPT ![f] = 0]
      /\ match' = [match EXCEPT ![f] = Nothing]
      /\ raftLog' = raftLog
  BY <1>4 DEF OverwriteConflict
<1>6. UNCHANGED <<userLog, acked, reopened, forgot, snapshot>>
  BY DEF OverwriteConflict, lifeVars
<1> QED BY <1>3, <1>5, <1>6

\* A follower deletes its conflicting entries.
LEMMA OverwriteTypes ==
  ASSUME Types, NEW l \in Servers, NEW f \in Servers, OverwriteConflict(l, f)
  PROVE  Types'
<1>1. role' \in [Servers -> {"follower", "leader", "stopped", "killed", "panicked", "failed"}]
  BY OverwritePanics DEF Types
<1>2. first' \in [Servers -> Nat \ {0}]
  <2>1. first \in [Servers -> Nat \ {0}] BY DEF Types
  <2>2. LastIndex(f) + 1 \in Nat \ {0} BY LogTypes
  <2> QED BY <2>1, <2>2, OverwritePanics
<1>3. term' \in [Servers -> 0..MaxTerm] BY DEF Types, OverwriteConflict, FollowerOf
<1>4. futures' \subseteq [server : Servers, index : Nat]
  BY DEF Types, OverwriteConflict, FollowerOf
<1>5. raftLog' \in [Servers -> Seq(Entry)] BY OverwritePanics DEF Types
<1>6. /\ commit' \in [Servers -> Nat] /\ applied' \in [Servers -> Nat]
      /\ match' \in [Servers -> [Servers -> Nat]]
  <2>1. /\ commit' = [commit EXCEPT ![f] = 0]
        /\ applied' = [applied EXCEPT ![f] = 0]
        /\ match' = [match EXCEPT ![f] = Nothing]
    BY OverwritePanics
  <2>2. Nothing \in [Servers -> Nat] BY DEF Nothing
  <2> QED BY <2>1, <2>2 DEF Types
<1> QED
  BY <1>1, <1>2, <1>3, <1>4, <1>5, <1>6 DEF Types, OverwriteConflict, lifeVars

\* A leader counts an entry as stored by a quorum.
LEMMA AdvanceCommitTypes ==
  ASSUME Types, NEW l \in Servers, NEW n \in 1..LastIndex(l), AdvanceCommit(l, n)
  PROVE  Types'
<1>1. commit' \in [Servers -> Nat]
  BY LogTypes DEF Types, AdvanceCommit
<1> QED BY <1>1 DEF Types, AdvanceCommit, storeVars, lifeVars

\* A request is there for every caller that waits for an answer.
LEMMA ApplyEntryTypes ==
  ASSUME Types, ValuesOnce, FuturesOnLeaders, NEW s \in Servers, ApplyEntry(s)
  PROVE  /\ Types'
         /\ applied[s] + 1 \in 1..LastIndex(s)
         /\ raftLog[s][applied[s] + 1].value # Noop
              => raftLog[s][applied[s] + 1].value \in 1..MaxProduced
<1> DEFINE n == applied[s] + 1
           v == raftLog[s][n].value
<1>1. applied[s] \in Nat /\ applied \in [Servers -> Nat] BY DEF Types
<1>2. n \in 1..LastIndex(s) BY <1>1, LogTypes DEF ApplyEntry, HasEntry
<1>3. v # Noop => v \in 1..produced BY <1>2 DEF ValuesOnce
<1>4. produced \in Nat /\ produced <= MaxProduced /\ MaxProduced \in Nat
  BY BoundsAssumption DEF Types
<1>5. v # Noop => v \in 1..MaxProduced BY <1>3, <1>4
<1>6. applied' = [applied EXCEPT ![s] = n] BY DEF ApplyEntry
<1>7. userLog' = IF v = Noop THEN userLog ELSE [userLog EXCEPT ![s] = Append(@, v)]
  BY DEF ApplyEntry
<1>8. acked' = IF s \in reopened THEN acked
               ELSE acked \cup {[offset |-> Len(userLog[s]), value |-> v] :
                                 x \in {x \in futures : x.server = s /\ x.index = n}}
  BY DEF ApplyEntry
<1>9. userLog \in [Servers -> Seq(1..MaxProduced)] /\ userLog[s] \in Seq(1..MaxProduced)
  BY DEF Types
<1> HIDE DEF v
<1>10. userLog' \in [Servers -> Seq(1..MaxProduced)]
  <2>1. CASE v = Noop BY <1>7, <1>9, <2>1
  <2>2. CASE v # Noop
    <3>1. Append(userLog[s], v) \in Seq(1..MaxProduced) BY <1>5, <1>9, <2>2
    <3> QED BY <1>7, <1>9, <2>2, <3>1
  <2> QED BY <2>1, <2>2
<1>11. acked' \subseteq [offset : Nat, value : 1..MaxProduced]
  <2>1. acked \subseteq [offset : Nat, value : 1..MaxProduced] BY DEF Types
  <2>2. Len(userLog[s]) \in Nat BY <1>9
  <2>3. \A x \in futures : x.server = s /\ x.index = n => v # Noop
    BY DEF FuturesOnLeaders, v
  <2> SUFFICES ASSUME NEW r \in acked', r \notin acked
               PROVE  r \in [offset : Nat, value : 1..MaxProduced]
    BY <2>1
  <2>4. PICK x \in futures : /\ x.server = s /\ x.index = n
                             /\ r = [offset |-> Len(userLog[s]), value |-> v]
    BY <1>8
  <2>5. v \in 1..MaxProduced BY <1>5, <2>3, <2>4
  <2> QED BY <2>2, <2>4, <2>5
<1>12. applied' \in [Servers -> Nat] BY <1>1, <1>6
<1>13. futures' \subseteq [server : Servers, index : Nat] BY DEF ApplyEntry, Types
<1>14. Types'
  BY <1>10, <1>11, <1>12, <1>13 DEF Types, ApplyEntry, storeVars, lifeVars
<1> QED BY <1>2, <1>5, <1>14 DEF v

\* Behind the last request applied there are only entries of raft.
LEMMA LastRequestIs ==
  ASSUME Types, NEW s \in Servers, applied[s] <= LastIndex(s)
  PROVE  /\ LastRequest(s) \in 0..applied[s]
         /\ \A k \in (LastRequest(s) + 1)..applied[s] : raftLog[s][k].value = Noop
<1> DEFINE S == {k \in 1..applied[s] : raftLog[s][k].value # Noop} \cup {0}
<1>1. applied[s] \in Nat BY DEF Types
<1>2. S \in SUBSET (0..applied[s]) /\ S # {} BY <1>1
<1>3. Max(S) \in S /\ \A x \in S : x <= Max(S) BY <1>1, <1>2, MaxOfBounded
<1>4. LastRequest(s) = Max(S) BY DEF LastRequest
<1>5. Max(S) \in 0..applied[s] BY <1>2, <1>3
<1>6. ASSUME NEW k \in (Max(S) + 1)..applied[s] PROVE raftLog[s][k].value = Noop
  <2>1. k \in 1..applied[s] /\ ~(k <= Max(S)) BY <1>1, <1>5
  <2> QED BY <1>3, <2>1
<1> QED BY <1>4, <1>5, <1>6

\* DeleteRange works by segments and leaves the entry above max at least.
LEMMA DeleteRangeBounds ==
  ASSUME Types, NEW s \in Servers, NEW min, NEW max \in Nat, max < LastIndex(s),
         NEW n \in DeleteRange(s, min, max)
  PROVE  n \in Nat \ {0} /\ (n = first[s] \/ n <= max + 1)
<1>1. first[s] \in Nat \ {0} /\ SegEnts \in Nat BY SizesAssumption DEF Types
<1>2. ~(max >= LastIndex(s)) BY LogTypes
<1>3. PICK d \in 0..(SegEnts - 1) : n = Max({first[s], max + 1 - d})
  BY <1>2 DEF DeleteRange
<1>4. PICK b \in Int : b = max + 1 - d /\ b <= max + 1 BY <1>1
<1>5. n = Max({first[s], b}) BY <1>3, <1>4
<1>6. CASE b \in Nat
  <2>1. n = IF first[s] >= b THEN first[s] ELSE b BY <1>1, <1>5, <1>6, MaxOfTwo
  <2> QED BY <1>1, <1>4, <1>6, <2>1
<1>7. CASE b \notin Nat
  <2>1. first[s] >= b /\ first[s] >= first[s] BY <1>1, <1>7
  <2>2. \A x \in {first[s], b} : (\A y \in {first[s], b} : x >= y) <=> x = first[s]
    BY <1>1, <1>4, <1>7
  <2>3. n = first[s]
    <3> DEFINE S == {first[s], b}
    <3>1. first[s] \in S /\ \A x \in S : (\A y \in S : x >= y) <=> x = first[s] BY <2>2
    <3>2. Max(S) = CHOOSE x \in S : \A y \in S : x >= y BY DEF Max
    <3> HIDE DEF S
    <3>3. Max(S) = first[s] BY <3>1, <3>2
    <3> QED BY <1>5, <3>3 DEF S
  <2> QED BY <1>1, <2>3
<1> QED BY <1>6, <1>7

\* raft applies what is in the log.
LEMMA AppliedBound ==
  ASSUME Types, CommitSafe, NEW s \in Servers
  PROVE  applied[s] \in 0..LastIndex(s)
<1>1. applied[s] \in Nat /\ commit[s] \in Nat BY DEF Types
<1>2. commit[s] \in 0..LastIndex(s) /\ applied[s] <= commit[s] BY DEF CommitSafe, Safe
<1>3. LastIndex(s) \in Nat BY LogTypes
<1> QED BY <1>1, <1>2, <1>3

\* A snapshot covers what raft deletes after it.
LEMMA TakeSnapshotTypes ==
  ASSUME Types, CommitSafe, CompactionBounds, NEW s \in Servers, TakeSnapshot(s)
  PROVE  Types' /\ CompactionBounds'
<1> DEFINE index == LastRequest(s)
           max   == Min({index, LastIndex(s) - Trailing})
<1>1. applied[s] \in 0..LastIndex(s) /\ applied[s] \in Nat /\ LastIndex(s) \in Nat
  BY AppliedBound, LogTypes DEF Types
<1>2. index \in 0..applied[s] BY <1>1, LastRequestIs
<1>3. index \in Nat /\ index <= LastIndex(s) BY <1>1, <1>2
<1>4. /\ snapshot' = [snapshot EXCEPT ![s] = [index |-> index, records |-> userLog[s]]]
      /\ first' = first
         \/ /\ LastIndex(s) > Trailing
            /\ \E d \in DeleteRange(s, first[s], max) : first' = [first EXCEPT ![s] = d]
      /\ index > snapshot[s].index
      /\ UNCHANGED <<role, term, raftLog, match, commit, applied, userLog, futures, produced,
                     acked, reopened>>
  <2>1. Trailing \in Nat /\ LastIndex(s) \in Nat BY <1>1, SizesAssumption
  <2>2. ~(LastIndex(s) <= Trailing) => LastIndex(s) > Trailing BY <2>1
  <2> QED BY <2>2 DEF TakeSnapshot, lifeVars
<1>5. s \in Servers /\ role[s] \notin {"panicked", "failed"} BY DEF TakeSnapshot, Up
<1>6. /\ first \in [Servers -> Nat \ {0}]
      /\ snapshot \in [Servers -> [index : Nat, records : Seq(1..MaxProduced)]]
      /\ userLog[s] \in Seq(1..MaxProduced)
  BY DEF Types
<1>7. Trailing \in Nat \ {0} BY SizesAssumption
<1> HIDE DEF index
<1>8. ASSUME LastIndex(s) > Trailing, NEW d \in DeleteRange(s, first[s], max)
      PROVE  /\ d \in Nat \ {0}
             /\ d = first[s] \/ (d <= index + 1 /\ d + Trailing <= LastIndex(s) + 1)
  <2>1. LastIndex(s) - Trailing \in Nat BY <1>1, <1>7, <1>8
  <2>2. max \in Nat /\ max <= index /\ max <= LastIndex(s) - Trailing
    BY <1>3, <2>1, MinOfTwo
  <2> HIDE DEF max
  <2>3. max < LastIndex(s) BY <1>1, <1>7, <2>1, <2>2
  <2>4. d \in Nat \ {0} /\ (d = first[s] \/ d <= max + 1)
    BY <1>8, <2>2, <2>3, DeleteRangeBounds
  <2> QED BY <1>1, <1>3, <1>7, <2>1, <2>2, <2>4
<1> HIDE DEF max
<1>9. \/ first' = first
      \/ \E d \in Nat \ {0} :
           /\ first' = [first EXCEPT ![s] = d]
           /\ d = first[s] \/ (d <= index + 1 /\ d + Trailing <= LastIndex(s) + 1)
  BY <1>4, <1>8
<1>9a. first' \in [Servers -> Nat \ {0}] BY <1>6, <1>9
<1>10. snapshot' \in [Servers -> [index : Nat, records : Seq(1..MaxProduced)]]
  BY <1>3, <1>4, <1>6
<1>11. Types' BY <1>4, <1>9a, <1>10 DEF Types
<1>12. CompactionBounds'
  <2> SUFFICES ASSUME NEW t \in Servers
               PROVE  (/\ snapshot[t].index <= LastIndex(t)
                       /\ IF role[t] \in {"panicked", "failed"} THEN first[t] <= LastIndex(t) + 1
                          ELSE /\ first[t] <= snapshot[t].index + 1
                               /\ first[t] = 1 \/ first[t] + Trailing <= LastIndex(t) + 1)'
    BY DEF CompactionBounds
  <2>1. LastIndex(t)' = LastIndex(t) /\ role'[t] = role[t] BY <1>4 DEF LastIndex
  <2>2. CASE t # s
    <3>1. snapshot'[t] = snapshot[t] /\ first'[t] = first[t]
      BY <1>4, <1>6, <2>2
    <3> QED BY <2>1, <3>1 DEF CompactionBounds
  <2>3. CASE t = s
    <3>1. snapshot'[s].index = index BY <1>4, <1>6
    <3>2. /\ first[s] \in Nat /\ snapshot[s].index \in Nat
          /\ first[s] <= snapshot[s].index + 1
          /\ first[s] = 1 \/ first[s] + Trailing <= LastIndex(s) + 1
      BY <1>5, <1>6 DEF CompactionBounds
    <3>3. first'[s] = first[s] \/ (first'[s] <= index + 1 /\ first'[s] + Trailing <= LastIndex(s) + 1)
      BY <1>6, <1>9
    <3> QED BY <1>1, <1>3, <1>4, <1>5, <2>1, <2>3, <3>1, <3>2, <3>3
  <2> QED BY <2>2, <2>3
<1> QED BY <1>11, <1>12

\* A server stops, either way.
LEMMA StopTypes ==
  ASSUME Types, NEW s \in Servers, NEW how \in {"stopped", "killed"}, Stop(s, how)
  PROVE  Types'
<1>1. role' \in [Servers -> {"follower", "leader", "stopped", "killed", "panicked", "failed"}]
  BY DEF Types, Stop
<1>2. commit' \in [Servers -> Nat] /\ applied' \in [Servers -> Nat]
  BY DEF Types, Stop
<1>3. futures' \subseteq [server : Servers, index : Nat]
  BY DEF Types, Stop
<1>4. match' \in [Servers -> [Servers -> Nat]]
  BY DEF Types, Stop, Nothing
<1> QED BY <1>1, <1>2, <1>3, <1>4 DEF Types, Stop, storeVars

\* What a start that succeeds does to the log store: a beginning is left of it.
LEMMA RestartCuts ==
  ASSUME Types, NEW s \in Servers, NewDistributedLog(s)
  PROVE  /\ role[s] \in {"stopped", "killed", "panicked"}
         /\ raftLog' \in [Servers -> Seq(Entry)]
         /\ \A t \in Servers \ {s} : raftLog'[t] = raftLog[t]
         /\ Len(raftLog'[s]) <= LastIndex(s)
         /\ \A k \in 1..Len(raftLog'[s]) : raftLog'[s][k] = raftLog[s][k]
         /\ forgot \subseteq forgot'
         /\ Len(raftLog'[s]) < LastIndex(s) => s \in forgot'
<1>1. /\ raftLog \in [Servers -> Seq(Entry)] /\ raftLog[s] \in Seq(Entry)
      /\ LastIndex(s) \in Nat /\ LastIndex(s) = Len(raftLog[s])
  BY LogTypes
<1>2. PICK n \in EntriesFound(s) :
        /\ raftLog' = [raftLog EXCEPT ![s] = SubSeq(@, 1, n)]
        /\ forgot' = IF n < LastIndex(s) THEN forgot \cup {s} ELSE forgot
  BY DEF NewDistributedLog
<1>3. role[s] \in {"stopped", "killed", "panicked"} /\ n \in 0..LastIndex(s)
  BY <1>1 DEF EntriesFound
<1> DEFINE a == raftLog[s]
<1>4. n \in Nat /\ n <= Len(a) /\ a \in Seq(Entry) BY <1>1, <1>3
<1> HIDE DEF a
<1>5. /\ SubSeq(a, 1, n) \in Seq(Entry) /\ Len(SubSeq(a, 1, n)) = n
      /\ \A k \in 1..n : SubSeq(a, 1, n)[k] = a[k]
  BY <1>4
<1>6. raftLog'[s] = SubSeq(a, 1, n) BY <1>1, <1>2 DEF a
<1>7. \A t \in Servers \ {s} : raftLog'[t] = raftLog[t] BY <1>1, <1>2
<1>8. raftLog' \in [Servers -> Seq(Entry)] BY <1>1, <1>2, <1>5, <1>6, <1>7
<1>9. forgot \subseteq forgot' /\ (n < LastIndex(s) => s \in forgot') BY <1>2
<1> QED BY <1>3, <1>5, <1>6, <1>7, <1>8, <1>9 DEF a

\* A server starts again from what it finds.
LEMMA RestartTypes ==
  ASSUME Types, NEW s \in Servers, NewDistributedLog(s)
  PROVE  Types'
<1>1. role' \in [Servers -> {"follower", "leader", "stopped", "killed", "panicked", "failed"}]
  BY DEF Types, NewDistributedLog
<1>2. userLog' \in [Servers -> Seq(1..MaxProduced)]
  <2>1. userLog \in [Servers -> Seq(1..MaxProduced)] /\ userLog[s] \in Seq(1..MaxProduced)
    BY DEF Types
  <2>2. PICK k \in RecordsFound(s) : userLog' = [userLog EXCEPT ![s] = SubSeq(@, 1, k)]
    BY DEF NewDistributedLog
  <2>3. k \in 0..Len(userLog[s]) BY <2>1 DEF RecordsFound
  <2>4. SubSeq(userLog[s], 1, k) \in Seq(1..MaxProduced)
    <3> DEFINE u == userLog[s]
    <3>1. u \in Seq(1..MaxProduced) /\ k \in Nat /\ k <= Len(u) BY <2>1, <2>3
    <3>2. PICK S : S = 1..MaxProduced OBVIOUS
    <3> HIDE DEF u
    <3>3. u \in Seq(S) => SubSeq(u, 1, k) \in Seq(S) BY <3>1
    <3>4. SubSeq(u, 1, k) \in Seq(1..MaxProduced) BY <3>1, <3>2, <3>3
    <3> QED BY <3>4 DEF u
  <2> QED BY <2>1, <2>2, <2>4
<1>3. reopened' \subseteq Servers BY DEF Types, NewDistributedLog
<1>4. raftLog' \in [Servers -> Seq(Entry)] BY RestartCuts
<1>5. first' \in [Servers -> Nat \ {0}] BY DEF Types, NewDistributedLog
<1> QED BY <1>1, <1>2, <1>3, <1>4, <1>5 DEF Types, NewDistributedLog

\* A start that fails leaves the log store alone.
LEMMA StartFailsTypes ==
  ASSUME Types, NEW s \in Servers, StartFails(s)
  PROVE  Types'
<1>1. role' \in [Servers -> {"follower", "leader", "stopped", "killed", "panicked", "failed"}]
  BY DEF Types, StartFails
<1>2. userLog' \in [Servers -> Seq(1..MaxProduced)]
  <2>1. userLog \in [Servers -> Seq(1..MaxProduced)] BY DEF Types
  <2>2. <<>> \in Seq(1..MaxProduced) BY EmptySeq
  <2>3. userLog' = userLog \/ userLog' = [userLog EXCEPT ![s] = <<>>] BY DEF StartFails
  <2> QED BY <2>1, <2>2, <2>3
<1>3. reopened' \subseteq Servers BY DEF Types, StartFails
<1> QED BY <1>1, <1>2, <1>3 DEF Types, StartFails, storeVars

(***************************************************************************)
(* raft's part of the invariant                                            *)
(***************************************************************************)

\* The new leader's term is new, and it alone has an entry of it.
LEMMA ElectKeepsLogInv ==
  ASSUME LogInv, NEW s \in Servers, NEW Q \in Quorums, Elect(s, Q)
  PROVE  LogInv'
<1>1. Types /\ TermsReached /\ OneLeader /\ LeaderHasTerm /\ LogMatching /\ ValuesOnce
      /\ FuturesOnLeaders
  BY DEF LogInv
<1>2. PICK new \in 1..MaxTerm :
        /\ \A t \in Servers : term[t] < new
        /\ term' = [q \in Servers |-> IF q \in Q THEN new ELSE term[q]]
        /\ raftLog' = [raftLog EXCEPT ![s] =
                         StoreLogs(@, <<[term |-> new, value |-> Noop]>>)]
  BY <1>1, ElectedTerm
<1> DEFINE e == [term |-> new, value |-> Noop]
<1>3. new \in Nat /\ e \in Entry /\ e.term = new /\ e.value = Noop
  BY BoundsAssumption DEF Entry
<1>4. Types' BY <1>1, ElectTypes
<1> HIDE DEF e
<1>5. /\ LogsGrow
      /\ \A t \in Servers \ {s} : raftLog'[t] = raftLog[t]
      /\ Len(raftLog'[s]) = LastIndex(s) + 1
      /\ raftLog'[s][LastIndex(s) + 1] = e
      /\ \A k \in 1..LastIndex(s) : raftLog'[s][k] = raftLog[s][k]
  <2>1. raftLog' = [raftLog EXCEPT ![s] = StoreLogs(@, <<e>>)] BY <1>2 DEF e
  <2> QED BY <1>1, <1>3, <2>1, StoreOne
<1>6. /\ \A t \in Servers : LastIndex(t) \in Nat /\ term[t] \in Nat
      /\ \A t \in Servers \ {s} : LastIndex(t)' = LastIndex(t)
      /\ LastIndex(s)' = LastIndex(s) + 1
  BY <1>1, <1>5, LogTypes DEF LastIndex
<1>7. s \in Q /\ Q \subseteq Servers /\ \A t \in Servers : term'[t] = IF t \in Q THEN new ELSE term[t]
  BY <1>2 DEF Elect, Quorums
\* Every entry there was is of an older term.
<1>8. \A t \in Servers : \A k \in 1..LastIndex(t) :
        raftLog[t][k].term \in Nat /\ raftLog[t][k].term < new
  <2> TAKE t \in Servers
  <2> TAKE k \in 1..LastIndex(t)
  <2>1. raftLog[t][k].term \in Nat BY <1>1, LogTypes, EntryOf
  <2>2. raftLog[t][k].term <= term[t] BY <1>1 DEF TermsReached
  <2> QED BY <1>2, <1>3, <1>6, <2>1, <2>2
<1>9. \A t \in Servers : \A k \in 1..LastIndex(t)' :
        \/ k \in 1..LastIndex(t) /\ raftLog'[t][k] = raftLog[t][k]
        \/ t = s /\ k = LastIndex(s) + 1 /\ raftLog'[t][k] = e
  <2> TAKE t \in Servers
  <2> TAKE k \in 1..LastIndex(t)'
  <2>1. CASE t # s BY <1>5, <1>6, <2>1
  <2>2. CASE t = s
    <3>1. k \in 1..LastIndex(s) \/ k = LastIndex(s) + 1 BY <1>6, <2>2
    <3> QED BY <1>5, <2>2, <3>1
  <2> QED BY <2>1, <2>2
<1>10. TermsReached'
  <2> SUFFICES ASSUME NEW t \in Servers
               PROVE  /\ \A k \in 1..LastIndex(t)' : raftLog'[t][k].term <= term'[t]
                      /\ \E P \in Quorums : \A q \in P : term'[t] <= term'[q]
    BY DEF TermsReached
  <2>1. ASSUME NEW k \in 1..LastIndex(t)' PROVE raftLog'[t][k].term <= term'[t]
    <3>1. CASE k \in 1..LastIndex(t) /\ raftLog'[t][k] = raftLog[t][k]
      <4>1. raftLog[t][k].term <= term[t] BY <1>1, <3>1 DEF TermsReached
      <4> QED BY <1>3, <1>7, <1>8, <3>1, <4>1
    <3>2. CASE t = s /\ raftLog'[t][k] = e
      BY <1>3, <1>7, <3>2
    <3> QED BY <1>9, <3>1, <3>2
  <2>2. \A q \in Q : term'[t] <= term'[q]
    BY <1>2, <1>3, <1>6, <1>7
  <2> QED BY <2>1, <2>2
<1>11. \A l \in Servers : role'[l] = "leader" => l = s \/ (l \notin Q /\ role[l] = "leader")
  <2>1. role' = [q \in Servers |-> CASE q = s -> "leader"
                                      [] q \in Q \ {s} -> "follower"
                                      [] OTHER -> role[q]]
    BY DEF Elect
  <2> QED BY <1>7, <2>1
<1>12. OneLeader'
  <2> SUFFICES ASSUME NEW l \in Servers, NEW m \in Servers,
                      role'[l] = "leader", role'[m] = "leader", term'[l] = term'[m]
               PROVE  l = m
    BY DEF OneLeader
  <2>1. l # s => term'[l] < new BY <1>2, <1>7, <1>11
  <2>2. m # s => term'[m] < new BY <1>2, <1>7, <1>11
  <2>3. l # s /\ m # s => l = m BY <1>1, <1>7, <1>11 DEF OneLeader
  <2>4. term'[s] = new BY <1>7
  <2> QED BY <1>3, <2>1, <2>2, <2>3, <2>4
<1>13. LeaderHasTerm'
  <2> SUFFICES ASSUME NEW l \in Servers, NEW t \in Servers, role'[l] = "leader",
                      NEW k \in 1..LastIndex(t)', raftLog'[t][k].term = term'[l]
               PROVE  k <= LastIndex(l)'
    BY DEF LeaderHasTerm
  <2>1. CASE l = s
    <3>1. term'[l] = new BY <1>7, <2>1
    <3>2. t = s BY <1>3, <1>8, <1>9, <2>1, <3>1
    <3> QED BY <1>6, <2>1, <3>2
  <2>2. CASE l # s
    <3>1. role[l] = "leader" /\ term'[l] = term[l] /\ term[l] < new /\ LastIndex(l)' = LastIndex(l)
      BY <1>2, <1>6, <1>7, <1>11, <2>2
    <3>2. k \in 1..LastIndex(t) /\ raftLog'[t][k] = raftLog[t][k]
      BY <1>3, <1>6, <1>9, <3>1
    <3> QED BY <1>1, <3>1, <3>2 DEF LeaderHasTerm
  <2> QED BY <2>1, <2>2
<1>14. LogMatching'
  <2> SUFFICES ASSUME NEW t \in Servers, NEW u \in Servers, NEW n \in 1..LastIndex(t)',
                      Agree(t, u, n)'
               PROVE  Holds(u, t, n)'
    BY DEF LogMatching
  <2>1. n <= LastIndex(u)' /\ n \in 1..LastIndex(u)' /\ raftLog'[t][n].term = raftLog'[u][n].term
    BY DEF Agree
  <2>2. CASE n \in 1..LastIndex(t) /\ raftLog'[t][n] = raftLog[t][n]
             /\ n \in 1..LastIndex(u) /\ raftLog'[u][n] = raftLog[u][n]
    <3>1. Agree(t, u, n) BY <2>1, <2>2 DEF Agree
    <3>2. Holds(u, t, n) BY <1>1, <2>2, <3>1 DEF LogMatching
    <3>3. ASSUME NEW k \in 1..n PROVE raftLog'[u][k] = raftLog'[t][k]
      <4>1. k \in 1..LastIndex(t) /\ k \in 1..LastIndex(u) BY <1>6, <2>2
      <4> QED BY <1>5, <3>2, <4>1 DEF Holds, LogsGrow, Grows
    <3> QED BY <2>1, <3>3 DEF Holds
  <2>3. CASE t = u BY <2>1, <2>3 DEF Holds
  <2>4. CASE t # u /\ t = s /\ n = LastIndex(s) + 1 /\ raftLog'[t][n] = e
    <3>1. n \in 1..LastIndex(u) /\ raftLog'[u][n] = raftLog[u][n] BY <1>9, <2>1, <2>4
    <3> QED BY <1>3, <1>8, <2>1, <2>4, <3>1
  <2>5. CASE t # u /\ u = s /\ n = LastIndex(s) + 1 /\ raftLog'[u][n] = e
    <3>1. n \in 1..LastIndex(t) /\ raftLog'[t][n] = raftLog[t][n] BY <1>9, <2>1, <2>5
    <3> QED BY <1>3, <1>8, <2>1, <2>5, <3>1
  <2> QED BY <1>9, <2>1, <2>2, <2>3, <2>4, <2>5
<1>15. ValuesOnce'
  <2> SUFFICES ASSUME NEW t \in Servers, NEW u \in Servers,
                      NEW i \in 1..LastIndex(t)', NEW j \in 1..LastIndex(u)',
                      raftLog'[t][i].value # Noop
               PROVE  /\ raftLog'[t][i].value \in 1..produced'
                      /\ raftLog'[t][i].value = raftLog'[u][j].value => i = j
    BY DEF ValuesOnce
  <2>1. produced' = produced BY DEF Elect
  <2>2. i \in 1..LastIndex(t) /\ raftLog'[t][i] = raftLog[t][i] BY <1>3, <1>9
  <2>3. raftLog'[t][i].value = raftLog'[u][j].value
          => j \in 1..LastIndex(u) /\ raftLog'[u][j] = raftLog[u][j]
    BY <1>3, <1>9
  <2>4. raftLog[t][i].value \in 1..produced
    BY <1>1, <2>2 DEF ValuesOnce
  <2>5. raftLog'[t][i].value = raftLog'[u][j].value => i = j
    BY <1>1, <2>2, <2>3 DEF ValuesOnce
  <2> QED BY <2>1, <2>2, <2>4, <2>5
<1>16. FuturesOnLeaders'
  <2> SUFFICES ASSUME NEW x \in futures'
               PROVE  /\ role'[x.server] = "leader"
                      /\ x.index \in 1..LastIndex(x.server)'
                      /\ raftLog'[x.server][x.index].value # Noop
    BY DEF FuturesOnLeaders
  <2>1. x \in futures /\ x.server \notin Q /\ x.server \in Servers
    BY <1>1 DEF Elect, Types
  <2>2. /\ role[x.server] = "leader" /\ x.index \in 1..LastIndex(x.server)
        /\ raftLog[x.server][x.index].value # Noop
    BY <1>1, <2>1 DEF FuturesOnLeaders
  <2>3. role'[x.server] = role[x.server] /\ x.server # s BY <1>7, <2>1 DEF Elect
  <2> QED BY <1>5, <1>6, <2>1, <2>2, <2>3
<1> QED BY <1>4, <1>10, <1>12, <1>13, <1>14, <1>15, <1>16 DEF LogInv

\* The leader's entry is the first at its index in its term, and its request is new.
LEMMA ProduceKeepsLogInv ==
  ASSUME LogInv, NEW s \in Servers, Produce(s)
  PROVE  LogInv'
<1>1. Types /\ TermsReached /\ OneLeader /\ LeaderHasTerm /\ LogMatching /\ ValuesOnce
      /\ FuturesOnLeaders
  BY DEF LogInv
<1>2. Types' BY <1>1, ProduceTypes
<1>3. /\ role[s] = "leader" /\ produced' = produced + 1
      /\ futures' = futures \cup {[server |-> s, index |-> LastIndex(s) + 1]}
      /\ role' = role /\ term' = term
  BY DEF Produce
<1> DEFINE e == [term |-> term[s], value |-> produced + 1]
<1>4. e \in Entry /\ e.term = term[s] /\ e.value = produced + 1 /\ e.value # Noop
      /\ produced \in Nat
  BY <1>1, LogTypes, NoopAssumption DEF Entry
<1>5. raftLog' = [raftLog EXCEPT ![s] = StoreLogs(@, <<e>>)]
  BY <1>3 DEF Produce
<1> HIDE DEF e
<1>6. /\ LogsGrow
      /\ \A t \in Servers \ {s} : raftLog'[t] = raftLog[t]
      /\ Len(raftLog'[s]) = LastIndex(s) + 1
      /\ raftLog'[s][LastIndex(s) + 1] = e
      /\ \A k \in 1..LastIndex(s) : raftLog'[s][k] = raftLog[s][k]
  BY <1>1, <1>4, <1>5, StoreOne
<1>7. /\ \A t \in Servers : LastIndex(t) \in Nat /\ term[t] \in Nat
      /\ \A t \in Servers \ {s} : LastIndex(t)' = LastIndex(t)
      /\ LastIndex(s)' = LastIndex(s) + 1
  BY <1>1, <1>6, LogTypes DEF LastIndex
\* The entry is the first at its index of the leader's term.
<1>8. \A t \in Servers : \A k \in 1..LastIndex(t) :
        raftLog[t][k].term = term[s] => k <= LastIndex(s)
  BY <1>1, <1>3 DEF LeaderHasTerm
<1>9. \A t \in Servers : \A k \in 1..LastIndex(t)' :
        \/ k \in 1..LastIndex(t) /\ raftLog'[t][k] = raftLog[t][k]
        \/ t = s /\ k = LastIndex(s) + 1 /\ raftLog'[t][k] = e
  <2> TAKE t \in Servers
  <2> TAKE k \in 1..LastIndex(t)'
  <2>1. CASE t # s BY <1>6, <1>7, <2>1
  <2>2. CASE t = s
    <3>1. k \in 1..LastIndex(s) \/ k = LastIndex(s) + 1 BY <1>7, <2>2
    <3> QED BY <1>6, <2>2, <3>1
  <2> QED BY <2>1, <2>2
<1>10. TermsReached'
  <2> SUFFICES ASSUME NEW t \in Servers
               PROVE  /\ \A k \in 1..LastIndex(t)' : raftLog'[t][k].term <= term'[t]
                      /\ \E P \in Quorums : \A q \in P : term'[t] <= term'[q]
    BY DEF TermsReached
  <2>1. ASSUME NEW k \in 1..LastIndex(t)' PROVE raftLog'[t][k].term <= term'[t]
    <3>1. CASE k \in 1..LastIndex(t) /\ raftLog'[t][k] = raftLog[t][k]
      BY <1>1, <1>3, <3>1 DEF TermsReached
    <3>2. CASE t = s /\ raftLog'[t][k] = e
      BY <1>3, <1>4, <1>7, <3>2
    <3> QED BY <1>9, <3>1, <3>2
  <2>2. \E P \in Quorums : \A q \in P : term'[t] <= term'[q]
    BY <1>1, <1>3 DEF TermsReached
  <2> QED BY <2>1, <2>2
<1>11. OneLeader' BY <1>1, <1>3 DEF OneLeader
<1>12. LeaderHasTerm'
  <2> SUFFICES ASSUME NEW l \in Servers, NEW t \in Servers, role'[l] = "leader",
                      NEW k \in 1..LastIndex(t)', raftLog'[t][k].term = term'[l]
               PROVE  k <= LastIndex(l)'
    BY DEF LeaderHasTerm
  <2>1. role[l] = "leader" /\ term'[l] = term[l] /\ LastIndex(l) <= LastIndex(l)'
    BY <1>3, <1>7
  <2>2. CASE k \in 1..LastIndex(t) /\ raftLog'[t][k] = raftLog[t][k]
    <3>1. k <= LastIndex(l) BY <1>1, <2>1, <2>2 DEF LeaderHasTerm
    <3>2. LastIndex(l)' \in Nat BY <1>7
    <3> QED BY <1>7, <2>1, <2>2, <3>1, <3>2
  <2>3. CASE t = s /\ k = LastIndex(s) + 1 /\ raftLog'[t][k] = e
    <3>1. l = s BY <1>1, <1>3, <1>4, <2>1, <2>3 DEF OneLeader
    <3> QED BY <1>7, <2>3, <3>1
  <2> QED BY <1>9, <2>2, <2>3
<1>13. LogMatching'
  <2> SUFFICES ASSUME NEW t \in Servers, NEW u \in Servers, NEW n \in 1..LastIndex(t)',
                      Agree(t, u, n)'
               PROVE  Holds(u, t, n)'
    BY DEF LogMatching
  <2>1. n <= LastIndex(u)' /\ n \in 1..LastIndex(u)' /\ raftLog'[t][n].term = raftLog'[u][n].term
    BY DEF Agree
  <2>2. CASE n \in 1..LastIndex(t) /\ raftLog'[t][n] = raftLog[t][n]
             /\ n \in 1..LastIndex(u) /\ raftLog'[u][n] = raftLog[u][n]
    <3>1. Agree(t, u, n) BY <2>1, <2>2 DEF Agree
    <3>2. Holds(u, t, n) BY <1>1, <2>2, <3>1 DEF LogMatching
    <3>3. ASSUME NEW k \in 1..n PROVE raftLog'[u][k] = raftLog'[t][k]
      <4>1. k \in 1..LastIndex(t) /\ k \in 1..LastIndex(u) BY <1>7, <2>2
      <4> QED BY <1>6, <3>2, <4>1 DEF Holds, LogsGrow, Grows
    <3> QED BY <2>1, <3>3 DEF Holds
  <2>3. CASE t = u BY <2>1, <2>3 DEF Holds
  <2>4. CASE t # u /\ t = s /\ n = LastIndex(s) + 1 /\ raftLog'[t][n] = e
    <3>1. n \in 1..LastIndex(u) /\ raftLog'[u][n] = raftLog[u][n] BY <1>9, <2>1, <2>4
    <3>2. n <= LastIndex(s) BY <1>4, <1>8, <2>1, <2>4, <3>1
    <3> QED BY <1>7, <2>4, <3>2
  <2>5. CASE t # u /\ u = s /\ n = LastIndex(s) + 1 /\ raftLog'[u][n] = e
    <3>1. n \in 1..LastIndex(t) /\ raftLog'[t][n] = raftLog[t][n] BY <1>9, <2>1, <2>5
    <3>2. n <= LastIndex(s) BY <1>4, <1>8, <2>1, <2>5, <3>1
    <3> QED BY <1>7, <2>5, <3>2
  <2> QED BY <1>9, <2>1, <2>2, <2>3, <2>4, <2>5
<1>14. ValuesOnce'
  <2> SUFFICES ASSUME NEW t \in Servers, NEW u \in Servers,
                      NEW i \in 1..LastIndex(t)', NEW j \in 1..LastIndex(u)',
                      raftLog'[t][i].value # Noop
               PROVE  /\ raftLog'[t][i].value \in 1..produced'
                      /\ raftLog'[t][i].value = raftLog'[u][j].value => i = j
    BY DEF ValuesOnce
  <2>1. \A w \in Servers : \A k \in 1..LastIndex(w) :
          raftLog[w][k].value # Noop => raftLog[w][k].value \in 1..produced
    BY <1>1 DEF ValuesOnce
  <2>2. e.value \notin 1..produced /\ e.value \in 1..produced' BY <1>3, <1>4
  <2>3. \A v \in 1..produced : v \in 1..produced' BY <1>3, <1>4
  <2>4. CASE i \in 1..LastIndex(t) /\ raftLog'[t][i] = raftLog[t][i]
    <3>1. raftLog[t][i].value \in 1..produced BY <2>1, <2>4
    <3>2. CASE j \in 1..LastIndex(u) /\ raftLog'[u][j] = raftLog[u][j]
      <4>1. raftLog[t][i].value = raftLog[u][j].value => i = j
        BY <1>1, <2>4, <3>2 DEF ValuesOnce
      <4> QED BY <2>3, <2>4, <3>1, <3>2, <4>1
    <3>3. CASE raftLog'[u][j] = e
      BY <2>2, <2>3, <2>4, <3>1, <3>3
    <3> QED BY <1>9, <3>2, <3>3
  <2>5. CASE t = s /\ i = LastIndex(s) + 1 /\ raftLog'[t][i] = e
    <3>1. CASE j \in 1..LastIndex(u) /\ raftLog'[u][j] = raftLog[u][j]
      <4>1. raftLog'[u][j].value # raftLog'[t][i].value
        BY <1>4, <2>1, <2>2, <2>5, <3>1
      <4> QED BY <2>2, <2>5, <4>1
    <3>2. CASE u = s /\ j = LastIndex(s) + 1
      BY <2>2, <2>5, <3>2
    <3> QED BY <1>9, <3>1, <3>2
  <2> QED BY <1>9, <2>4, <2>5
<1>15. FuturesOnLeaders'
  <2> SUFFICES ASSUME NEW x \in futures'
               PROVE  /\ role'[x.server] = "leader"
                      /\ x.index \in 1..LastIndex(x.server)'
                      /\ raftLog'[x.server][x.index].value # Noop
    BY DEF FuturesOnLeaders
  <2>1. CASE x \in futures
    <3>1. /\ role[x.server] = "leader" /\ x.index \in 1..LastIndex(x.server)
          /\ raftLog[x.server][x.index].value # Noop /\ x.server \in Servers
      BY <1>1, <2>1 DEF FuturesOnLeaders, Types
    <3>2. LastIndex(x.server) \in Nat /\ LastIndex(x.server)' \in Nat
          /\ LastIndex(x.server) <= LastIndex(x.server)'
      BY <1>7, <3>1
    <3>3. raftLog'[x.server][x.index] = raftLog[x.server][x.index]
      BY <1>6, <3>1 DEF LogsGrow, Grows
    <3> QED BY <1>3, <3>1, <3>2, <3>3
  <2>2. CASE x = [server |-> s, index |-> LastIndex(s) + 1]
    <3>1. x.server = s /\ x.index = LastIndex(s) + 1 BY <2>2
    <3> QED BY <1>3, <1>4, <1>6, <1>7, <3>1
  <2> QED BY <1>3, <2>1, <2>2
<1> QED BY <1>2, <1>10, <1>11, <1>12, <1>13, <1>14, <1>15 DEF LogInv

\* The follower's log is now a part of the leader's, as far as it was sent.
LEMMA AppendEntriesKeepsLogInv ==
  ASSUME LogInv, NEW l \in Servers, NEW f \in Servers,
         NEW n \in 0..(LastIndex(l) - Common(l, f)), AppendEntries(l, f, n)
  PROVE  LogInv'
<1> DEFINE m == Common(l, f)
<1>1. Types /\ TermsReached /\ OneLeader /\ LeaderHasTerm /\ LogMatching /\ ValuesOnce
      /\ FuturesOnLeaders
  BY DEF LogInv
<1>2. Types' BY <1>1, AppendEntriesTypes
<1>3. /\ LogsGrow
      /\ \A t \in Servers \ {f} : raftLog'[t] = raftLog[t]
      /\ n = 0 => raftLog'[f] = raftLog[f]
      /\ n # 0 => Len(raftLog'[f]) = m + n
      /\ \A k \in 1..(m + n) : raftLog'[f][k] = raftLog[l][k]
      /\ m + n <= LastIndex(l)
  BY <1>1, SendEntries
<1>4. /\ \A t \in Servers : LastIndex(t) \in Nat /\ term[t] \in Nat
      /\ \A t \in Servers \ {f} : LastIndex(t)' = LastIndex(t)
      /\ n = 0 => LastIndex(f)' = LastIndex(f)
      /\ n # 0 => LastIndex(f)' = m + n
      /\ m \in Nat /\ n \in Nat
  <2>1. \A t \in Servers : LastIndex(t) \in Nat /\ term[t] \in Nat
    BY <1>1, LogTypes
  <2>2. m \in Nat
    BY <1>1, CommonIs
  <2>3. LastIndex(l) - m \in Int
    BY <2>1, <2>2
  <2>4. n \in Nat
    BY <2>3
  <2> HIDE DEF m
  <2>5. /\ \A t \in Servers \ {f} : LastIndex(t)' = LastIndex(t)
        /\ n = 0 => LastIndex(f)' = LastIndex(f)
        /\ n # 0 => LastIndex(f)' = m + n
    BY <1>3 DEF LastIndex
  <2> QED BY <2>1, <2>2, <2>4, <2>5
<1>5. /\ l # f /\ role[l] = "leader" /\ term[f] <= term[l]
      /\ \A t \in Servers : term'[t] = IF t = f THEN term[l] ELSE term[t]
      /\ \A t \in Servers : role'[t] = IF t = f THEN "follower" ELSE role[t]
      /\ futures' = {x \in futures : x.server # f}
      /\ produced' = produced
  BY <1>1 DEF AppendEntries, FollowerOf, Types
<1> HIDE DEF m
\* Every entry is one that its server or the leader had there.
<1>6. \A t \in Servers : \A k \in 1..LastIndex(t)' :
        \/ k \in 1..LastIndex(t) /\ raftLog'[t][k] = raftLog[t][k]
        \/ n # 0 /\ t = f /\ k \in 1..LastIndex(l) /\ raftLog'[t][k] = raftLog[l][k]
             /\ \A i \in 1..k : raftLog'[t][i] = raftLog[l][i]
  <2> TAKE t \in Servers
  <2> TAKE k \in 1..LastIndex(t)'
  <2>1. CASE t # f \/ n = 0 BY <1>3, <1>4, <2>1
  <2>2. CASE t = f /\ n # 0
    <3>1. k \in 1..(m + n) /\ k \in 1..LastIndex(l) /\ \A i \in 1..k : i \in 1..(m + n)
      BY <1>3, <1>4, <2>2
    <3> QED BY <1>3, <2>2, <3>1
  <2> QED BY <2>1, <2>2
<1>7. \A t \in Servers : \A k \in 1..LastIndex(t)' :
        \E u \in Servers : k \in 1..LastIndex(u) /\ raftLog'[t][k] = raftLog[u][k]
  BY <1>6
<1>8. \A t \in Servers : LastIndex(t)' \in Nat /\ LastIndex(t) <= LastIndex(t)'
  BY <1>3, <1>4 DEF LogsGrow, Grows
<1>9. TermsReached'
  <2> SUFFICES ASSUME NEW t \in Servers
               PROVE  /\ \A k \in 1..LastIndex(t)' : raftLog'[t][k].term <= term'[t]
                      /\ \E P \in Quorums : \A q \in P : term'[t] <= term'[q]
    BY DEF TermsReached
  <2>1. ASSUME NEW k \in 1..LastIndex(t)' PROVE raftLog'[t][k].term <= term'[t]
    <3>1. CASE k \in 1..LastIndex(t) /\ raftLog'[t][k] = raftLog[t][k]
      <4>1. raftLog[t][k].term <= term[t] BY <1>1, <3>1 DEF TermsReached
      <4>2. raftLog[t][k].term \in Nat BY <1>1, <3>1, LogTypes, EntryOf
      <4> QED BY <1>4, <1>5, <3>1, <4>1, <4>2
    <3>2. CASE t = f /\ k \in 1..LastIndex(l) /\ raftLog'[t][k] = raftLog[l][k]
      <4>1. raftLog[l][k].term <= term[l] BY <1>1, <3>2 DEF TermsReached
      <4> QED BY <1>5, <3>2, <4>1
    <3> QED BY <1>6, <3>1, <3>2
  <2>2. \E u \in Servers : term'[t] = term[u] BY <1>5
  <2>3. PICK u \in Servers : term'[t] = term[u] BY <2>2
  <2>4. PICK P \in Quorums : \A q \in P : term[u] <= term[q] BY <1>1 DEF TermsReached
  <2>5. \A q \in P : term[u] <= term'[q]
    <3> TAKE q \in P
    <3>1. q \in Servers /\ term[u] <= term[q] BY <2>4 DEF Quorums
    <3> QED BY <1>4, <1>5, <3>1
  <2> QED BY <2>1, <2>3, <2>5
<1>10. OneLeader' BY <1>1, <1>5 DEF OneLeader
<1>11. LeaderHasTerm'
  <2> SUFFICES ASSUME NEW h \in Servers, NEW t \in Servers, role'[h] = "leader",
                      NEW k \in 1..LastIndex(t)', raftLog'[t][k].term = term'[h]
               PROVE  k <= LastIndex(h)'
    BY DEF LeaderHasTerm
  <2>1. role[h] = "leader" /\ term'[h] = term[h] BY <1>5
  <2>2. PICK u \in Servers : k \in 1..LastIndex(u) /\ raftLog'[t][k] = raftLog[u][k]
    BY <1>7
  <2>3. k <= LastIndex(h) BY <1>1, <2>1, <2>2 DEF LeaderHasTerm
  <2> QED BY <1>4, <1>8, <2>2, <2>3
<1>12. LogMatching'
  <2> SUFFICES ASSUME NEW t \in Servers, NEW u \in Servers, NEW k \in 1..LastIndex(t)',
                      Agree(t, u, k)'
               PROVE  Holds(u, t, k)'
    BY DEF LogMatching
  <2>1. k <= LastIndex(u)' /\ k \in 1..LastIndex(u)' /\ raftLog'[t][k].term = raftLog'[u][k].term
    BY DEF Agree
  <2>2. ASSUME NEW v \in Servers, NEW w \in Servers,
               k \in 1..LastIndex(v), k \in 1..LastIndex(w),
               raftLog[v][k].term = raftLog[w][k].term
        PROVE  \A i \in 1..k : raftLog[v][i] = raftLog[w][i]
    <3>1. Agree(v, w, k) BY <2>2 DEF Agree
    <3> QED BY <1>1, <2>2, <3>1 DEF LogMatching, Holds
  <2>3. \E v \in Servers : /\ k \in 1..LastIndex(v)
                           /\ \A i \in 1..k : raftLog'[t][i] = raftLog[v][i]
    BY <1>3, <1>4, <1>6 DEF LogsGrow, Grows
  <2>4. \E w \in Servers : /\ k \in 1..LastIndex(w)
                           /\ \A i \in 1..k : raftLog'[u][i] = raftLog[w][i]
    BY <1>3, <1>4, <1>6, <2>1 DEF LogsGrow, Grows
  <2>5. PICK v \in Servers : /\ k \in 1..LastIndex(v)
                             /\ \A i \in 1..k : raftLog'[t][i] = raftLog[v][i]
    BY <2>3
  <2>6. PICK w \in Servers : /\ k \in 1..LastIndex(w)
                             /\ \A i \in 1..k : raftLog'[u][i] = raftLog[w][i]
    BY <2>4
  <2>7. k \in 1..k BY <1>4, <2>5
  <2>8. raftLog[v][k].term = raftLog[w][k].term BY <2>1, <2>5, <2>6, <2>7
  <2>9. \A i \in 1..k : raftLog[v][i] = raftLog[w][i] BY <2>2, <2>5, <2>6, <2>8
  <2> QED BY <2>1, <2>5, <2>6, <2>9 DEF Holds
<1>13. ValuesOnce'
  <2> SUFFICES ASSUME NEW t \in Servers, NEW u \in Servers,
                      NEW i \in 1..LastIndex(t)', NEW j \in 1..LastIndex(u)',
                      raftLog'[t][i].value # Noop
               PROVE  /\ raftLog'[t][i].value \in 1..produced'
                      /\ raftLog'[t][i].value = raftLog'[u][j].value => i = j
    BY DEF ValuesOnce
  <2>1. PICK v \in Servers : i \in 1..LastIndex(v) /\ raftLog'[t][i] = raftLog[v][i]
    BY <1>7
  <2>2. PICK w \in Servers : j \in 1..LastIndex(w) /\ raftLog'[u][j] = raftLog[w][j]
    BY <1>7
  <2> QED BY <1>1, <1>5, <2>1, <2>2 DEF ValuesOnce
<1>14. FuturesOnLeaders'
  <2> SUFFICES ASSUME NEW x \in futures'
               PROVE  /\ role'[x.server] = "leader"
                      /\ x.index \in 1..LastIndex(x.server)'
                      /\ raftLog'[x.server][x.index].value # Noop
    BY DEF FuturesOnLeaders
  <2>1. x \in futures /\ x.server # f /\ x.server \in Servers
    BY <1>1, <1>5 DEF Types
  <2>2. /\ role[x.server] = "leader" /\ x.index \in 1..LastIndex(x.server)
        /\ raftLog[x.server][x.index].value # Noop
    BY <1>1, <2>1 DEF FuturesOnLeaders
  <2> QED BY <1>3, <1>4, <1>5, <2>1, <2>2
<1> QED BY <1>2, <1>9, <1>10, <1>11, <1>12, <1>13, <1>14 DEF LogInv

\* A step that stores nothing, elects nobody and raises no term but to another
\* server's; it may cut the log of a server that does not lead.
LEMMA QuietKeepsLogInv ==
  ASSUME LogInv, Types', produced' = produced,
         \A s \in Servers : /\ LastIndex(s)' <= LastIndex(s)
                            /\ \A k \in 1..LastIndex(s)' : raftLog'[s][k] = raftLog[s][k],
         \A s \in Servers : role'[s] = "leader" => LastIndex(s)' = LastIndex(s),
         \A s \in Servers : \E u \in Servers : term'[s] = term[u],
         \A s \in Servers : term[s] <= term'[s],
         \A s \in Servers : role'[s] = "leader" => role[s] = "leader" /\ term'[s] = term[s],
         futures' \subseteq futures,
         \A x \in futures' : role'[x.server] = "leader"
  PROVE  LogInv'
<1>1. Types /\ TermsReached /\ OneLeader /\ LeaderHasTerm /\ LogMatching /\ ValuesOnce
      /\ FuturesOnLeaders
  BY DEF LogInv
<1>2. \A s \in Servers :
        /\ LastIndex(s) \in Nat /\ LastIndex(s)' \in Nat /\ term[s] \in Nat /\ term'[s] \in Nat
        /\ \A k \in 1..LastIndex(s)' : k \in 1..LastIndex(s) /\ raftLog'[s][k] = raftLog[s][k]
  <2>1. term' \in [Servers -> 0..MaxTerm] /\ raftLog' \in [Servers -> Seq(Entry)] BY DEF Types
  <2>2. \A s \in Servers : LastIndex(s)' \in Nat BY <2>1 DEF LastIndex
  <2>3. \A s \in Servers : term'[s] \in Nat BY <2>1, BoundsAssumption
  <2> QED BY <1>1, <2>2, <2>3, LogTypes
<1>3. TermsReached'
  <2> SUFFICES ASSUME NEW s \in Servers
               PROVE  /\ \A k \in 1..LastIndex(s)' : raftLog'[s][k].term <= term'[s]
                      /\ \E P \in Quorums : \A q \in P : term'[s] <= term'[q]
    BY DEF TermsReached
  <2>1. ASSUME NEW k \in 1..LastIndex(s)' PROVE raftLog'[s][k].term <= term'[s]
    <3>1. k \in 1..LastIndex(s) /\ raftLog'[s][k] = raftLog[s][k] BY <1>2
    <3>2. raftLog[s][k].term \in Nat BY <1>1, <3>1, LogTypes, EntryOf
    <3>3. raftLog[s][k].term <= term[s] BY <1>1, <3>1 DEF TermsReached
    <3> QED BY <1>2, <3>1, <3>2, <3>3
  <2>2. PICK u \in Servers : term'[s] = term[u] OBVIOUS
  <2>3. PICK P \in Quorums : \A q \in P : term[u] <= term[q] BY <1>1 DEF TermsReached
  <2>4. \A q \in P : term[u] <= term'[q]
    <3> TAKE q \in P
    <3>1. q \in Servers /\ term[u] <= term[q] BY <2>3 DEF Quorums
    <3> QED BY <1>2, <3>1
  <2> QED BY <2>1, <2>2, <2>4
<1>4. OneLeader' BY <1>1 DEF OneLeader
<1>5. LeaderHasTerm'
  <2> SUFFICES ASSUME NEW l \in Servers, NEW t \in Servers, role'[l] = "leader",
                      NEW k \in 1..LastIndex(t)', raftLog'[t][k].term = term'[l]
               PROVE  k <= LastIndex(l)'
    BY DEF LeaderHasTerm
  <2>1. role[l] = "leader" /\ term'[l] = term[l] /\ LastIndex(l)' = LastIndex(l) OBVIOUS
  <2>2. k \in 1..LastIndex(t) /\ raftLog[t][k].term = term[l] BY <1>2, <2>1
  <2> QED BY <1>1, <2>1, <2>2 DEF LeaderHasTerm
<1>6. LogMatching'
  <2> SUFFICES ASSUME NEW t \in Servers, NEW u \in Servers, NEW n \in 1..LastIndex(t)',
                      Agree(t, u, n)'
               PROVE  Holds(u, t, n)'
    BY DEF LogMatching
  <2>1. n \in 1..LastIndex(u)' /\ raftLog'[t][n].term = raftLog'[u][n].term
    BY <1>2 DEF Agree
  <2>2. n \in 1..LastIndex(t) /\ n \in 1..LastIndex(u) /\ Agree(t, u, n)
    BY <1>2, <2>1 DEF Agree
  <2>3. Holds(u, t, n) BY <1>1, <2>2 DEF LogMatching
  <2>4. ASSUME NEW k \in 1..n PROVE raftLog'[u][k] = raftLog'[t][k]
    <3>1. k \in 1..LastIndex(u)' /\ k \in 1..LastIndex(t)' BY <1>2, <2>1
    <3> QED BY <1>2, <2>3, <3>1 DEF Holds
  <2> QED BY <2>1, <2>4 DEF Holds
<1>7. ValuesOnce'
  <2> SUFFICES ASSUME NEW t \in Servers, NEW u \in Servers,
                      NEW i \in 1..LastIndex(t)', NEW j \in 1..LastIndex(u)',
                      raftLog'[t][i].value # Noop
               PROVE  /\ raftLog'[t][i].value \in 1..produced'
                      /\ raftLog'[t][i].value = raftLog'[u][j].value => i = j
    BY DEF ValuesOnce
  <2>1. i \in 1..LastIndex(t) /\ raftLog'[t][i] = raftLog[t][i] BY <1>2
  <2>2. j \in 1..LastIndex(u) /\ raftLog'[u][j] = raftLog[u][j] BY <1>2
  <2> QED BY <1>1, <2>1, <2>2 DEF ValuesOnce
<1>8. FuturesOnLeaders'
  <2> SUFFICES ASSUME NEW x \in futures'
               PROVE  /\ role'[x.server] = "leader"
                      /\ x.index \in 1..LastIndex(x.server)'
                      /\ raftLog'[x.server][x.index].value # Noop
    BY DEF FuturesOnLeaders
  <2>1. x.server \in Servers BY <1>1 DEF Types
  <2>2. /\ x.index \in 1..LastIndex(x.server)
        /\ raftLog[x.server][x.index].value # Noop
        /\ LastIndex(x.server)' = LastIndex(x.server)
    BY <1>1, <2>1 DEF FuturesOnLeaders
  <2>3. x.index \in 1..LastIndex(x.server)' BY <2>2
  <2> QED BY <1>2, <2>1, <2>2, <2>3
<1> QED BY <1>3, <1>4, <1>5, <1>6, <1>7, <1>8 DEF LogInv

\* A follower that panics leads nobody and keeps its log.
LEMMA OverwriteKeepsLogInv ==
  ASSUME LogInv, NEW l \in Servers, NEW f \in Servers, OverwriteConflict(l, f)
  PROVE  LogInv'
<1>1. Types BY DEF LogInv
<1>2. Types' BY <1>1, OverwriteTypes
<1>3. /\ role \in [Servers -> {"follower", "leader", "stopped", "killed", "panicked", "failed"}]
      /\ term \in [Servers -> 0..MaxTerm] /\ MaxTerm \in Nat
  BY <1>1, BoundsAssumption DEF Types
<1>4. role' = [role EXCEPT ![f] = "panicked"] /\ raftLog' = raftLog
  BY <1>1, OverwritePanics
<1>5. /\ term' = [term EXCEPT ![f] = term[l]] /\ term[f] <= term[l]
      /\ futures' = {x \in futures : x.server # f} /\ produced' = produced
  BY DEF OverwriteConflict, FollowerOf
<1>6. \A s \in Servers : \E u \in Servers : term'[s] = term[u] BY <1>3, <1>5
<1>7. \A s \in Servers : term[s] <= term'[s] BY <1>3, <1>5
<1>8. \A s \in Servers : role'[s] = "leader" => role[s] = "leader" /\ term'[s] = term[s]
  BY <1>3, <1>4, <1>5
<1>9. \A x \in futures' : role'[x.server] = "leader"
  <2> TAKE x \in futures'
  <2>1. x \in futures /\ x.server # f /\ x.server \in Servers BY <1>1, <1>5 DEF Types
  <2>2. role[x.server] = "leader" BY <2>1 DEF LogInv, FuturesOnLeaders
  <2> QED BY <1>3, <1>4, <2>1, <2>2
<1>10. futures' \subseteq futures BY <1>5
<1>11. \A s \in Servers : /\ LastIndex(s)' = LastIndex(s) /\ LastIndex(s)' <= LastIndex(s)
                          /\ \A k \in 1..LastIndex(s)' : raftLog'[s][k] = raftLog[s][k]
  BY <1>1, <1>4, LogTypes DEF LastIndex
<1> QED BY <1>2, <1>5, <1>6, <1>7, <1>8, <1>9, <1>10, <1>11, QuietKeepsLogInv

\* The steps of commit index, FSM and the life of a server.
LEMMA OtherKeepsLogInv ==
  ASSUME LogInv, Types', raftLog' = raftLog, term' = term, produced' = produced,
         futures' \subseteq futures,
         \A s \in Servers : role'[s] = "leader" => role[s] = "leader",
         \A x \in futures' : role'[x.server] = role[x.server]
  PROVE  LogInv'
<1>1. term \in [Servers -> 0..MaxTerm] /\ MaxTerm \in Nat
  BY BoundsAssumption DEF LogInv, Types
<1>2. \A s \in Servers : term[s] <= term'[s] /\ \E u \in Servers : term'[s] = term[u]
  BY <1>1
<1>3. \A x \in futures' : role'[x.server] = "leader"
  BY DEF LogInv, FuturesOnLeaders
<1>4. \A s \in Servers : /\ LastIndex(s)' = LastIndex(s) /\ LastIndex(s)' <= LastIndex(s)
                         /\ \A k \in 1..LastIndex(s)' : raftLog'[s][k] = raftLog[s][k]
  <2>1. Types BY DEF LogInv
  <2> QED BY <2>1, LogTypes DEF LastIndex
<1> QED BY <1>2, <1>3, <1>4, QuietKeepsLogInv

\* A server that stops leads nobody any more.
LEMMA StopKeepsLogInv ==
  ASSUME LogInv, NEW s \in Servers, NEW how \in {"stopped", "killed"}, Stop(s, how)
  PROVE  LogInv'
<1>1. /\ Types
      /\ role \in [Servers -> {"follower", "leader", "stopped", "killed", "panicked", "failed"}]
  BY DEF LogInv, Types
<1>2. Types' BY <1>1, StopTypes
<1>3. UNCHANGED <<term, raftLog, produced>> /\ futures' = {x \in futures : x.server # s}
      /\ role' = [role EXCEPT ![s] = how]
  BY DEF Stop
<1>4. \A x \in futures' : role'[x.server] = role[x.server]
  BY <1>1, <1>3 DEF Types
<1>5. \A t \in Servers : role'[t] = "leader" => role[t] = "leader" BY <1>1, <1>3
<1>6. futures' \subseteq futures BY <1>3
<1> QED BY <1>2, <1>3, <1>4, <1>5, <1>6, OtherKeepsLogInv

\* A server that starts, with a beginning of its log left, leads nobody yet.
LEMMA RestartKeepsLogInv ==
  ASSUME LogInv, NEW s \in Servers, NewDistributedLog(s)
  PROVE  LogInv'
<1>1. /\ Types
      /\ role \in [Servers -> {"follower", "leader", "stopped", "killed", "panicked", "failed"}]
      /\ term \in [Servers -> 0..MaxTerm] /\ MaxTerm \in Nat
  BY BoundsAssumption DEF LogInv, Types
<1>2. Types' BY <1>1, RestartTypes
<1>3. UNCHANGED <<term, produced, futures>> /\ role' = [role EXCEPT ![s] = "follower"]
  BY DEF NewDistributedLog
<1>4. /\ role[s] # "leader"
      /\ \A t \in Servers \ {s} : raftLog'[t] = raftLog[t]
      /\ Len(raftLog'[s]) <= LastIndex(s)
      /\ \A k \in 1..Len(raftLog'[s]) : raftLog'[s][k] = raftLog[s][k]
  BY <1>1, RestartCuts
<1>5. \A t \in Servers : LastIndex(t) \in Nat BY <1>1, LogTypes
<1>6. \A t \in Servers : /\ LastIndex(t)' <= LastIndex(t)
                         /\ \A k \in 1..LastIndex(t)' : raftLog'[t][k] = raftLog[t][k]
                         /\ t # s => LastIndex(t)' = LastIndex(t)
  BY <1>4, <1>5 DEF LastIndex
<1>7. \A t \in Servers : role'[t] = "leader" => t # s /\ role[t] = "leader" /\ term'[t] = term[t]
  BY <1>1, <1>3
<1>8. \A t \in Servers : term[t] <= term'[t] /\ \E u \in Servers : term'[t] = term[u]
  BY <1>1, <1>3
<1>9. \A x \in futures' : role'[x.server] = "leader"
  <2> TAKE x \in futures'
  <2>1. x \in futures /\ x.server \in Servers BY <1>1, <1>3 DEF Types
  <2>2. role[x.server] = "leader" BY <2>1 DEF LogInv, FuturesOnLeaders
  <2> QED BY <1>1, <1>3, <1>4, <2>1, <2>2
<1> QED BY <1>2, <1>3, <1>6, <1>7, <1>8, <1>9, QuietKeepsLogInv

\* Nor does one whose start fails.
LEMMA StartFailsKeepsLogInv ==
  ASSUME LogInv, NEW s \in Servers, StartFails(s)
  PROVE  LogInv'
<1>1. /\ Types
      /\ role \in [Servers -> {"follower", "leader", "stopped", "killed", "panicked", "failed"}]
  BY DEF LogInv, Types
<1>2. Types' BY <1>1, StartFailsTypes
<1>3. UNCHANGED <<term, raftLog, produced, futures>> /\ role[s] # "leader"
      /\ role' = [role EXCEPT ![s] = "failed"]
  BY DEF StartFails
<1>4. \A t \in Servers : role'[t] = "leader" => role[t] = "leader" BY <1>1, <1>3
<1>5. \A x \in futures' : role'[x.server] = role[x.server]
  <2> TAKE x \in futures'
  <2>1. x \in futures /\ x.server \in Servers BY <1>1, <1>3 DEF Types
  <2>2. x.server # s BY <1>3, <2>1 DEF LogInv, FuturesOnLeaders
  <2> QED BY <1>1, <1>3, <2>1, <2>2
<1> QED BY <1>2, <1>3, <1>4, <1>5, OtherKeepsLogInv

\* Every step keeps raft's part of the invariant.
LEMMA NextKeepsLogInv ==
  ASSUME LogInv, CommitSafe, CompactionBounds, [Next]_vars
  PROVE  LogInv'
<1>1. Types BY DEF LogInv
<1>2. role \in [Servers -> {"follower", "leader", "stopped", "killed", "panicked", "failed"}]
  BY <1>1 DEF Types
<1>3. ASSUME NEW s \in Servers, NEW Q \in Quorums, Elect(s, Q) PROVE LogInv'
  BY <1>3, ElectKeepsLogInv
<1>4. ASSUME NEW s \in Servers, Produce(s) PROVE LogInv'
  BY <1>4, ProduceKeepsLogInv
<1>5. ASSUME NEW l \in Servers, NEW f \in Servers,
             NEW n \in 0..(LastIndex(l) - Common(l, f)), AppendEntries(l, f, n)
      PROVE  LogInv'
  BY <1>5, AppendEntriesKeepsLogInv
<1>6. ASSUME NEW l \in Servers, NEW f \in Servers, OverwriteConflict(l, f) PROVE LogInv'
  BY <1>6, OverwriteKeepsLogInv
<1>7. ASSUME NEW l \in Servers, NEW n \in 1..LastIndex(l), AdvanceCommit(l, n) PROVE LogInv'
  <2>1. Types' BY <1>1, <1>7, AdvanceCommitTypes
  <2>2. UNCHANGED <<role, term, raftLog, futures, produced>> BY <1>7 DEF AdvanceCommit
  <2> QED BY <2>1, <2>2, OtherKeepsLogInv
<1>8. ASSUME NEW s \in Servers, ApplyEntry(s) PROVE LogInv'
  <2>1. Types' BY <1>8, ApplyEntryTypes DEF LogInv
  <2>2. UNCHANGED <<role, term, raftLog, produced>> /\ futures' \subseteq futures
    BY <1>8 DEF ApplyEntry
  <2> QED BY <2>1, <2>2, OtherKeepsLogInv
<1>9. ASSUME NEW s \in Servers, TakeSnapshot(s) PROVE LogInv'
  <2>1. Types' BY <1>1, <1>9, TakeSnapshotTypes
  <2>2. UNCHANGED <<role, term, raftLog, futures, produced>> BY <1>9 DEF TakeSnapshot
  <2> QED BY <2>1, <2>2, OtherKeepsLogInv
<1>10. ASSUME NEW s \in Servers, Close(s) \/ Kill(s) PROVE LogInv'
  BY <1>10, StopKeepsLogInv DEF Close, Kill
<1>11. ASSUME NEW s \in Servers, NewDistributedLog(s) \/ StartFails(s) PROVE LogInv'
  BY <1>11, RestartKeepsLogInv, StartFailsKeepsLogInv
<1>12. CASE UNCHANGED vars
  <2>1. Types' BY <1>1, <1>12 DEF Types, vars
  <2>2. UNCHANGED <<role, term, raftLog, futures, produced>> BY <1>12 DEF vars
  <2> QED BY <2>1, <2>2, OtherKeepsLogInv
<1> QED
  BY <1>3, <1>4, <1>5, <1>6, <1>7, <1>8, <1>9, <1>10, <1>11, <1>12 DEF Next

(***************************************************************************)
(* What is committed and applied                                           *)
(***************************************************************************)

\* No step takes an entry out of a log but a start.
LEMMA NextKeepsLogs ==
  ASSUME LogInv, [Next]_vars
  PROVE  LogsKept
<1>1. Types /\ TermsReached /\ LogMatching BY DEF LogInv
<1>2. \A s \in Servers : LastIndex(s) \in Nat BY <1>1, LogTypes
<1>3. ASSUME LogsGrow, forgot' = forgot PROVE LogsKept
  BY <1>3 DEF LogsGrow, LogsKept
<1>4. ASSUME raftLog' = raftLog PROVE LogsGrow
  BY <1>2, <1>4 DEF LogsGrow, Grows, LastIndex
<1>5. ASSUME NEW s \in Servers, NEW Q \in Quorums, Elect(s, Q) PROVE LogsKept
  <2>1. PICK new \in 1..MaxTerm :
          raftLog' = [raftLog EXCEPT ![s] = StoreLogs(@, <<[term |-> new, value |-> Noop]>>)]
    BY <1>1, <1>5, ElectedTerm
  <2>2. [term |-> new, value |-> Noop] \in Entry BY BoundsAssumption DEF Entry
  <2>3. LogsGrow BY <1>1, <2>1, <2>2, StoreOne
  <2> QED BY <1>3, <1>5, <2>3 DEF Elect, lifeVars
<1>6. ASSUME NEW s \in Servers, Produce(s) PROVE LogsKept
  <2>1. [term |-> term[s], value |-> produced'] \in Entry
    BY <1>1, <1>6, LogTypes DEF Produce, Entry
  <2>2. LogsGrow BY <1>1, <1>6, <2>1, StoreOne DEF Produce
  <2> QED BY <1>3, <1>6, <2>2 DEF Produce, lifeVars
<1>7. ASSUME NEW l \in Servers, NEW f \in Servers,
             NEW n \in 0..(LastIndex(l) - Common(l, f)), AppendEntries(l, f, n)
      PROVE  LogsKept
  <2>1. LogsGrow BY <1>1, <1>7, SendEntries
  <2> QED BY <1>3, <1>7, <2>1 DEF AppendEntries, lifeVars
<1>8. ASSUME NEW l \in Servers, NEW f \in Servers, OverwriteConflict(l, f) PROVE LogsKept
  BY <1>1, <1>3, <1>4, <1>8, OverwritePanics
<1>9. ASSUME NEW l \in Servers, NEW n \in 1..LastIndex(l), AdvanceCommit(l, n) PROVE LogsKept
  BY <1>3, <1>4, <1>9 DEF AdvanceCommit, lifeVars
<1>10. ASSUME NEW s \in Servers,
              ApplyEntry(s) \/ TakeSnapshot(s) \/ Close(s) \/ Kill(s) \/ StartFails(s)
       PROVE  LogsKept
  BY <1>3, <1>4, <1>10 DEF ApplyEntry, TakeSnapshot, Close, Kill, Stop, StartFails, lifeVars
<1>11. ASSUME NEW s \in Servers, NewDistributedLog(s) PROVE LogsKept
  <2>1. /\ \A t \in Servers \ {s} : raftLog'[t] = raftLog[t]
        /\ Len(raftLog'[s]) <= LastIndex(s)
        /\ \A k \in 1..Len(raftLog'[s]) : raftLog'[s][k] = raftLog[s][k]
        /\ forgot \subseteq forgot'
        /\ Len(raftLog'[s]) < LastIndex(s) => s \in forgot'
        /\ raftLog' \in [Servers -> Seq(Entry)]
    BY <1>1, <1>11, RestartCuts
  <2>2. \A t \in Servers \ {s} : Grows(t) BY <1>2, <2>1 DEF Grows, LastIndex
  <2>3. Len(raftLog'[s]) \in Nat BY <2>1
  <2>4. CASE Len(raftLog'[s]) < LastIndex(s) BY <1>11, <2>1, <2>2, <2>4 DEF LogsKept
  <2>5. CASE Len(raftLog'[s]) = LastIndex(s)
    <3>1. Grows(s) BY <1>2, <2>1, <2>5 DEF Grows, LastIndex
    <3> QED BY <2>1, <2>2, <3>1 DEF LogsKept
  <2> QED BY <1>2, <2>1, <2>3, <2>4, <2>5
<1>12. CASE UNCHANGED vars BY <1>3, <1>4, <1>12 DEF vars
<1> QED BY <1>5, <1>6, <1>7, <1>8, <1>9, <1>10, <1>11, <1>12 DEF Next

\* The log of a server that is up only grows.
LEMMA UpGrows ==
  ASSUME Types, LogsKept, NEW s \in Up
  PROVE  s \in Servers /\ Grows(s)
BY RestartCuts DEF LogsKept, Up

\* What a server stored of another's log it stores when both have grown.
LEMMA HoldsStays ==
  ASSUME Types, Types', NEW q \in Servers, NEW s \in Servers, Grows(q), Grows(s),
         NEW n \in 0..LastIndex(s), Holds(q, s, n)
  PROVE  Holds(q, s, n)'
<1>1. LastIndex(q) \in Nat /\ LastIndex(s) \in Nat /\ LastIndex(q)' \in Nat
  <2>1. raftLog \in [Servers -> Seq(Entry)] /\ raftLog' \in [Servers -> Seq(Entry)]
    BY DEF Types
  <2> QED BY <2>1 DEF LastIndex
<1>2. n <= LastIndex(q)' BY <1>1 DEF Grows, Holds
<1>3. ASSUME NEW k \in 1..n PROVE raftLog'[q][k] = raftLog'[s][k]
  <2>1. k \in 1..LastIndex(q) /\ k \in 1..LastIndex(s) BY <1>1 DEF Holds
  <2> QED BY <2>1 DEF Grows, Holds
<1> QED BY <1>2, <1>3 DEF Holds

\* A leader's notes stay right, and a server that starts to lead or stops has none.
LEMMA NextKeepsMatchHolds ==
  ASSUME LogInv, LogInv', LogsKept, MatchHolds, [Next]_vars
  PROVE  MatchHolds'
<1>1. Types /\ Types' /\ LogMatching BY DEF LogInv
<1>2. /\ match \in [Servers -> [Servers -> Nat]] /\ match' \in [Servers -> [Servers -> Nat]]
      /\ role \in [Servers -> {"follower", "leader", "stopped", "killed", "panicked", "failed"}]
      /\ Nothing \in [Servers -> Nat] /\ \A q \in Servers : Nothing[q] = 0
  BY <1>1 DEF Types, Nothing
<1>3. \A s \in Servers : LastIndex(s) \in Nat /\ LastIndex(s)' \in Nat
  <2>1. raftLog \in [Servers -> Seq(Entry)] /\ raftLog' \in [Servers -> Seq(Entry)]
    BY <1>1 DEF Types
  <2> QED BY <2>1 DEF LastIndex
<1> DEFINE Right(l, q) == /\ match[l][q] <= (IF role[l] = "leader" THEN LastIndex(l) ELSE 0)
                          /\ q \in forgot \/ Holds(q, l, match[l][q])
<1>4. ASSUME NEW l \in Servers, NEW q \in Servers, NEW k \in Nat, match'[l][q] = k,
             k <= (IF role'[l] = "leader" THEN LastIndex(l)' ELSE 0),
             q \in forgot' \/ Holds(q, l, k)'
      PROVE  Right(l, q)'
  BY <1>4 DEF Holds
<1>5. ASSUME NEW l \in Servers, NEW q \in Servers, match'[l] = Nothing
      PROVE  Right(l, q)'
  <2>1. match'[l][q] = 0 BY <1>2, <1>5
  <2>2. 0 <= (IF role'[l] = "leader" THEN LastIndex(l)' ELSE 0) BY <1>3
  <2>3. Holds(q, l, 0)' BY <1>3 DEF Holds
  <2> QED BY <1>4, <2>1, <2>2, <2>3
<1>6. ASSUME NEW l \in Servers, NEW q \in Servers, match'[l][q] = match[l][q],
             role'[l] = "leader" <=> role[l] = "leader"
      PROVE  Right(l, q)'
  <2>1. PICK k \in Nat : k = match[l][q] BY <1>2
  <2>2. /\ k <= (IF role[l] = "leader" THEN LastIndex(l) ELSE 0)
        /\ q \in forgot \/ Holds(q, l, k)
    BY <2>1 DEF MatchHolds
  <2>3. CASE role[l] = "leader"
    <3>1. Grows(l) BY <1>1, <2>3, UpGrows DEF Up
    <3>2. k <= LastIndex(l)' /\ k \in 0..LastIndex(l) BY <1>3, <2>2, <2>3, <3>1 DEF Grows
    <3>3. ASSUME q \notin forgot' PROVE Holds(q, l, k)'
      <4>1. q \notin forgot /\ Grows(q) BY <3>3 DEF LogsKept
      <4> QED BY <1>1, <2>2, <3>1, <3>2, <4>1, HoldsStays
    <3> QED BY <1>4, <1>6, <2>1, <2>3, <3>2, <3>3
  <2>4. CASE role[l] # "leader"
    <3>1. k = 0 BY <2>2, <2>4
    <3>2. Holds(q, l, 0)' BY <1>3 DEF Holds
    <3>3. k <= (IF role'[l] = "leader" THEN LastIndex(l)' ELSE 0) BY <1>3, <3>1
    <3> QED BY <1>4, <1>6, <2>1, <3>1, <3>2, <3>3
  <2> QED BY <2>3, <2>4
<1>7. ASSUME \A l, q \in Servers : Right(l, q)' PROVE MatchHolds'
  BY <1>7 DEF MatchHolds
<1> HIDE DEF Right
<1>8. ASSUME match' = match, role' = role PROVE MatchHolds'
  BY <1>6, <1>7, <1>8
<1>9. ASSUME NEW s \in Servers, match' = [match EXCEPT ![s] = Nothing],
             \A t \in Servers \ {s} : role'[t] = role[t]
      PROVE  MatchHolds'
  <2>1. \A l, q \in Servers : l = s => Right(l, q)' BY <1>2, <1>5, <1>9
  <2>2. \A l, q \in Servers : l # s => Right(l, q)' BY <1>2, <1>6, <1>9
  <2> QED BY <1>7, <2>1, <2>2
<1>10. ASSUME NEW s \in Servers, NEW Q \in Quorums, Elect(s, Q) PROVE MatchHolds'
  <2>1. /\ match' = [q \in Servers |-> IF q \in Q THEN Nothing ELSE match[q]]
        /\ \A t \in Servers \ Q : role'[t] = role[t]
    BY <1>10 DEF Elect
  <2>2. \A l, q \in Servers : l \in Q => Right(l, q)' BY <1>5, <2>1
  <2>3. \A l, q \in Servers : l \notin Q => Right(l, q)' BY <1>6, <2>1
  <2> QED BY <1>7, <2>2, <2>3
<1>11. ASSUME NEW l \in Servers, NEW f \in Servers,
              NEW n \in 0..(LastIndex(l) - Common(l, f)), AppendEntries(l, f, n)
       PROVE  MatchHolds'
  <2>1. PICK k \in Nat : /\ k = match[l][f] \/ (n # 0 /\ k = Common(l, f) + n)
                         /\ match' = [match EXCEPT ![l][f] = k, ![f] = Nothing]
    BY <1>1, <1>11, MatchAfterSend
  <2>2. /\ l # f /\ role[l] = "leader" /\ role' = [role EXCEPT ![f] = "follower"]
    BY <1>11 DEF AppendEntries, FollowerOf
  <2>3. ASSUME NEW h \in Servers, NEW q \in Servers PROVE Right(h, q)'
    <3>1. CASE h = f BY <1>2, <1>5, <2>1, <3>1
    <3>2. CASE h # f /\ ~(h = l /\ q = f)
      <4>1. match'[h][q] = match[h][q] /\ role'[h] = role[h] BY <1>2, <2>1, <2>2, <3>2
      <4> QED BY <1>6, <4>1
    <3>3. CASE h = l /\ q = f
      <4>1. match'[l][f] = k /\ role'[l] = "leader" BY <1>2, <2>1, <2>2
      <4>2. CASE k = match[l][f] BY <1>6, <2>2, <3>3, <4>1, <4>2
      <4>3. CASE k = Common(l, f) + n
        <5>1. /\ raftLog'[l] = raftLog[l] /\ k <= LastIndex(l) /\ k <= Len(raftLog'[f])
              /\ \A i \in 1..k : raftLog'[f][i] = raftLog[l][i]
          BY <1>1, <1>11, <2>2, <4>3, SendEntries
        <5>2. Holds(f, l, k)' /\ k <= LastIndex(l)' BY <5>1 DEF Holds, LastIndex
        <5> QED BY <1>4, <3>3, <4>1, <5>2
      <4> QED BY <2>1, <4>2, <4>3
    <3> QED BY <3>1, <3>2, <3>3
  <2> QED BY <1>7, <2>3
<1>12. ASSUME NEW l \in Servers, NEW f \in Servers, OverwriteConflict(l, f) PROVE MatchHolds'
  <2>1. /\ match' = [match EXCEPT ![f] = Nothing]
        /\ role' = [role EXCEPT ![f] = "panicked"]
    BY <1>1, <1>12, OverwritePanics
  <2>2. \A t \in Servers \ {f} : role'[t] = role[t] BY <1>2, <2>1
  <2> QED BY <1>9, <2>1, <2>2
<1>13. ASSUME NEW s \in Servers, NEW how, Stop(s, how) PROVE MatchHolds'
  <2>1. /\ match' = [match EXCEPT ![s] = Nothing]
        /\ role' = [role EXCEPT ![s] = how]
    BY <1>13 DEF Stop
  <2>2. \A t \in Servers \ {s} : role'[t] = role[t] BY <1>2, <2>1
  <2> QED BY <1>9, <2>1, <2>2
<1>14. ASSUME NEW s \in Servers, NewDistributedLog(s) \/ StartFails(s) PROVE MatchHolds'
  <2>1. /\ match' = match /\ role[s] \in {"stopped", "killed", "panicked"}
        /\ role' = [role EXCEPT ![s] = "follower"] \/ role' = [role EXCEPT ![s] = "failed"]
    BY <1>1, <1>14, RestartCuts DEF NewDistributedLog, StartFails
  <2>2. \A t \in Servers : role'[t] = "leader" <=> role[t] = "leader" BY <1>2, <2>1
  <2> QED BY <1>6, <1>7, <2>1, <2>2
<1>15. ASSUME NEW s \in Servers, Produce(s) \/ ApplyEntry(s) \/ TakeSnapshot(s)
       PROVE  MatchHolds'
  BY <1>8, <1>15 DEF Produce, ApplyEntry, TakeSnapshot
<1>16. ASSUME NEW l \in Servers, NEW n \in 1..LastIndex(l), AdvanceCommit(l, n)
       PROVE  MatchHolds'
  BY <1>8, <1>16 DEF AdvanceCommit
<1>17. CASE UNCHANGED vars BY <1>8, <1>17 DEF vars
<1>18. ASSUME NEW s \in Servers, Close(s) \/ Kill(s) PROVE MatchHolds'
  BY <1>13, <1>18 DEF Close, Kill
<1> QED
  BY <1>10, <1>11, <1>12, <1>14, <1>15, <1>16, <1>17, <1>18 DEF Next

\* Safe for a number that is the value of the commit index after the step.
LEMMA SafeAtCommit ==
  ASSUME NEW s \in Servers, NEW k, k = commit'[s], Safe(s, k)'
  PROVE  Safe(s, commit[s])'
BY DEF Safe, Holds

\* A commit index that a step leaves alone stays safe.
LEMMA CommitKept ==
  ASSUME LogInv, LogInv', LogsKept, CommitSafe, NEW s \in Servers, Grows(s),
         commit'[s] = commit[s]
  PROVE  Safe(s, commit[s])'
<1>1. Types /\ Types' BY DEF LogInv
<1>2. PICK k : k = commit[s] OBVIOUS
<1>3. Safe(s, k) BY <1>2 DEF CommitSafe
<1>4. Safe(s, k)' BY <1>1, <1>3, SafeStays
<1> QED BY <1>2, <1>4, SafeAtCommit

\* The follower's commit index follows the leader's no further than its log
\* is the leader's.
LEMMA AppendEntriesKeepsCommitSafe ==
  ASSUME LogInv, LogInv', LogsKept, CommitSafe, NEW l \in Servers, NEW f \in Servers,
         NEW n \in 0..(LastIndex(l) - Common(l, f)), AppendEntries(l, f, n)
  PROVE  CommitSafe'
<1>1. Types /\ Types' /\ LogMatching BY DEF LogInv
<1>2. Common(l, f) \in Nat /\ LastIndex(l) \in Nat
  BY <1>1, CommonIs, LogTypes
<1>3. commit \in [Servers -> Nat] /\ applied \in [Servers -> Nat] /\ applied' = applied
  BY <1>1 DEF Types, AppendEntries
<1>4. PICK h \in Nat : h = Common(l, f) + n BY <1>2
<1>5. \A k \in 1..h : raftLog'[f][k] = raftLog[l][k]
  BY <1>1, <1>4, SendEntries
<1>5a. \A s \in Servers : Grows(s)
  BY <1>1, SendEntries DEF LogsGrow
<1>6. h <= LastIndex(f)' /\ LastIndex(f)' \in Nat
  <2>1. Common(l, f) + n <= Len(raftLog'[f]) BY <1>1, SendEntries
  <2>2. raftLog' \in [Servers -> Seq(Entry)] BY <1>1 DEF Types
  <2> QED BY <1>4, <2>1, <2>2 DEF LastIndex
<1>7. PICK c \in Nat : c = Min({commit[l], h}) /\ c <= commit[l] /\ c <= h
  <2>1. /\ Min({commit[l], h}) \in Nat
        /\ Min({commit[l], h}) = IF commit[l] <= h THEN commit[l] ELSE h
    BY <1>3, MinOfTwo
  <2> DEFINE c == Min({commit[l], h})
  <2>2. c \in Nat /\ c <= commit[l] /\ c <= h
    <3> HIDE DEF c
    <3>1. c \in Nat /\ c = IF commit[l] <= h THEN commit[l] ELSE h BY <2>1 DEF c
    <3> QED BY <1>3, <3>1
  <2> QED BY <2>2
<1>8. \/ commit' = commit
      \/ commit' = [commit EXCEPT ![f] = commit[f]]
      \/ commit' = [commit EXCEPT ![f] = c] /\ commit[f] <= c
  <2>1. commit' = [commit EXCEPT ![f] = Max({commit[f], c})] \/ commit' = commit
    BY <1>4, <1>7 DEF AppendEntries
  <2>2. Max({commit[f], c}) = IF commit[f] >= c THEN commit[f] ELSE c
    BY <1>3, MaxOfTwo
  <2>3. (Max({commit[f], c}) = commit[f]) \/ (Max({commit[f], c}) = c /\ commit[f] <= c)
    BY <1>3, <2>2
  <2> QED BY <2>1, <2>3
<1>9. Safe(f, c)'
  <2>1. PICK k \in Nat : k = commit[l] BY <1>3
  <2>2. Safe(l, k) BY <2>1 DEF CommitSafe
  <2>3. Safe(l, c) BY <1>1, <1>7, <2>1, <2>2, SafeLess
  <2>4. (Safe(l, c))' BY <1>1, <1>5a, <2>3, SafeStays
  <2>5. PICK Q \in Quorums : \A q \in Q \ forgot' : Holds(q, l, c)' BY <2>4 DEF Safe
  <2>6. \A k1 \in 1..c : raftLog'[f][k1] = raftLog'[l][k1]
    <3> TAKE k1 \in 1..c
    <3>1. k1 \in 1..h /\ raftLog'[f][k1] = raftLog[l][k1] BY <1>5, <1>7
    <3>2. c \in 0..LastIndex(l) BY <2>3 DEF Safe
    <3>3. k1 \in 1..LastIndex(l) BY <1>2, <3>2
    <3> QED BY <1>5a, <3>1, <3>3 DEF Grows
  <2>7. ASSUME NEW q \in Q \ forgot' PROVE Holds(q, f, c)'
    <3>1. Holds(q, l, c)' BY <2>5
    <3> QED BY <2>6, <3>1 DEF Holds
  <2>8. c \in 0..LastIndex(f)' BY <1>6, <1>7
  <2> QED BY <2>7, <2>8 DEF Safe
<1>10. ASSUME NEW s \in Servers
       PROVE  Safe(s, commit[s])' /\ applied'[s] <= commit'[s]
  <2>1. applied[s] <= commit[s] /\ applied[s] \in Nat /\ commit[s] \in Nat
    BY <1>3 DEF CommitSafe
  <2>2. CASE commit'[s] = commit[s]
    <3>1. Safe(s, commit[s])' BY <1>5a, <2>2, CommitKept
    <3> QED BY <1>3, <2>1, <2>2, <3>1
  <2>3. CASE s = f /\ c = commit'[s] /\ commit[f] <= c
    <3>1. Safe(s, c)' BY <1>9, <2>3
    <3>2. Safe(s, commit[s])' BY <2>3, <3>1, SafeAtCommit
    <3>3. applied'[s] <= commit'[s] BY <1>3, <2>1, <2>3
    <3> QED BY <3>2, <3>3
  <2> QED BY <1>3, <1>8, <2>2, <2>3
<1> QED BY <1>10 DEF CommitSafe

\* Commit indexes cover what a majority stored, and nothing else is applied.
LEMMA NextKeepsCommitSafe ==
  ASSUME LogInv, LogInv', LogsKept, MatchHolds, DownForgets, CommitSafe, [Next]_vars
  PROVE  CommitSafe'
<1>1. Types /\ Types' /\ LogMatching BY DEF LogInv
<1>2. /\ commit \in [Servers -> Nat] /\ applied \in [Servers -> Nat]
      /\ \A s \in Servers : LastIndex(s) \in Nat
  BY <1>1, LogTypes DEF Types
\* A server whose indexes the step leaves alone, or takes from it.
<1>3. ASSUME NEW s \in Servers, commit'[s] = commit[s], applied'[s] = applied[s]
      PROVE  Safe(s, commit[s])' /\ applied'[s] <= commit'[s]
  <2>1. CASE Grows(s)
    <3>1. Safe(s, commit[s])' BY <1>3, <2>1, CommitKept
    <3> QED BY <1>3, <3>1 DEF CommitSafe
  <2>2. CASE NewDistributedLog(s)
    <3>1. s \notin Up BY <1>1, <2>2, RestartCuts DEF Up
    <3>2. 0 = commit'[s] /\ 0 = applied'[s] BY <1>3, <3>1 DEF DownForgets
    <3>3. Safe(s, 0)' BY <1>1, SafeZero
    <3>4. Safe(s, commit[s])' BY <3>2, <3>3, SafeAtCommit
    <3> QED BY <3>2, <3>4
  <2> QED BY <2>1, <2>2 DEF LogsKept
<1>4. ASSUME NEW s \in Servers, commit'[s] = 0, applied'[s] = 0
      PROVE  Safe(s, commit[s])' /\ applied'[s] <= commit'[s]
  <2>1. Safe(s, 0)' BY <1>1, SafeZero
  <2>2. Safe(s, commit[s])' BY <1>4, <2>1, SafeAtCommit
  <2> QED BY <1>4, <2>2
<1>5. ASSUME commit' = commit, applied' = applied PROVE CommitSafe'
  BY <1>3, <1>5 DEF CommitSafe
<1>6. ASSUME NEW s \in Servers, commit' = [commit EXCEPT ![s] = 0],
             applied' = [applied EXCEPT ![s] = 0]
      PROVE  CommitSafe'
  <2>1. commit'[s] = 0 /\ applied'[s] = 0 BY <1>2, <1>6
  <2>2. \A t \in Servers \ {s} : commit'[t] = commit[t] /\ applied'[t] = applied[t]
    BY <1>2, <1>6
  <2> QED BY <1>3, <1>4, <2>1, <2>2 DEF CommitSafe
<1>7. ASSUME NEW s \in Servers, NEW Q \in Quorums, Elect(s, Q) PROVE CommitSafe'
  BY <1>5, <1>7 DEF Elect
<1>8. ASSUME NEW s \in Servers,
             Produce(s) \/ TakeSnapshot(s) \/ NewDistributedLog(s) \/ StartFails(s)
      PROVE  CommitSafe'
  BY <1>5, <1>8 DEF Produce, TakeSnapshot, NewDistributedLog, StartFails
<1>9. ASSUME NEW l \in Servers, NEW f \in Servers,
             NEW n \in 0..(LastIndex(l) - Common(l, f)), AppendEntries(l, f, n)
      PROVE  CommitSafe'
  BY <1>9, AppendEntriesKeepsCommitSafe
<1>10. ASSUME NEW l \in Servers, NEW f \in Servers, OverwriteConflict(l, f) PROVE CommitSafe'
  BY <1>1, <1>6, <1>10, OverwritePanics
<1>11. ASSUME NEW l \in Servers, NEW n \in 1..LastIndex(l), AdvanceCommit(l, n)
       PROVE  CommitSafe'
  <2>1. /\ commit' = [commit EXCEPT ![l] = n] /\ applied' = applied /\ commit[l] < n
        /\ raftLog' = raftLog /\ role[l] = "leader"
    BY <1>11 DEF AdvanceCommit
  <2>2. PICK Q \in Quorums : \A q \in Q : q = l \/ n <= match[l][q] BY <1>11 DEF AdvanceCommit
  <2>3. ASSUME NEW q \in Q \ forgot PROVE Holds(q, l, n)
    <3>1. q \in Servers BY DEF Quorums
    <3>2. CASE q = l BY <1>2, <3>2 DEF Holds
    <3>3. CASE q # l
      <4>1. n <= match[l][q] /\ Holds(q, l, match[l][q]) BY <2>2, <3>1, <3>3 DEF MatchHolds
      <4>2. match[l][q] \in Nat /\ LastIndex(q) \in Nat BY <1>1, <1>2, <3>1 DEF Types
      <4> QED BY <1>2, <4>1, <4>2 DEF Holds
    <3> QED BY <3>2, <3>3
  <2>4. n \in 0..LastIndex(l) BY <1>2
  <2>5. Safe(l, n) BY <2>3, <2>4 DEF Safe
  <2>6. Grows(l) BY <1>1, <2>1, UpGrows DEF Up
  <2>7. Safe(l, n)' BY <1>1, <2>5, <2>6, SafeStays
  <2> SUFFICES ASSUME NEW s \in Servers
               PROVE  Safe(s, commit[s])' /\ applied'[s] <= commit'[s]
    BY DEF CommitSafe
  <2>8. CASE s = l
    <3>1. n = commit'[s] BY <1>2, <2>1, <2>8
    <3>2. Safe(s, commit[s])' BY <2>7, <2>8, <3>1, SafeAtCommit
    <3>3. applied[s] <= commit[s] BY DEF CommitSafe
    <3>4. applied'[s] <= commit'[s] BY <1>2, <2>1, <2>4, <2>8, <3>1, <3>3
    <3> QED BY <3>2, <3>4
  <2>9. CASE s # l BY <1>2, <1>3, <2>1, <2>9
  <2> QED BY <2>8, <2>9
<1>12. ASSUME NEW s \in Servers, ApplyEntry(s) PROVE CommitSafe'
  <2>1. /\ commit' = commit /\ applied' = [applied EXCEPT ![s] = applied[s] + 1]
        /\ applied[s] + 1 <= commit[s] /\ s \in Up
    BY <1>12 DEF ApplyEntry
  <2> SUFFICES ASSUME NEW t \in Servers
               PROVE  Safe(t, commit[t])' /\ applied'[t] <= commit'[t]
    BY DEF CommitSafe
  <2>2. CASE t = s
    <3>1. Grows(s) BY <1>1, <2>1, UpGrows
    <3>2. Safe(t, commit[t])' BY <2>1, <2>2, <3>1, CommitKept
    <3> QED BY <1>2, <2>1, <2>2, <3>2
  <2>3. CASE t # s BY <1>2, <1>3, <2>1, <2>3
  <2> QED BY <2>2, <2>3
<1>13. ASSUME NEW s \in Servers, Close(s) \/ Kill(s) PROVE CommitSafe'
  BY <1>6, <1>13 DEF Close, Kill, Stop
<1>14. CASE UNCHANGED vars BY <1>5, <1>14 DEF vars
<1> QED
  BY <1>7, <1>8, <1>9, <1>10, <1>11, <1>12, <1>13, <1>14 DEF Next

\* What a step is that neither applies an entry nor starts a server.
Quiet ==
  /\ UNCHANGED <<userLog, acked, reopened, forgot>>
  /\ Up' \subseteq Up
  /\ \A t \in Up' : applied'[t] = applied[t]
  /\ \A t \in Servers \ Up' : \/ commit'[t] = 0 /\ applied'[t] = 0
                              \/ /\ t \notin Up
                                 /\ commit'[t] = commit[t] /\ applied'[t] = applied[t]

\* A step applies an entry, or starts a server again, or leaves the user logs and
\* what was applied on the servers that stay up.
LEMMA StepKinds ==
  ASSUME Types, [Next]_vars
  PROVE  \/ \E s \in Servers : ApplyEntry(s)
         \/ \E s \in Servers : NewDistributedLog(s)
         \/ \E s \in Servers : StartFails(s)
         \/ Quiet
<1>1. /\ role \in [Servers -> {"follower", "leader", "stopped", "killed", "panicked", "failed"}]
      /\ applied \in [Servers -> Nat] /\ commit \in [Servers -> Nat]
  BY DEF Types
<1>2. ASSUME UNCHANGED <<userLog, acked, reopened, forgot, applied>>, Up' = Up,
             \A t \in Servers \ Up : commit'[t] = commit[t]
      PROVE  Quiet
  BY <1>2 DEF Quiet, Up
<1>3. ASSUME NEW s \in Servers, NEW how \in {"stopped", "killed", "panicked"},
             UNCHANGED <<userLog, acked, reopened, forgot>>,
             role' = [role EXCEPT ![s] = how],
             commit' = [commit EXCEPT ![s] = 0], applied' = [applied EXCEPT ![s] = 0]
      PROVE  Quiet
  <2>1. role'[s] = how /\ \A t \in Servers \ {s} : role'[t] = role[t] BY <1>1, <1>3
  <2>2. Up' \subseteq Up /\ s \notin Up'
        /\ \A t \in Servers \ {s} : t \in Up' <=> t \in Up
    BY <2>1 DEF Up
  <2>3. /\ commit'[s] = 0 /\ applied'[s] = 0
        /\ \A t \in Servers \ {s} : commit'[t] = commit[t] /\ applied'[t] = applied[t]
    BY <1>1, <1>3
  <2>4. Up' \subseteq Servers BY DEF Up
  <2> QED BY <1>3, <2>2, <2>3, <2>4 DEF Quiet
<1>4. ASSUME NEW s \in Servers, NEW Q \in Quorums, Elect(s, Q) PROVE Quiet
  <2>1. UNCHANGED <<userLog, acked, reopened, forgot, applied, commit>>
        /\ Q \subseteq Up /\ s \in Q
        /\ role' = [q \in Servers |-> CASE q = s -> "leader"
                                        [] q \in Q \ {s} -> "follower"
                                        [] OTHER -> role[q]]
    BY <1>4 DEF Elect, lifeVars
  <2>2. Up' = Up BY <2>1 DEF Up
  <2> QED BY <1>2, <2>1, <2>2
<1>5. ASSUME NEW s \in Servers, Produce(s) \/ TakeSnapshot(s) PROVE Quiet
  BY <1>2, <1>5 DEF Produce, TakeSnapshot, lifeVars, Up
<1>6. ASSUME NEW l \in Servers, NEW f \in Servers,
             NEW n \in 0..(LastIndex(l) - Common(l, f)), AppendEntries(l, f, n)
      PROVE  Quiet
  <2>1. UNCHANGED <<userLog, acked, reopened, forgot, applied>> /\ f \in Up
        /\ role' = [role EXCEPT ![f] = "follower"]
    BY <1>6 DEF AppendEntries, FollowerOf, lifeVars
  <2>2. Up' = Up BY <1>1, <2>1 DEF Up
  <2>3. \A t \in Servers \ {f} : commit'[t] = commit[t] BY <1>1, <1>6 DEF AppendEntries
  <2> QED BY <1>2, <2>1, <2>2, <2>3
<1>7. ASSUME NEW l \in Servers, NEW f \in Servers, OverwriteConflict(l, f) PROVE Quiet
  BY <1>3, <1>7, OverwritePanics
<1>8. ASSUME NEW l \in Servers, NEW n \in 1..LastIndex(l), AdvanceCommit(l, n) PROVE Quiet
  <2>1. UNCHANGED <<role, userLog, acked, reopened, forgot, applied>>
        /\ role[l] = "leader" /\ commit' = [commit EXCEPT ![l] = n]
    BY <1>8 DEF AdvanceCommit, lifeVars
  <2>2. Up' = Up /\ l \in Up BY <2>1 DEF Up
  <2> QED BY <1>1, <1>2, <2>1, <2>2
<1>9. ASSUME NEW s \in Servers, Close(s) \/ Kill(s) PROVE Quiet
  BY <1>3, <1>9 DEF Close, Kill, Stop
<1>10. ASSUME UNCHANGED vars PROVE Quiet
  BY <1>2, <1>10 DEF vars, Up
<1> QED BY <1>4, <1>5, <1>6, <1>7, <1>8, <1>9, <1>10 DEF Next

(***************************************************************************)
(* What the servers show                                                   *)
(***************************************************************************)

\* fsm.Apply adds to the user log what the entry adds to the requests.
LEMMA ApplyEffect ==
  ASSUME LogInv, CommitSafe, NEW s \in Servers, ApplyEntry(s)
  PROVE  \E n \in 1..LastIndex(s) :
           /\ n = applied[s] + 1 /\ n - 1 = applied[s] /\ n - 1 \in 0..LastIndex(s)
           /\ applied' = [applied EXCEPT ![s] = n]
           /\ Safe(s, n) /\ Safe(s, n - 1)
           /\ \A t \in Servers \ {s} : userLog'[t] = userLog[t] /\ applied'[t] = applied[t]
           /\ \/ /\ raftLog[s][n].value = Noop
                 /\ Requests(raftLog[s], n) = Requests(raftLog[s], n - 1)
                 /\ userLog' = userLog
              \/ /\ raftLog[s][n].value # Noop
                 /\ raftLog[s][n].value \in 1..MaxProduced
                 /\ Requests(raftLog[s], n)
                      = Append(Requests(raftLog[s], n - 1), raftLog[s][n].value)
                 /\ userLog'[s] = Append(userLog[s], raftLog[s][n].value)
<1>1. Types BY DEF LogInv
<1>2. /\ applied \in [Servers -> Nat] /\ commit \in [Servers -> Nat]
      /\ userLog \in [Servers -> Seq(1..MaxProduced)]
      /\ raftLog[s] \in Seq(Entry) /\ LastIndex(s) = Len(raftLog[s]) /\ LastIndex(s) \in Nat
  BY <1>1, LogTypes DEF Types
<1>3. applied[s] + 1 \in 1..LastIndex(s)
      /\ (raftLog[s][applied[s] + 1].value # Noop
            => raftLog[s][applied[s] + 1].value \in 1..MaxProduced)
  BY ApplyEntryTypes DEF LogInv
<1>4. PICK n \in 1..LastIndex(s) : n = applied[s] + 1 BY <1>3
<1>5. n - 1 = applied[s] /\ n - 1 \in 0..LastIndex(s) BY <1>2, <1>4
<1>6. PICK c \in Nat : c = commit[s] BY <1>2
<1>7. Safe(s, c) BY <1>6 DEF CommitSafe
<1>8. n <= c /\ applied' = [applied EXCEPT ![s] = n] BY <1>4, <1>6 DEF ApplyEntry
<1>9. n \in 0..c /\ n - 1 \in 0..c BY <1>2, <1>5, <1>8
<1>10. Safe(s, n) /\ Safe(s, n - 1) BY <1>1, <1>6, <1>7, <1>9, SafeLess
<1>11. Requests(raftLog[s], n) = IF raftLog[s][n].value = Noop THEN Requests(raftLog[s], n - 1)
                                 ELSE Append(Requests(raftLog[s], n - 1), raftLog[s][n].value)
  BY <1>2, RequestsDef
<1>12. userLog' = IF raftLog[s][n].value = Noop THEN userLog
                  ELSE [userLog EXCEPT ![s] = Append(@, raftLog[s][n].value)]
  BY <1>4 DEF ApplyEntry
<1>13. \A t \in Servers \ {s} : userLog'[t] = userLog[t] /\ applied'[t] = applied[t]
  BY <1>2, <1>8, <1>12
<1>14. CASE raftLog[s][n].value = Noop
  <2>1. Requests(raftLog[s], n) = Requests(raftLog[s], n - 1) /\ userLog' = userLog
    BY <1>11, <1>12, <1>14
  <2> QED BY <1>4, <1>5, <1>8, <1>10, <1>13, <1>14, <2>1
<1>15. CASE raftLog[s][n].value # Noop
  <2>1. Requests(raftLog[s], n) = Append(Requests(raftLog[s], n - 1), raftLog[s][n].value)
    BY <1>11, <1>15
  <2>2. userLog'[s] = Append(userLog[s], raftLog[s][n].value)
    BY <1>2, <1>12, <1>15
  <2>3. raftLog[s][n].value \in 1..MaxProduced BY <1>3, <1>4, <1>15
  <2> QED BY <1>4, <1>5, <1>8, <1>10, <1>13, <1>15, <2>1, <2>2, <2>3
<1> QED BY <1>14, <1>15

\* What a start leaves alone.
LEMMA StartLeaves ==
  ASSUME Types, NEW s \in Servers, NewDistributedLog(s) \/ StartFails(s)
  PROVE  /\ reopened' = reopened \cup {s}
         /\ UNCHANGED <<acked, applied, commit>>
         /\ s \notin Up
         /\ \A t \in Servers \ {s} : /\ userLog'[t] = userLog[t]
                                     /\ t \in Up' <=> t \in Up
<1>1. /\ role \in [Servers -> {"follower", "leader", "stopped", "killed", "panicked", "failed"}]
      /\ userLog \in [Servers -> Seq(1..MaxProduced)]
  BY DEF Types
<1>2. /\ reopened' = reopened \cup {s} /\ UNCHANGED <<acked, applied, commit>>
      /\ \/ role' = [role EXCEPT ![s] = "follower"]
         \/ role' = [role EXCEPT ![s] = "failed"]
      /\ role[s] \in {"stopped", "killed", "panicked"}
  BY DEF NewDistributedLog, StartFails, EntriesFound
<1>3. \A t \in Servers \ {s} : role'[t] = role[t] BY <1>1, <1>2
<1>4. \A t \in Servers \ {s} : userLog'[t] = userLog[t]
  <2>1. CASE NewDistributedLog(s)
    <3>1. PICK k : userLog' = [userLog EXCEPT ![s] = SubSeq(@, 1, k)]
      BY <2>1 DEF NewDistributedLog
    <3> QED BY <1>1, <3>1
  <2>2. CASE StartFails(s) BY <1>1, <2>2 DEF StartFails
  <2> QED BY <2>1, <2>2
<1> QED BY <1>2, <1>3, <1>4 DEF Up

\* Only a start cuts a log: those in their first life keep theirs.
LEMMA FirstLifeGrows ==
  ASSUME LogsKept, NEW s \in Servers \ reopened'
  PROVE  Grows(s)
BY DEF LogsKept, NewDistributedLog

\* Lengths of logs before and after a step.
LEMMA BothLengths ==
  ASSUME Types, Types'
  PROVE  \A s \in Servers : LastIndex(s) \in Nat /\ LastIndex(s)' \in Nat
<1>1. raftLog \in [Servers -> Seq(Entry)] /\ raftLog' \in [Servers -> Seq(Entry)] BY DEF Types
<1> QED BY <1>1 DEF LastIndex

\* A server that was not started again shows what raft has applied there.
LEMMA NextKeepsFirstLivesSafe ==
  ASSUME LogInv, LogInv', LogsKept, CommitSafe, FirstLivesSafe, [Next]_vars
  PROVE  FirstLivesSafe'
<1>1. Types /\ Types' BY DEF LogInv
<1>2. applied \in [Servers -> Nat]
      /\ \A s \in Servers : LastIndex(s) \in Nat /\ LastIndex(s)' \in Nat
  BY <1>1, BothLengths DEF Types
<1>3. ASSUME NEW s \in Servers \ reopened', s \notin reopened, userLog'[s] = userLog[s],
             s \in Up' => s \in Up /\ applied'[s] = applied[s]
      PROVE  \E a \in 0..LastIndex(s)' :
               /\ Safe(s, a)'
               /\ userLog'[s] = Requests(raftLog'[s], a)
               /\ s \in Up' => a = applied'[s]
  <2>1. PICK a \in 0..LastIndex(s) : /\ Safe(s, a)
                                     /\ userLog[s] = Requests(raftLog[s], a)
                                     /\ s \in Up => a = applied[s]
    BY <1>3 DEF FirstLivesSafe
  <2>2. Grows(s) BY FirstLifeGrows
  <2>3. Safe(s, a)' BY <1>1, <2>1, <2>2, SafeStays
  <2>4. Requests(raftLog'[s], a) = Requests(raftLog[s], a) BY <1>1, <2>2, RequestsStay
  <2>5. a \in 0..LastIndex(s)' BY <1>2, <2>2 DEF Grows
  <2> QED BY <1>3, <2>1, <2>3, <2>4, <2>5
<1>4. ASSUME NEW s \in Servers, ApplyEntry(s) PROVE FirstLivesSafe'
  <2> SUFFICES ASSUME NEW t \in Servers \ reopened'
               PROVE  \E a \in 0..LastIndex(t)' :
                        /\ Safe(t, a)'
                        /\ userLog'[t] = Requests(raftLog'[t], a)
                        /\ t \in Up' => a = applied'[t]
    BY DEF FirstLivesSafe
  <2>1. /\ raftLog' = raftLog /\ role' = role /\ reopened' = reopened /\ s \in Up
    BY <1>4 DEF ApplyEntry, lifeVars
  <2>2. PICK n \in 1..LastIndex(s) :
          /\ n = applied[s] + 1 /\ n - 1 = applied[s]
          /\ applied' = [applied EXCEPT ![s] = n]
          /\ Safe(s, n)
          /\ \A u \in Servers \ {s} : userLog'[u] = userLog[u] /\ applied'[u] = applied[u]
          /\ \/ /\ Requests(raftLog[s], n) = Requests(raftLog[s], n - 1)
                /\ userLog' = userLog
             \/ /\ Requests(raftLog[s], n)
                     = Append(Requests(raftLog[s], n - 1), raftLog[s][n].value)
                /\ userLog'[s] = Append(userLog[s], raftLog[s][n].value)
    BY <1>4, ApplyEffect
  <2>3. CASE t = s
    <3>1. PICK a \in 0..LastIndex(s) : a = applied[s] /\ userLog[s] = Requests(raftLog[s], a)
      BY <2>1, <2>3 DEF FirstLivesSafe
    <3>2. userLog'[s] = Requests(raftLog'[s], n)
      BY <2>1, <2>2, <3>1
    <3>3. Grows(s) BY <2>3, FirstLifeGrows
    <3>4. Safe(s, n)' BY <1>1, <2>2, <3>3, SafeStays
    <3>5. n \in 0..LastIndex(s)' /\ applied'[s] = n BY <1>2, <2>2, <3>3 DEF Grows
    <3> QED BY <2>3, <3>2, <3>4, <3>5
  <2>4. CASE t # s
    <3>1. t \in Up' => t \in Up /\ applied'[t] = applied[t] BY <2>1, <2>2, <2>4 DEF Up
    <3> QED BY <1>3, <2>1, <2>2, <2>4, <3>1
  <2> QED BY <2>3, <2>4
<1>5. ASSUME NEW s \in Servers, NewDistributedLog(s) \/ StartFails(s) PROVE FirstLivesSafe'
  <2> SUFFICES ASSUME NEW t \in Servers \ reopened'
               PROVE  \E a \in 0..LastIndex(t)' :
                        /\ Safe(t, a)'
                        /\ userLog'[t] = Requests(raftLog'[t], a)
                        /\ t \in Up' => a = applied'[t]
    BY DEF FirstLivesSafe
  <2>1. /\ reopened' = reopened \cup {s} /\ applied' = applied
        /\ \A u \in Servers \ {s} : userLog'[u] = userLog[u] /\ (u \in Up' <=> u \in Up)
    BY <1>1, <1>5, StartLeaves
  <2> QED BY <1>3, <2>1
<1>6. ASSUME Quiet PROVE FirstLivesSafe'
  <2>1. /\ userLog' = userLog /\ reopened' = reopened
        /\ \A t \in Servers : t \in Up' => t \in Up /\ applied'[t] = applied[t]
    BY <1>6 DEF Quiet
  <2> QED BY <1>3, <2>1 DEF FirstLivesSafe
<1> QED BY <1>1, <1>4, <1>5, <1>6, StepKinds

\* While majorities remember, what Append has answered is in the requests of a safe
\* part of a log: of the same one or, if that forgot it, of one that did not.
LEMMA NextKeepsAckedSafe ==
  ASSUME LogInv, LogInv', LogsKept, CommitSafe, FirstLivesSafe, AckedSafe, [Next]_vars
  PROVE  AckedSafe'
<1>1. Types /\ Types' BY DEF LogInv
<1>2. \A s \in Servers : LastIndex(s) \in Nat /\ LastIndex(s)' \in Nat
  BY <1>1, BothLengths
<1> SUFFICES ASSUME MajoritiesRemember' PROVE AckedSafe' BY DEF AckedSafe
<1>3. MajoritiesRemember BY DEF MajoritiesRemember, LogsKept
<1> DEFINE Shown(r) == \E t \in Servers : \E a \in 0..LastIndex(t)' :
               /\ Safe(t, a)'
               /\ r.offset + 1 \in 1..Len(Requests(raftLog'[t], a))
               /\ Requests(raftLog'[t], a)[r.offset + 1] = r.value
<1>4. ASSUME NEW s \in Servers, NEW a \in 0..LastIndex(s), Safe(s, a), Grows(s),
             NEW r, r.offset + 1 \in 1..Len(Requests(raftLog[s], a)),
             Requests(raftLog[s], a)[r.offset + 1] = r.value
      PROVE  Shown(r)
  <2>1. Safe(s, a)' BY <1>1, <1>4, SafeStays
  <2>2. Requests(raftLog'[s], a) = Requests(raftLog[s], a) BY <1>1, <1>4, RequestsStay
  <2>3. a \in 0..LastIndex(s)' BY <1>2, <1>4 DEF Grows
  <2> QED BY <1>4, <2>1, <2>2, <2>3
<1>5. ASSUME NEW r \in acked PROVE Shown(r)
  <2>1. PICK s \in Servers : \E a \in 0..LastIndex(s) :
               /\ Safe(s, a)
               /\ r.offset + 1 \in 1..Len(Requests(raftLog[s], a))
               /\ Requests(raftLog[s], a)[r.offset + 1] = r.value
    BY <1>3 DEF AckedSafe
  <2>2. PICK a \in 0..LastIndex(s) :
               /\ Safe(s, a)
               /\ r.offset + 1 \in 1..Len(Requests(raftLog[s], a))
               /\ Requests(raftLog[s], a)[r.offset + 1] = r.value
    BY <2>1
  <2>3. CASE Grows(s)
    <3> HIDE DEF Shown
    <3> QED BY <1>4, <2>2, <2>3
  <2>4. CASE ~ Grows(s)
    <3>1. forgot' # {} BY <2>4 DEF LogsKept
    <3>2. PICK Q \in Quorums : \A q \in Q \ forgot : Holds(q, s, a) BY <2>2 DEF Safe
    <3>3. PICK q \in Q : q \notin forgot' BY <3>1 DEF MajoritiesRemember
    <3>4. q \in Servers /\ q \notin forgot /\ Grows(q)
      BY <3>3 DEF Quorums, LogsKept
    <3>5. Holds(q, s, a) BY <3>2, <3>3, <3>4
    <3>6. Safe(q, a)
      <4>1. a \in 0..LastIndex(q) BY <3>4, <3>5, <1>2 DEF Holds
      <4>2. \A p \in Q \ forgot : Holds(p, q, a) BY <3>2, <3>5 DEF Holds
      <4> QED BY <4>1, <4>2 DEF Safe
    <3>7. /\ raftLog[s] \in Seq(Entry) /\ raftLog[q] \in Seq(Entry)
          /\ a \in Nat /\ a <= Len(raftLog[s]) /\ a <= Len(raftLog[q])
          /\ \A k \in 1..a : raftLog[q][k] = raftLog[s][k]
      BY <1>1, <1>2, <3>4, <3>5 DEF Types, Holds, LastIndex
    <3>8. Requests(raftLog[q], a) = Requests(raftLog[s], a) BY <3>7, RequestsOfSame
    <3>9. a \in 0..LastIndex(q) BY <3>7 DEF LastIndex
    <3> HIDE DEF Shown
    <3> QED BY <1>4, <2>2, <3>4, <3>6, <3>8, <3>9
  <2> QED BY <2>3, <2>4
<1>6. ASSUME NEW s \in Servers, ApplyEntry(s), NEW r \in acked', r \notin acked
      PROVE  Shown(r)
  <2>1. PICK x \in futures : /\ x.server = s /\ x.index = applied[s] + 1
                             /\ s \notin reopened
                             /\ r = [offset |-> Len(userLog[s]),
                                     value |-> raftLog[s][applied[s] + 1].value]
    BY <1>6 DEF ApplyEntry
  <2>2. raftLog' = raftLog /\ s \in Up BY <1>6 DEF ApplyEntry
  <2>3. PICK n \in 1..LastIndex(s) :
          /\ n = applied[s] + 1 /\ n - 1 = applied[s] /\ n - 1 \in 0..LastIndex(s)
          /\ Safe(s, n)
          /\ raftLog[s][n].value # Noop =>
               /\ raftLog[s][n].value \in 1..MaxProduced
               /\ Requests(raftLog[s], n)
                    = Append(Requests(raftLog[s], n - 1), raftLog[s][n].value)
    BY <1>6, ApplyEffect
  <2>4. raftLog[s][n].value # Noop BY <2>1, <2>3 DEF LogInv, FuturesOnLeaders
  <2>5. userLog[s] = Requests(raftLog[s], n - 1) BY <2>1, <2>2, <2>3 DEF FirstLivesSafe
  <2>6. Requests(raftLog[s], n) = Append(userLog[s], raftLog[s][n].value)
    BY <2>3, <2>4, <2>5
  <2>7. userLog[s] \in Seq(1..MaxProduced) /\ raftLog[s][n].value \in 1..MaxProduced
    BY <1>1, <2>3, <2>4 DEF Types
  <2>8. r.offset = Len(userLog[s]) /\ r.value = raftLog[s][n].value BY <2>1, <2>3
  <2> DEFINE v == raftLog[s][n].value
             u == userLog[s]
  <2>9. r.offset + 1 \in 1..Len(Append(u, v)) /\ Append(u, v)[r.offset + 1] = r.value
    <3>1. u \in Seq(1..MaxProduced) /\ v \in 1..MaxProduced /\ r.offset = Len(u) /\ r.value = v
      BY <2>7, <2>8
    <3> HIDE DEF u, v
    <3> QED BY <3>1
  <2>10. Grows(s) /\ n \in 0..LastIndex(s) BY <1>1, <2>2, UpGrows
  <2> HIDE DEF Shown
  <2> QED BY <1>4, <2>3, <2>6, <2>9, <2>10
<1>7. ASSUME NEW s \in Servers, ApplyEntry(s) PROVE AckedSafe'
  BY <1>5, <1>6, <1>7 DEF AckedSafe
<1>8. ASSUME acked' = acked PROVE AckedSafe'
  BY <1>5, <1>8 DEF AckedSafe
<1>9. ASSUME NEW s \in Servers, NewDistributedLog(s) \/ StartFails(s) PROVE AckedSafe'
  BY <1>1, <1>8, <1>9, StartLeaves
<1>10. ASSUME Quiet PROVE AckedSafe'
  BY <1>8, <1>10 DEF Quiet
<1> QED BY <1>1, <1>7, <1>9, <1>10, StepKinds

\* A process that ends takes with it what raft knew to be committed and applied.
LEMMA NextKeepsDownForgets ==
  ASSUME LogInv, CommitSafe, DownForgets, [Next]_vars
  PROVE  DownForgets'
<1>1. Types BY DEF LogInv
<1>2. ASSUME NEW s \in Servers, ApplyEntry(s) PROVE DownForgets'
  <2>1. s \in Up /\ role' = role /\ commit' = commit
        /\ \A t \in Servers \ {s} : applied'[t] = applied[t]
    BY <1>2, ApplyEffect DEF ApplyEntry
  <2> QED BY <2>1 DEF DownForgets, Up
<1>3. ASSUME NEW s \in Servers, NewDistributedLog(s) \/ StartFails(s) PROVE DownForgets'
  <2>1. /\ applied' = applied /\ commit' = commit /\ s \notin Up
        /\ \A t \in Servers \ {s} : t \in Up' <=> t \in Up
    BY <1>1, <1>3, StartLeaves
  <2>2. \A t \in Servers : t \notin Up' => t \notin Up BY <2>1
  <2> QED BY <2>1, <2>2 DEF DownForgets
<1>4. ASSUME Quiet PROVE DownForgets'
  BY <1>4 DEF Quiet, DownForgets
<1> QED BY <1>1, <1>2, <1>3, <1>4, StepKinds

(***************************************************************************)
(* Compaction                                                              *)
(***************************************************************************)

\* A step takes a snapshot, or finds a conflict, or starts a server again, or leaves
\* what is stored beside the log, and then no server comes back from a panic.
LEMMA StoreKinds ==
  ASSUME LogInv, [Next]_vars
  PROVE  \/ \E s \in Servers : TakeSnapshot(s)
         \/ \E l, f \in Servers : OverwriteConflict(l, f)
         \/ \E s \in Servers : NewDistributedLog(s)
         \/ /\ first' = first /\ snapshot' = snapshot
            /\ \A t \in Servers :
                 role[t] \in {"panicked", "failed"} => role'[t] \in {"panicked", "failed"}
<1>1. Types
      /\ role \in [Servers -> {"follower", "leader", "stopped", "killed", "panicked", "failed"}]
  BY DEF LogInv, Types
<1> DEFINE Kept == /\ first' = first /\ snapshot' = snapshot
                   /\ \A t \in Servers :
                        role[t] \in {"panicked", "failed"} => role'[t] \in {"panicked", "failed"}
<1>2. ASSUME NEW s \in Servers, NEW Q \in Quorums, Elect(s, Q) PROVE Kept
  <2>1. UNCHANGED <<first, snapshot>> /\ Q \subseteq Up /\ s \in Q
        /\ role' = [q \in Servers |-> CASE q = s -> "leader"
                                        [] q \in Q \ {s} -> "follower"
                                        [] OTHER -> role[q]]
    BY <1>2 DEF Elect, storeVars
  <2>2. ASSUME NEW t \in Servers, role[t] \in {"panicked", "failed"} PROVE role'[t] = role[t]
    <3>1. t \notin Q BY <2>1, <2>2 DEF Up
    <3> QED BY <2>1, <3>1
  <2> QED BY <2>1, <2>2
<1>3. ASSUME role' = role, UNCHANGED storeVars PROVE Kept
  BY <1>3 DEF storeVars
<1>4. ASSUME NEW s \in Up, NEW how, role' = [role EXCEPT ![s] = how], UNCHANGED storeVars
      PROVE  Kept
  BY <1>1, <1>4 DEF Up, storeVars
<1>5. ASSUME NEW l \in Servers, NEW f \in Servers,
             NEW n \in 0..(LastIndex(l) - Common(l, f)), AppendEntries(l, f, n)
      PROVE  Kept
  <2>1. UNCHANGED storeVars /\ f \in Up /\ role' = [role EXCEPT ![f] = "follower"]
    BY <1>5 DEF AppendEntries, FollowerOf
  <2> QED BY <1>4, <2>1
<1>6. ASSUME NEW s \in Servers, Close(s) \/ Kill(s) PROVE Kept
  <2>1. PICK how : Stop(s, how) BY <1>6 DEF Close, Kill
  <2>2. UNCHANGED storeVars /\ s \in Up /\ role' = [role EXCEPT ![s] = how]
    BY <2>1 DEF Stop
  <2> QED BY <1>4, <2>2
<1>7. ASSUME NEW s \in Servers, StartFails(s) PROVE Kept
  BY <1>1, <1>7 DEF StartFails, storeVars
<1>8. ASSUME NEW s \in Servers, Produce(s) \/ ApplyEntry(s) PROVE Kept
  BY <1>3, <1>8 DEF Produce, ApplyEntry
<1>9. ASSUME NEW l \in Servers, NEW n \in 1..LastIndex(l), AdvanceCommit(l, n) PROVE Kept
  BY <1>3, <1>9 DEF AdvanceCommit
<1>10. CASE UNCHANGED vars
  <2>1. Kept BY <1>3, <1>10 DEF vars, storeVars
  <2> QED BY <2>1
<1> HIDE DEF Kept
<1>11. \/ \E s \in Servers : TakeSnapshot(s)
       \/ \E l, f \in Servers : OverwriteConflict(l, f)
       \/ \E s \in Servers : NewDistributedLog(s)
       \/ Kept
  BY <1>2, <1>5, <1>6, <1>7, <1>8, <1>9, <1>10 DEF Next, Kept
<1> QED BY <1>11 DEF Kept

\* Without the start of a server all logs grow.
LEMMA NoStartGrows ==
  ASSUME LogsKept, ~ \E s \in Servers : NewDistributedLog(s)
  PROVE  \A s \in Servers : Grows(s)
BY DEF LogsKept

\* Only a snapshot moves what is deleted, and a conflict, after which the server
\* is down.
LEMMA NextKeepsCompactionBounds ==
  ASSUME LogInv, LogInv', LogsKept, CommitSafe, CompactionBounds, [Next]_vars
  PROVE  CompactionBounds'
<1>1. Types /\ Types' BY DEF LogInv
<1>2. \A t \in Servers : LastIndex(t) \in Nat /\ LastIndex(t)' \in Nat
  BY <1>1, BothLengths
<1>3. /\ first \in [Servers -> Nat \ {0}]
      /\ snapshot \in [Servers -> [index : Nat, records : Seq(1..MaxProduced)]]
      /\ role \in [Servers -> {"follower", "leader", "stopped", "killed", "panicked", "failed"}]
      /\ Trailing \in Nat
  BY <1>1, SizesAssumption DEF Types
<1> DEFINE Bounds(t) ==
       (/\ snapshot[t].index <= LastIndex(t)
        /\ IF role[t] \in {"panicked", "failed"} THEN first[t] <= LastIndex(t) + 1
           ELSE /\ first[t] <= snapshot[t].index + 1
                /\ first[t] = 1 \/ first[t] + Trailing <= LastIndex(t) + 1)'
<1>4. ASSUME NEW t \in Servers, LastIndex(t) <= LastIndex(t)',
             first'[t] = first[t], snapshot'[t] = snapshot[t],
             role[t] \in {"panicked", "failed"} => role'[t] \in {"panicked", "failed"}
      PROVE  Bounds(t)
  <2>1. PICK k \in Nat : k = LastIndex(t)' BY <1>2
  <2>2. first[t] \in Nat /\ snapshot[t].index \in Nat BY <1>3
  <2>3. snapshot[t].index <= LastIndex(t)
        /\ IF role[t] \in {"panicked", "failed"} THEN first[t] <= LastIndex(t) + 1
                 ELSE /\ first[t] <= snapshot[t].index + 1
                      /\ first[t] = 1 \/ first[t] + Trailing <= LastIndex(t) + 1
    BY DEF CompactionBounds
  <2> QED BY <1>2, <1>3, <1>4, <2>1, <2>2, <2>3
<1>5. ASSUME NEW s \in Servers, TakeSnapshot(s) PROVE CompactionBounds'
  BY <1>1, <1>5, TakeSnapshotTypes
<1>6. ASSUME NEW l \in Servers, NEW f \in Servers, OverwriteConflict(l, f)
      PROVE  CompactionBounds'
  <2>1. /\ role' = [role EXCEPT ![f] = "panicked"]
        /\ first' = [first EXCEPT ![f] = LastIndex(f) + 1]
        /\ UNCHANGED <<raftLog, snapshot>>
    BY <1>1, <1>6, OverwritePanics DEF OverwriteConflict
  <2>2. \A t \in Servers : LastIndex(t)' = LastIndex(t) BY <2>1 DEF LastIndex
  <2> SUFFICES ASSUME NEW t \in Servers PROVE Bounds(t)
    BY DEF CompactionBounds
  <2>3. CASE t = f
    <3>1. role'[t] = "panicked" /\ first'[t] = LastIndex(t) + 1 BY <1>3, <2>1, <2>3
    <3>2. snapshot[t].index <= LastIndex(t) BY DEF CompactionBounds
    <3> QED BY <1>2, <2>1, <2>2, <3>1, <3>2
  <2>4. CASE t # f
    <3>1. role'[t] = role[t] /\ first'[t] = first[t] /\ snapshot'[t] = snapshot[t]
      BY <1>3, <2>1, <2>4
    <3> HIDE DEF Bounds
    <3> QED BY <1>2, <1>4, <2>2, <3>1
  <2> QED BY <2>3, <2>4
<1>7. ASSUME NEW s \in Servers, NewDistributedLog(s) PROVE CompactionBounds'
  <2>1. /\ snapshot' = snapshot /\ snapshot[s].index = 0
        /\ first' = [first EXCEPT ![s] = 1] /\ role' = [role EXCEPT ![s] = "follower"]
    BY <1>7 DEF NewDistributedLog
  <2> SUFFICES ASSUME NEW t \in Servers PROVE Bounds(t)
    BY DEF CompactionBounds
  <2>2. CASE t = s
    <3>1. first'[t] = 1 /\ role'[t] = "follower" /\ snapshot'[t].index = 0
      BY <1>3, <2>1, <2>2
    <3> QED BY <1>2, <3>1
  <2>3. CASE t # s
    <3>1. raftLog'[t] = raftLog[t] BY <1>1, <1>7, <2>3, RestartCuts
    <3>2. LastIndex(t)' = LastIndex(t) BY <3>1 DEF LastIndex
    <3>3. role'[t] = role[t] /\ first'[t] = first[t] /\ snapshot'[t] = snapshot[t]
      BY <1>3, <2>1, <2>3
    <3> HIDE DEF Bounds
    <3> QED BY <1>2, <1>4, <3>2, <3>3
  <2> QED BY <2>2, <2>3
<1>8. ASSUME first' = first, snapshot' = snapshot, \A t \in Servers : Grows(t),
             \A t \in Servers :
               role[t] \in {"panicked", "failed"} => role'[t] \in {"panicked", "failed"}
      PROVE  CompactionBounds'
  BY <1>4, <1>8 DEF CompactionBounds, Grows
<1> HIDE DEF Bounds
<1> QED BY <1>5, <1>6, <1>7, <1>8, StoreKinds, NoStartGrows

(***************************************************************************)
(* Logs that end with what was applied                                     *)
(***************************************************************************)

\* A sequence over a set is one over a larger set.
LEMMA SeqWider ==
  ASSUME NEW A, NEW B, A \subseteq B, NEW u \in Seq(A)
  PROVE  u \in Seq(B)
<1>1. PICK n \in Nat : u \in [1..n -> A] BY SeqDef
<1>2. u \in [1..n -> B] BY <1>1
<1> QED BY <1>2, SeqDef

\* Two sequences that get the same element.
LEMMA EndsAppend ==
  ASSUME NEW s \in Seq(Nat), NEW t \in Seq(Nat), NEW v \in Nat, Ends(s, t)
  PROVE  Ends(Append(s, v), Append(t, v))
<1>1. /\ Len(Append(s, v)) = Len(s) + 1 /\ Len(Append(t, v)) = Len(t) + 1
      /\ Append(s, v)[Len(s) + 1] = v /\ Append(t, v)[Len(t) + 1] = v
      /\ \A i \in 1..Len(s) : Append(s, v)[i] = s[i]
      /\ \A i \in 1..Len(t) : Append(t, v)[i] = t[i]
  BY AppendProperties
<1>2. Len(s) \in Nat /\ Len(t) \in Nat /\ Len(s) <= Len(t) BY DEF Ends
<1>3. ASSUME NEW i \in 1..(Len(s) + 1)
      PROVE  Append(s, v)[i] = Append(t, v)[i + ((Len(t) + 1) - (Len(s) + 1))]
  <2>1. i + ((Len(t) + 1) - (Len(s) + 1)) = i + (Len(t) - Len(s)) BY <1>2
  <2>2. CASE i = Len(s) + 1
    <3>1. i + (Len(t) - Len(s)) = Len(t) + 1 BY <1>2, <2>2
    <3> QED BY <1>1, <2>1, <2>2, <3>1
  <2>3. CASE i # Len(s) + 1
    <3>1. i \in 1..Len(s) /\ i + (Len(t) - Len(s)) \in 1..Len(t) BY <1>2, <2>3
    <3>2. s[i] = t[i + (Len(t) - Len(s))] BY <3>1 DEF Ends
    <3> QED BY <1>1, <2>1, <3>1, <3>2
  <2> QED BY <2>2, <2>3
<1> DEFINE a == Append(s, v)
           b == Append(t, v)
<1>4. /\ Len(a) = Len(s) + 1 /\ Len(b) = Len(t) + 1
      /\ \A i \in 1..(Len(s) + 1) : a[i] = b[i + ((Len(t) + 1) - (Len(s) + 1))]
  BY <1>1, <1>3
<1> HIDE DEF a, b
<1>5. Ends(a, b) BY <1>2, <1>4 DEF Ends
<1> QED BY <1>5 DEF a, b

\* Every sequence ends with the empty one.
LEMMA EndsEmpty ==
  ASSUME NEW S, NEW t \in Seq(S)
  PROVE  Ends(<<>>, t)
BY DEF Ends

\* Replayed or not, what raft applies comes behind what the user log has.
LEMMA NextKeepsAppliedEnds ==
  ASSUME LogInv, LogInv', LogsKept, CommitSafe, DownForgets, AppliedEnds, [Next]_vars
  PROVE  AppliedEnds'
<1>1. Types /\ Types' BY DEF LogInv
<1>2. /\ role \in [Servers -> {"follower", "leader", "stopped", "killed", "panicked", "failed"}]
      /\ userLog \in [Servers -> Seq(1..MaxProduced)]
      /\ userLog' \in [Servers -> Seq(1..MaxProduced)]
      /\ raftLog \in [Servers -> Seq(Entry)]
      /\ raftLog' \in [Servers -> Seq(Entry)]
      /\ 1..MaxProduced \subseteq Nat
  BY <1>1, BoundsAssumption DEF Types
<1>3. \A t \in Servers : userLog[t] \in Seq(Nat)
  <2> SUFFICES ASSUME NEW t \in Servers PROVE userLog[t] \in Seq(Nat) OBVIOUS
  <2>1. userLog[t] \in Seq(1..MaxProduced) BY <1>2
  <2> QED BY <1>2, <2>1, SeqWider
<1>4. ASSUME NEW t \in Servers, t \in Up, applied'[t] = applied[t], userLog'[t] = userLog[t]
      PROVE  Ends(Requests(raftLog'[t], applied'[t]), userLog'[t])
  <2>1. applied[t] \in 0..LastIndex(t) BY <1>1, AppliedBound
  <2>2. Requests(raftLog'[t], applied[t]) = Requests(raftLog[t], applied[t])
    <3>1. PICK a \in 0..LastIndex(t) : a = applied[t] BY <2>1
    <3>2. Grows(t) BY <1>1, <1>4, UpGrows
    <3>3. Requests(raftLog'[t], a) = Requests(raftLog[t], a) BY <1>1, <3>2, RequestsStay
    <3> QED BY <3>1, <3>3
  <2>3. Ends(Requests(raftLog[t], applied[t]), userLog[t]) BY <1>4 DEF AppliedEnds
  <2> QED BY <1>4, <2>2, <2>3
<1>5. ASSUME NEW s \in Servers, ApplyEntry(s) PROVE AppliedEnds'
  <2> SUFFICES ASSUME NEW t \in Up'
               PROVE  Ends(Requests(raftLog'[t], applied'[t]), userLog'[t])
    BY DEF AppliedEnds
  <2>1. raftLog' = raftLog /\ role' = role /\ s \in Up /\ t \in Up /\ t \in Servers
    BY <1>5 DEF ApplyEntry, Up
  <2>2. PICK n \in 1..LastIndex(s) :
          /\ n - 1 = applied[s] /\ n - 1 \in 0..LastIndex(s)
          /\ applied' = [applied EXCEPT ![s] = n]
          /\ \A u \in Servers \ {s} : userLog'[u] = userLog[u] /\ applied'[u] = applied[u]
          /\ \/ /\ Requests(raftLog[s], n) = Requests(raftLog[s], n - 1)
                /\ userLog' = userLog
             \/ /\ raftLog[s][n].value \in 1..MaxProduced
                /\ Requests(raftLog[s], n)
                     = Append(Requests(raftLog[s], n - 1), raftLog[s][n].value)
                /\ userLog'[s] = Append(userLog[s], raftLog[s][n].value)
    BY <1>5, ApplyEffect
  <2>3. CASE t # s BY <1>4, <2>1, <2>2, <2>3
  <2>4. CASE t = s
    <3>1. Ends(Requests(raftLog[s], n - 1), userLog[s]) BY <2>1, <2>2 DEF AppliedEnds
    <3>2. applied'[s] = n
      <4>1. applied \in [Servers -> Nat] BY <1>1 DEF Types
      <4> QED BY <2>2, <4>1
    <3>3. Requests(raftLog[s], n - 1) \in Seq(Nat)
      <4>1. raftLog[s] \in Seq(Entry) /\ n - 1 \in 0..Len(raftLog[s])
        BY <1>2, <2>2 DEF LastIndex
      <4> QED BY <4>1, RequestsDef
    <3>4. Ends(Requests(raftLog[s], n), userLog'[s])
      <4>1. CASE userLog' = userLog /\ Requests(raftLog[s], n) = Requests(raftLog[s], n - 1)
        BY <3>1, <4>1
      <4>2. CASE /\ raftLog[s][n].value \in 1..MaxProduced
                 /\ Requests(raftLog[s], n)
                      = Append(Requests(raftLog[s], n - 1), raftLog[s][n].value)
                 /\ userLog'[s] = Append(userLog[s], raftLog[s][n].value)
        <5>1. raftLog[s][n].value \in Nat BY <4>2
        <5>2. Ends(Append(Requests(raftLog[s], n - 1), raftLog[s][n].value),
                   Append(userLog[s], raftLog[s][n].value))
          BY <1>3, <3>1, <3>3, <5>1, EndsAppend
        <5> QED BY <4>2, <5>2
      <4> QED BY <2>2, <4>1, <4>2
    <3> QED BY <2>1, <2>4, <3>2, <3>4
  <2> QED BY <2>3, <2>4
<1>6. ASSUME NEW s \in Servers, NewDistributedLog(s) \/ StartFails(s) PROVE AppliedEnds'
  <2> SUFFICES ASSUME NEW t \in Up'
               PROVE  Ends(Requests(raftLog'[t], applied'[t]), userLog'[t])
    BY DEF AppliedEnds
  <2>1. /\ applied' = applied /\ s \notin Up /\ t \in Servers
        /\ \A u \in Servers \ {s} : userLog'[u] = userLog[u] /\ (u \in Up' <=> u \in Up)
    BY <1>1, <1>6, StartLeaves DEF Up
  <2>2. CASE t = s
    <3>1. applied'[t] = 0 BY <2>1, <2>2 DEF DownForgets
    <3>2. raftLog'[t] \in Seq(Entry) /\ userLog'[t] \in Seq(1..MaxProduced) BY <1>2, <2>1
    <3>3. Requests(raftLog'[t], 0) = <<>> BY <3>2, RequestsDef
    <3> QED BY <3>1, <3>2, <3>3, EndsEmpty
  <2>3. CASE t # s
    <3>1. t \in Up /\ userLog'[t] = userLog[t] /\ applied'[t] = applied[t]
      BY <2>1, <2>3
    <3> QED BY <1>4, <2>1, <3>1
  <2> QED BY <2>2, <2>3
<1>7. ASSUME Quiet PROVE AppliedEnds'
  <2> SUFFICES ASSUME NEW t \in Up'
               PROVE  Ends(Requests(raftLog'[t], applied'[t]), userLog'[t])
    BY DEF AppliedEnds
  <2>1. t \in Servers BY DEF Up
  <2>2. t \in Up /\ applied'[t] = applied[t] /\ userLog'[t] = userLog[t]
    BY <1>7 DEF Quiet
  <2> QED BY <1>4, <2>1, <2>2
<1> QED BY <1>1, <1>5, <1>6, <1>7, StepKinds

\* A snapshot has the requests up to its index: behind that nothing came to the FSM.
LEMMA NextKeepsSnapshotEnds ==
  ASSUME LogInv, LogInv', LogsKept, CommitSafe, CompactionBounds, AppliedEnds,
         SnapshotEnds, [Next]_vars
  PROVE  SnapshotEnds'
<1>1. Types /\ Types' BY DEF LogInv
<1>2. snapshot \in [Servers -> [index : Nat, records : Seq(1..MaxProduced)]]
  BY <1>1 DEF Types
<1>3. ASSUME NEW t \in Servers, snapshot'[t] = snapshot[t]
      PROVE  Ends(Requests(raftLog'[t], snapshot'[t].index), snapshot'[t].records)
  <2>1. snapshot[t].index \in Nat /\ LastIndex(t) \in Nat BY <1>1, <1>2, LogTypes
  <2>2. PICK n \in 0..LastIndex(t) : n = snapshot[t].index BY <2>1 DEF CompactionBounds
  <2>3. CASE Grows(t)
    <3>1. Requests(raftLog'[t], n) = Requests(raftLog[t], n) BY <1>1, <2>3, RequestsStay
    <3> QED BY <1>3, <2>2, <3>1 DEF SnapshotEnds
  <2>4. CASE NewDistributedLog(t)
    <3>1. snapshot'[t].index = 0 BY <1>3, <2>4 DEF NewDistributedLog
    <3>2. raftLog'[t] \in Seq(Entry) BY <1>1 DEF Types
    <3>3. Requests(raftLog'[t], 0) = <<>> BY <3>2, RequestsDef
    <3>4. snapshot'[t].records \in Seq(1..MaxProduced) BY <1>2, <1>3
    <3> QED BY <3>1, <3>3, <3>4, EndsEmpty
  <2> QED BY <2>3, <2>4 DEF LogsKept
<1>4. ASSUME NEW s \in Servers, TakeSnapshot(s) PROVE SnapshotEnds'
  <2> SUFFICES ASSUME NEW t \in Servers
               PROVE  Ends(Requests(raftLog'[t], snapshot'[t].index), snapshot'[t].records)
    BY DEF SnapshotEnds
  <2>1. /\ snapshot' = [snapshot EXCEPT ![s] = [index |-> LastRequest(s),
                                                records |-> userLog[s]]]
        /\ raftLog' = raftLog /\ s \in Up
    BY <1>4 DEF TakeSnapshot
  <2>2. CASE t # s BY <1>2, <1>3, <2>1, <2>2
  <2>3. CASE t = s
    <3>1. snapshot'[t].index = LastRequest(s) /\ snapshot'[t].records = userLog[s]
      BY <1>2, <2>1, <2>3
    <3>2. applied[s] \in 0..LastIndex(s) /\ applied[s] \in Nat /\ LastIndex(s) \in Nat
      BY <1>1, AppliedBound, LogTypes DEF Types
    <3>3. /\ LastRequest(s) \in 0..applied[s]
          /\ \A k \in (LastRequest(s) + 1)..applied[s] : raftLog[s][k].value = Noop
      BY <1>1, <3>2, LastRequestIs
    <3>4. PICK m \in Nat, n \in Nat : m = LastRequest(s) /\ n = applied[s]
      BY <3>2, <3>3
    <3>5. raftLog[s] \in Seq(Entry) /\ m <= n /\ n <= Len(raftLog[s])
      BY <1>1, <3>2, <3>3, <3>4, LogTypes DEF LastIndex
    <3>6. Requests(raftLog[s], m) = Requests(raftLog[s], n)
      BY <3>3, <3>4, <3>5, RequestsGrow
    <3>7. Ends(Requests(raftLog[s], n), userLog[s]) BY <2>1, <3>4 DEF AppliedEnds
    <3> QED BY <2>1, <2>3, <3>1, <3>4, <3>6, <3>7
  <2> QED BY <2>2, <2>3
<1>5. ASSUME NEW l \in Servers, NEW f \in Servers, OverwriteConflict(l, f)
      PROVE  SnapshotEnds'
  BY <1>3, <1>5 DEF SnapshotEnds, OverwriteConflict
<1>6. ASSUME snapshot' = snapshot PROVE SnapshotEnds'
  BY <1>3, <1>6 DEF SnapshotEnds
<1>7. ASSUME NEW s \in Servers, NewDistributedLog(s) PROVE SnapshotEnds'
  BY <1>6, <1>7 DEF NewDistributedLog
<1> QED BY <1>4, <1>5, <1>6, <1>7, StoreKinds

(***************************************************************************)
(* The inductive invariant holds                                           *)
(***************************************************************************)

\* The servers start empty.
LEMMA InitIInv ==
  ASSUME Init PROVE IInv
<1>1. /\ \A s \in Servers : /\ role[s] = "follower" /\ term[s] = 0 /\ raftLog[s] = <<>>
                            /\ first[s] = 1 /\ snapshot[s] = [index |-> 0, records |-> <<>>]
                            /\ commit[s] = 0 /\ applied[s] = 0 /\ userLog[s] = <<>>
                            /\ \A q \in Servers : match[s][q] = 0
      /\ futures = {} /\ produced = 0 /\ acked = {} /\ reopened = {} /\ forgot = {}
  BY DEF Init, Nothing
<1>2. \A s \in Servers : LastIndex(s) = 0 BY <1>1 DEF LastIndex
<1>3. Types
  <2>1. <<>> \in Seq(Entry) /\ <<>> \in Seq(1..MaxProduced) BY EmptySeq
  <2>2. match \in [Servers -> [Servers -> Nat]] BY DEF Init, Nothing
  <2> QED BY <2>1, <2>2, BoundsAssumption DEF Init, Types
<1>4. TermsReached
  <2> SUFFICES ASSUME NEW s \in Servers
               PROVE  \E Q \in Quorums : \A q \in Q : term[s] <= term[q]
    BY <1>2 DEF TermsReached
  <2> QED BY <1>1, ServersAreQuorum
<1>5. LogInv
  BY <1>1, <1>2, <1>3, <1>4
  DEF LogInv, OneLeader, LeaderHasTerm, LogMatching, ValuesOnce, FuturesOnLeaders
<1>6. \A s \in Servers : Safe(s, 0)
  <2> SUFFICES ASSUME NEW s \in Servers PROVE Safe(s, 0)
    OBVIOUS
  <2>1. \A q \in Servers : Holds(q, s, 0) BY <1>2 DEF Holds
  <2>2. Servers \in Quorums BY ServersAreQuorum
  <2> QED BY <1>2, <2>1, <2>2 DEF Safe
<1>7. CommitSafe BY <1>1, <1>6 DEF CommitSafe
<1>7a. MatchHolds BY <1>1, <1>2 DEF MatchHolds, Holds
<1>8. \A s \in Servers : Requests(raftLog[s], 0) = <<>>
  BY <1>3, RequestsDef DEF Types
<1>9. FirstLivesSafe BY <1>1, <1>2, <1>6, <1>8 DEF FirstLivesSafe
<1>10. AckedSafe /\ DownForgets BY <1>1 DEF AckedSafe, DownForgets
<1>11. CompactionBounds BY <1>1, <1>2 DEF CompactionBounds
<1>12. Ends(<<>>, <<>>) BY DEF Ends
<1>13. AppliedEnds /\ SnapshotEnds
  BY <1>1, <1>8, <1>12 DEF AppliedEnds, SnapshotEnds, Up
<1> QED BY <1>5, <1>7, <1>7a, <1>9, <1>10, <1>11, <1>13 DEF IInv

\* Every step keeps the invariant.
LEMMA NextKeepsIInv ==
  ASSUME IInv, [Next]_vars
  PROVE  IInv'
<1>1. /\ LogInv /\ MatchHolds /\ CommitSafe /\ FirstLivesSafe /\ AckedSafe /\ DownForgets
      /\ CompactionBounds /\ AppliedEnds /\ SnapshotEnds
  BY DEF IInv
<1>2. LogInv' BY <1>1, NextKeepsLogInv
<1>3. LogsKept BY <1>1, NextKeepsLogs
<1>3a. MatchHolds' BY <1>1, <1>2, <1>3, NextKeepsMatchHolds
<1>4. CommitSafe' BY <1>1, <1>2, <1>3, NextKeepsCommitSafe
<1>5. FirstLivesSafe' BY <1>1, <1>2, <1>3, NextKeepsFirstLivesSafe
<1>6. AckedSafe' BY <1>1, <1>2, <1>3, NextKeepsAckedSafe
<1>7. DownForgets' BY <1>1, NextKeepsDownForgets
<1>8. CompactionBounds' BY <1>1, <1>2, <1>3, NextKeepsCompactionBounds
<1>9. AppliedEnds' BY <1>1, <1>2, <1>3, NextKeepsAppliedEnds
<1>10. SnapshotEnds' BY <1>1, <1>2, <1>3, NextKeepsSnapshotEnds
<1> QED BY <1>2, <1>3a, <1>4, <1>5, <1>6, <1>7, <1>8, <1>9, <1>10 DEF IInv

\* The inductive invariant: raft's logs match, commit indexes are covered by those of
\* a majority that forgot nothing, and user logs, answers and snapshots follow from
\* them (distributed.go:291).
THEOREM IInvHolds == Spec => []IInv
<1>1. Init => IInv BY InitIInv
<1>2. IInv /\ [Next]_vars => IInv' BY NextKeepsIInv
<1> QED BY <1>1, <1>2, PTL DEF Spec

(***************************************************************************)
(* The properties of the runs                                              *)
(***************************************************************************)

\* Every variable keeps its type, a server's first entry left is within its log
\* unless it panicked, only leaders count what others store, up to their own last
\* entry, and only they have callers waiting.
THEOREM TypeOKHolds == Spec => []TypeOK
<1>1. ASSUME IInv PROVE TypeOK
  <2>1. Types /\ CommitSafe /\ CompactionBounds /\ FuturesOnLeaders /\ MatchHolds
    BY <1>1 DEF IInv, LogInv
  <2>2. /\ first \in [Servers -> Nat \ {0}]
        /\ snapshot \in [Servers -> [index : Nat, records : Seq(1..MaxProduced)]]
        /\ Trailing \in Nat \ {0}
        /\ \A s \in Servers : LastIndex(s) \in Nat
    BY <2>1, LogTypes, SizesAssumption DEF Types
  <2>3. ASSUME NEW s \in Servers
        PROVE  first[s] \in 1..(IF role[s] \in {"panicked", "failed"} THEN LastIndex(s) + 1
                                ELSE Max({1, LastIndex(s)}))
    <3>1. Max({1, LastIndex(s)}) = IF 1 >= LastIndex(s) THEN 1 ELSE LastIndex(s)
      BY <2>2, MaxOfTwo
    <3>2. first[s] \in Nat \ {0} BY <2>2
    <3>3. IF role[s] \in {"panicked", "failed"} THEN first[s] <= LastIndex(s) + 1
          ELSE first[s] = 1 \/ first[s] + Trailing <= LastIndex(s) + 1
      BY <2>1 DEF CompactionBounds
    <3>4. CASE role[s] \in {"panicked", "failed"} BY <2>2, <3>2, <3>3, <3>4
    <3>5. CASE role[s] \notin {"panicked", "failed"}
      <4>1. first[s] \in 1..(IF 1 >= LastIndex(s) THEN 1 ELSE LastIndex(s))
        BY <2>2, <3>2, <3>3, <3>5
      <4> QED BY <3>1, <3>5, <4>1
    <3> QED BY <3>4, <3>5
  <2>4. /\ role \in [Servers -> {"follower", "leader", "stopped", "killed", "panicked", "failed"}]
        /\ term \in [Servers -> 0..MaxTerm]
        /\ \A s \in Servers : raftLog[s] \in Seq(Entry) /\ userLog[s] \in Seq(1..MaxProduced)
    BY <2>1 DEF Types
  <2>5. \A s \in Servers : snapshot[s].index <= LastIndex(s) BY <2>1 DEF CompactionBounds
  <2>6. \A s \in Servers : applied[s] <= commit[s] BY <2>1 DEF CommitSafe
  <2>7. \A x \in futures : role[x.server] = "leader" BY <2>1 DEF FuturesOnLeaders
  <2>8. \A l, f \in Servers :
          match[l][f] <= (IF role[l] = "leader" THEN LastIndex(l) ELSE 0)
    BY <2>1 DEF MatchHolds
  <2> QED BY <2>3, <2>4, <2>5, <2>6, <2>7, <2>8 DEF TypeOK
<1> QED BY <1>1, IInvHolds, PTL

\* Two sequences of numbers, of which t begins with s.
Begins(s, t) ==
  /\ s \in Seq(Nat) /\ t \in Seq(Nat)
  /\ Len(s) <= Len(t) /\ \A i \in 1..Len(s) : s[i] = t[i]

\* While majorities remember, of the requests in two safe parts of logs one are the
\* beginning of the other.
LEMMA SafeRequestsAgree ==
  ASSUME Types, MajoritiesRemember, NEW s \in Servers, NEW t \in Servers, NEW m, NEW n,
         Safe(s, m), Safe(t, n), m <= n
  PROVE  Begins(Requests(raftLog[s], m), Requests(raftLog[t], n))
<1>1. /\ \A k \in 1..m : raftLog[s][k] = raftLog[t][k]
      /\ m \in 0..LastIndex(s) /\ n \in 0..LastIndex(t) /\ m <= LastIndex(t)
  BY SafeAgree
<1>2. raftLog[s] \in Seq(Entry) /\ raftLog[t] \in Seq(Entry) BY DEF Types
<1>3. /\ m \in Nat /\ n \in Nat /\ m <= Len(raftLog[s]) /\ m <= Len(raftLog[t])
      /\ n <= Len(raftLog[t]) /\ m \in 0..Len(raftLog[s]) /\ n \in 0..Len(raftLog[t])
  BY <1>1, <1>2 DEF LastIndex
<1>4. Requests(raftLog[s], m) = Requests(raftLog[t], m)
  BY <1>1, <1>2, <1>3, RequestsOfSame
<1>5. /\ Len(Requests(raftLog[t], m)) <= Len(Requests(raftLog[t], n))
      /\ \A i \in 1..Len(Requests(raftLog[t], m)) :
           Requests(raftLog[t], m)[i] = Requests(raftLog[t], n)[i]
  BY <1>2, <1>3, RequestsGrow
<1>6. Requests(raftLog[s], m) \in Seq(Nat) /\ Requests(raftLog[t], n) \in Seq(Nat)
  BY <1>2, <1>3, RequestsDef
<1> QED BY <1>4, <1>5, <1>6 DEF Begins

\* Both show the same where both show something.
LEMMA BeginsAgree ==
  ASSUME NEW s, NEW t, Begins(s, t) \/ Begins(t, s),
         NEW i \in Nat \ {0}, i <= Len(s), i <= Len(t)
  PROVE  s[i] = t[i]
<1>1. CASE Begins(s, t)
  <2>1. i \in 1..Len(s) BY <1>1 DEF Begins
  <2> QED BY <1>1, <2>1 DEF Begins
<1>2. CASE Begins(t, s)
  <2>1. i \in 1..Len(t) BY <1>2 DEF Begins
  <2> QED BY <1>2, <2>1 DEF Begins
<1> QED BY <1>1, <1>2

\* IsPrefix, by places.
LEMMA PrefixPointwise ==
  ASSUME NEW S, NEW s \in Seq(S), NEW t \in Seq(S), Len(s) <= Len(t),
         \A i \in 1..Len(s) : s[i] = t[i]
  PROVE  IsPrefix(s, t)
<1>1. SubSeq(s, 1, Len(s)) = SubSeq(t, 1, Len(s)) OBVIOUS
<1> QED BY <1>1 DEF IsPrefix

\* One of the two user logs is the beginning of the other.
LEMMA FirstLivesBegin ==
  ASSUME Types, MajoritiesRemember, FirstLivesSafe, NEW s \in Servers \ reopened, NEW t \in Servers \ reopened
  PROVE  Begins(userLog[s], userLog[t]) \/ Begins(userLog[t], userLog[s])
<1>1. PICK a \in 0..LastIndex(s) : Safe(s, a) /\ userLog[s] = Requests(raftLog[s], a)
  BY DEF FirstLivesSafe
<1>2. PICK b \in 0..LastIndex(t) : Safe(t, b) /\ userLog[t] = Requests(raftLog[t], b)
  BY DEF FirstLivesSafe
<1>3. a <= b \/ b <= a OBVIOUS
<1> QED BY <1>1, <1>2, <1>3, SafeRequestsAgree

\* IsSuffix, by places.
LEMMA SuffixOfEnds ==
  ASSUME NEW S, NEW s \in Seq(S), NEW t \in Seq(S), Ends(s, t)
  PROVE  IsSuffix(s, t)
<1> DEFINE r == Reverse(s)
           q == Reverse(t)
<1>1. r \in Seq(S) /\ q \in Seq(S) /\ Len(r) = Len(s) /\ Len(q) = Len(t)
  BY DEF Reverse
<1>2. /\ \A i \in 1..Len(s) : r[i] = s[(Len(s) - i) + 1]
      /\ \A i \in 1..Len(t) : q[i] = t[(Len(t) - i) + 1]
  BY DEF Reverse
<1> HIDE DEF r, q
<1>3. Len(s) \in Nat /\ Len(t) \in Nat /\ Len(s) <= Len(t) BY DEF Ends
<1>4. ASSUME NEW i \in 1..Len(s) PROVE r[i] = q[i]
  <2>1. (Len(s) - i) + 1 \in 1..Len(s) /\ i \in 1..Len(t)
        /\ ((Len(s) - i) + 1) + (Len(t) - Len(s)) = (Len(t) - i) + 1
    BY <1>3
  <2>2. s[(Len(s) - i) + 1] = t[((Len(s) - i) + 1) + (Len(t) - Len(s))]
    BY <2>1 DEF Ends
  <2> QED BY <1>2, <2>1, <2>2
<1>5. IsPrefix(r, q) BY <1>1, <1>3, <1>4, PrefixPointwise
<1> QED BY <1>5 DEF IsSuffix, r, q

\* While majorities remember, local reads of servers in their first life never differ
\* (distributed.go:249), whatever the ones that were started again feed into raft.
THEOREM FirstLivesAgreeHolds == Spec => []FirstLivesAgree
<1>1. ASSUME IInv PROVE FirstLivesAgree
  <2>1. Types /\ FirstLivesSafe BY <1>1 DEF IInv, LogInv
  <2>2. ASSUME NEW u, NEW w, Begins(u, w) PROVE IsPrefix(u, w)
    BY <2>2, PrefixPointwise DEF Begins
  <2> QED BY <2>1, <2>2, FirstLivesBegin
      DEF FirstLivesAgree, FirstLivesAlwaysAgree, FirstLives, OneBeginsOther
<1> QED BY <1>1, IInvHolds, PTL

\* While majorities remember, the offset Append answered holds the caller's record on
\* every server in its first life that has the offset, whatever leaders were elected
\* in between (distributed.go:227).
THEOREM AckedEverywhereHolds == Spec => []AckedEverywhere
<1>1. ASSUME IInv PROVE AckedEverywhere
  <2>1. Types /\ FirstLivesSafe /\ AckedSafe BY <1>1 DEF IInv, LogInv
  <2> SUFFICES ASSUME MajoritiesRemember, NEW r \in acked, NEW s \in Servers \ reopened,
                      Len(userLog[s]) > r.offset
               PROVE  userLog[s][r.offset + 1] = r.value
    BY DEF AckedEverywhere, FirstLives
  <2>2. r.offset \in Nat BY <2>1 DEF Types
  <2>3. PICK a \in 0..LastIndex(s) : Safe(s, a) /\ userLog[s] = Requests(raftLog[s], a)
    BY <2>1 DEF FirstLivesSafe
  <2>4. PICK t \in Servers : \E b \in 0..LastIndex(t) :
               /\ Safe(t, b)
               /\ r.offset + 1 \in 1..Len(Requests(raftLog[t], b))
               /\ Requests(raftLog[t], b)[r.offset + 1] = r.value
    BY <2>1 DEF AckedSafe
  <2>5. PICK b \in 0..LastIndex(t) :
               /\ Safe(t, b)
               /\ r.offset + 1 \in 1..Len(Requests(raftLog[t], b))
               /\ Requests(raftLog[t], b)[r.offset + 1] = r.value
    BY <2>4
  <2>6. /\ Begins(Requests(raftLog[s], a), Requests(raftLog[t], b))
           \/ Begins(Requests(raftLog[t], b), Requests(raftLog[s], a))
        /\ s \in Servers
    <3>1. a <= b \/ b <= a OBVIOUS
    <3> QED BY <2>1, <2>3, <2>5, <3>1, SafeRequestsAgree
  <2>7. /\ r.offset + 1 \in Nat \ {0} /\ r.offset + 1 <= Len(Requests(raftLog[t], b))
        /\ r.offset + 1 <= Len(userLog[s])
    <3>1. userLog[s] \in Seq(1..MaxProduced) BY <2>1 DEF Types
    <3>2. Len(userLog[s]) \in Nat BY <3>1
    <3> QED BY <2>2, <2>5, <3>2
  <2>8. Requests(raftLog[s], a)[r.offset + 1] = Requests(raftLog[t], b)[r.offset + 1]
    BY <2>3, <2>6, <2>7, BeginsAgree
  <2> QED BY <2>3, <2>5, <2>8
<1> QED BY <1>1, IInvHolds, PTL

\* fsm.Apply brings the requests to the user log in the order of raft's log,
\* however often the server was started again (distributed.go:291).
THEOREM AppliedInOrderHolds == Spec => []AppliedInOrder
<1>1. ASSUME IInv PROVE AppliedInOrder
  <2>1. Types /\ CommitSafe /\ AppliedEnds BY <1>1 DEF IInv, LogInv
  <2> SUFFICES ASSUME NEW s \in Up
               PROVE  IsSuffix(Requests(raftLog[s], applied[s]), userLog[s])
    BY DEF AppliedInOrder
  <2>2. s \in Servers BY DEF Up
  <2>3. /\ raftLog[s] \in Seq(Entry) /\ userLog[s] \in Seq(1..MaxProduced)
        /\ 1..MaxProduced \subseteq Nat
    BY <2>1, <2>2, BoundsAssumption DEF Types
  <2>4. applied[s] \in 0..Len(raftLog[s]) BY <2>1, <2>2, AppliedBound DEF LastIndex
  <2>5. Requests(raftLog[s], applied[s]) \in Seq(Nat) BY <2>3, <2>4, RequestsDef
  <2>6. userLog[s] \in Seq(Nat) BY <2>3, SeqWider
  <2>7. Ends(Requests(raftLog[s], applied[s]), userLog[s]) BY <2>1 DEF AppliedEnds
  <2> QED BY <2>5, <2>6, <2>7, SuffixOfEnds
<1> QED BY <1>1, IInvHolds, PTL

\* DeleteRange leaves what is not in the snapshot, and the trailing entries
\* (distributed.go:448).
THEOREM CompactedInSnapshotHolds == Spec => []CompactedInSnapshot
<1>1. ASSUME IInv PROVE CompactedInSnapshot
  <2>1. Types /\ CompactionBounds /\ SnapshotEnds BY <1>1 DEF IInv, LogInv
  <2> SUFFICES ASSUME NEW s \in Servers
               PROVE  /\ role[s] \notin {"panicked", "failed"} =>
                           first[s] <= Min({snapshot[s].index,
                                            Max({LastIndex(s) - Trailing, 0})}) + 1
                      /\ IsSuffix(Requests(raftLog[s], snapshot[s].index), snapshot[s].records)
    BY DEF CompactedInSnapshot
  <2>2. /\ first[s] \in Nat \ {0} /\ LastIndex(s) \in Nat /\ Trailing \in Nat \ {0}
        /\ snapshot[s].index \in Nat /\ snapshot[s].records \in Seq(1..MaxProduced)
        /\ raftLog[s] \in Seq(Entry) /\ 1..MaxProduced \subseteq Nat
    <3>1. /\ first \in [Servers -> Nat \ {0}]
          /\ snapshot \in [Servers -> [index : Nat, records : Seq(1..MaxProduced)]]
      BY <2>1 DEF Types
    <3> QED BY <2>1, <3>1, LogTypes, SizesAssumption, BoundsAssumption
  <2>3. ASSUME role[s] \notin {"panicked", "failed"}
        PROVE  first[s] <= Min({snapshot[s].index, Max({LastIndex(s) - Trailing, 0})}) + 1
    <3> DEFINE m == Max({LastIndex(s) - Trailing, 0})
    <3>1. m \in Nat /\ (LastIndex(s) >= Trailing => m = LastIndex(s) - Trailing)
      <4>1. CASE LastIndex(s) >= Trailing
        <5>1. LastIndex(s) - Trailing \in Nat BY <2>2, <4>1
        <5>2. m = IF LastIndex(s) - Trailing >= 0 THEN LastIndex(s) - Trailing ELSE 0
          BY <5>1, MaxOfTwo
        <5> QED BY <4>1, <5>1, <5>2
      <4>2. CASE LastIndex(s) < Trailing
        <5>1. m = 0 BY <2>2, <4>2 DEF Max
        <5> QED BY <2>2, <4>2, <5>1
      <4> QED BY <2>2, <4>1, <4>2
    <3> HIDE DEF m
    <3>2. Min({snapshot[s].index, m}) = IF snapshot[s].index <= m THEN snapshot[s].index ELSE m
      BY <2>2, <3>1, MinOfTwo
    <3>3. /\ first[s] <= snapshot[s].index + 1
          /\ first[s] = 1 \/ first[s] + Trailing <= LastIndex(s) + 1
      BY <2>1, <2>3 DEF CompactionBounds
    <3>4. first[s] <= m + 1 BY <2>2, <3>1, <3>3
    <3>5. first[s] <= Min({snapshot[s].index, m}) + 1 BY <2>2, <3>1, <3>2, <3>3, <3>4
    <3> QED BY <3>5 DEF m
  <2>4. snapshot[s].index \in 0..Len(raftLog[s])
    BY <2>1, <2>2 DEF CompactionBounds, LastIndex
  <2>5. Requests(raftLog[s], snapshot[s].index) \in Seq(Nat) BY <2>2, <2>4, RequestsDef
  <2>6. snapshot[s].records \in Seq(Nat) BY <2>2, SeqWider
  <2>7. Ends(Requests(raftLog[s], snapshot[s].index), snapshot[s].records)
    BY <2>1 DEF SnapshotEnds
  <2> QED BY <2>3, <2>5, <2>6, <2>7, SuffixOfEnds
<1> QED BY <1>1, IInvHolds, PTL

(***************************************************************************)
(* The user logs are a replicated log                                      *)
(***************************************************************************)

\* fsm.Apply on a member shows the record that the others show there or, where they
\* show nothing, one that none of them has.
LEMMA ApplyEntryShows ==
  ASSUME IInv, NEW s \in Members, ApplyEntry(s), userLog' # userLog
  PROVE  \E v \in 1..MaxProduced : Abstract!Show(s, v)
<1>1. Types /\ LogInv /\ CommitSafe /\ FirstLivesSafe /\ ValuesOnce BY DEF IInv, LogInv
<1>2. /\ userLog \in [Servers -> Seq(1..MaxProduced)]
      /\ raftLog \in [Servers -> Seq(Entry)]
  BY <1>1 DEF Types
<1>3. reopened' = reopened /\ forgot' = forgot /\ s \in Up BY DEF ApplyEntry, lifeVars
<1>3a. MajoritiesRemember /\ Members = Servers \ reopened
  BY DEF Members, FirstLives
<1>3b. Members' = Members BY <1>3 DEF Members, FirstLives, MajoritiesRemember
<1>4. PICK n \in 1..LastIndex(s) :
        /\ n - 1 = applied[s]
        /\ Safe(s, n)
        /\ \A t \in Servers \ {s} : userLog'[t] = userLog[t]
        /\ raftLog[s][n].value # Noop
        /\ raftLog[s][n].value \in 1..MaxProduced
        /\ Requests(raftLog[s], n) = Append(Requests(raftLog[s], n - 1), raftLog[s][n].value)
        /\ userLog'[s] = Append(userLog[s], raftLog[s][n].value)
  <2>1. s \in Servers BY <1>3a
  <2>2. PICK n \in 1..LastIndex(s) :
          /\ n - 1 = applied[s]
          /\ Safe(s, n)
          /\ \A t \in Servers \ {s} : userLog'[t] = userLog[t]
          /\ \/ userLog' = userLog
             \/ /\ raftLog[s][n].value # Noop
                /\ raftLog[s][n].value \in 1..MaxProduced
                /\ Requests(raftLog[s], n)
                     = Append(Requests(raftLog[s], n - 1), raftLog[s][n].value)
                /\ userLog'[s] = Append(userLog[s], raftLog[s][n].value)
    BY <1>1, <2>1, ApplyEffect
  <2> QED BY <2>2
<1> DEFINE v == raftLog[s][n].value
           k == Len(userLog[s]) + 1
           R == Requests(raftLog[s], n)
           show == [t \in Servers |-> IF t \in Members THEN userLog[t] ELSE <<>>]
<1>5. userLog[s] = Requests(raftLog[s], n - 1)
  BY <1>1, <1>3, <1>3a, <1>4 DEF FirstLivesSafe
<1>6. userLog[s] \in Seq(1..MaxProduced) /\ v \in 1..MaxProduced BY <1>2, <1>3a, <1>4
<1>7. R = Append(userLog[s], v) BY <1>4, <1>5
<1>8. Len(R) = k /\ R[k] = v /\ k \in Nat
  <2> HIDE DEF v
  <2> QED BY <1>6, <1>7, AppendProperties
<1>9. \A t \in Members : show[t] = userLog[t] /\ t \in Servers BY <1>3a
<1>10. n \in Nat BY <1>1, LogTypes
<1> HIDE DEF k, R, v
<1>11. ASSUME NEW t \in Members
       PROVE  \E b \in Nat : Safe(t, b) /\ userLog[t] = Requests(raftLog[t], b)
                             /\ b <= LastIndex(t)
  <2>1. PICK b \in 0..LastIndex(t) : Safe(t, b) /\ userLog[t] = Requests(raftLog[t], b)
    BY <1>1, <1>3a DEF FirstLivesSafe
  <2>2. LastIndex(t) \in Nat BY <1>1, <1>9, LogTypes
  <2> QED BY <2>1, <2>2
<1>12. ASSUME NEW t \in Members, k <= Len(userLog[t]) PROVE userLog[t][k] = v
  <2>1. PICK b \in Nat : Safe(t, b) /\ userLog[t] = Requests(raftLog[t], b)
    BY <1>11
  <2>2. n <= b \/ b <= n BY <1>10, <2>1
  <2>3. Begins(R, userLog[t]) \/ Begins(userLog[t], R)
    BY <1>1, <1>3a, <1>4, <2>1, <2>2, SafeRequestsAgree DEF R
  <2>4. k # 0 BY <1>6 DEF k
  <2>5. R[k] = userLog[t][k] BY <1>8, <1>12, <2>3, <2>4, BeginsAgree
  <2> QED BY <1>8, <2>5
<1>13. ASSUME \A t \in Members : ~(k <= Len(userLog[t])),
              NEW t \in Members, NEW i \in DOMAIN userLog[t], userLog[t][i] = v
       PROVE  FALSE
  <2>1. PICK b \in Nat : Safe(t, b) /\ userLog[t] = Requests(raftLog[t], b)
                         /\ b <= LastIndex(t)
    BY <1>11
  <2>2. Len(userLog[t]) \in Nat /\ i \in 1..Len(userLog[t]) /\ t \in Servers
    <3>1. t \in Servers BY <1>9
    <3>2. userLog[t] \in Seq(1..MaxProduced) BY <1>2, <3>1
    <3> QED BY <1>13, <3>1, <3>2
  <2>3. raftLog[t] \in Seq(Entry) /\ b \in 0..Len(raftLog[t])
    BY <1>2, <2>1, <2>2 DEF LastIndex
  <2>4. PICK j \in 1..b : raftLog[t][j].value = v
    <3>1. i \in 1..Len(Requests(raftLog[t], b)) BY <2>1, <2>2
    <3>2. PICK j \in 1..b : raftLog[t][j].value = Requests(raftLog[t], b)[i]
      BY <2>3, <3>1, RequestsFrom
    <3> QED BY <1>13, <2>1, <3>2
  <2>5. j = n
    <3>1. j \in 1..LastIndex(t) BY <2>1, <2>2, <2>3, <2>4 DEF LastIndex
    <3> QED BY <1>1, <1>3a, <1>4, <2>2, <2>4, <3>1 DEF ValuesOnce, v
  <2>6. n <= b BY <2>4, <2>5
  <2>7. Len(R) <= Len(userLog[t])
    <3>1. Begins(R, userLog[t])
      BY <1>1, <1>3a, <1>4, <2>1, <2>2, <2>6, SafeRequestsAgree DEF R
    <3> QED BY <3>1 DEF Begins
  <2> QED BY <1>8, <1>13, <2>2, <2>7
<1>14. show' = [show EXCEPT ![s] = Append(@, v)]
  <2>1. ASSUME NEW t \in Servers
        PROVE  (IF t \in Members THEN userLog[t] ELSE <<>>)'
                 = IF t = s THEN Append(show[s], v) ELSE show[t]
    BY <1>3a, <1>3b, <1>4 DEF v
  <2>2. show' = [t \in Servers |-> IF t = s THEN Append(show[s], v) ELSE show[t]]
    BY <2>1
  <2>3. s \in Servers /\ show = [t \in Servers |-> show[t]] BY <1>3a
  <2> HIDE DEF show
  <2>4. [show EXCEPT ![s] = Append(@, v)]
          = [t \in Servers |-> IF t = s THEN Append(show[s], v) ELSE show[t]]
    BY <2>3
  <2> QED BY <2>2, <2>4
<1>15. Len(show[s]) + 1 = k BY <1>9 DEF k
<1> DEFINE others == {show[t][k] : t \in {t \in Members : k <= Len(show[t])}}
           known == UNION {{show[t][i] : i \in DOMAIN show[t]} : t \in Members}
<1>16. v \in others \/ (others = {} /\ v \notin known)
  <2>1. CASE \E t \in Members : k <= Len(userLog[t])
    <3>1. PICK t \in Members : k <= Len(userLog[t]) BY <2>1
    <3>2. k <= Len(show[t]) /\ show[t][k] = v BY <1>9, <1>12, <3>1
    <3> HIDE DEF show
    <3>3. v \in others BY <3>2
    <3> QED BY <3>3
  <2>2. CASE \A t \in Members : ~(k <= Len(userLog[t]))
    <3>1. others = {}
      <4>1. \A t \in Members : ~(k <= Len(show[t])) BY <1>9, <2>2
      <4> HIDE DEF show
      <4> QED BY <4>1
    <3>2. v \notin known
      <4>1. \A t \in Members : \A i \in DOMAIN show[t] : show[t][i] # v
        BY <1>9, <1>13, <2>2
      <4> HIDE DEF show
      <4> QED BY <4>1
    <3> QED BY <3>1, <3>2
  <2> QED BY <2>1, <2>2
<1>17. s \in Members /\ Members' = Members BY <1>3b
<1>18. v \in {show[t][Len(show[s]) + 1] : t \in {t \in Members : Len(show[s]) + 1 <= Len(show[t])}}
       \/ ({show[t][Len(show[s]) + 1] : t \in {t \in Members : Len(show[s]) + 1 <= Len(show[t])}} = {}
           /\ v \notin UNION {{show[t][i] : i \in DOMAIN show[t]} : t \in Members})
  BY <1>15, <1>16
<1>19. PICK w \in 1..MaxProduced : w = v BY <1>6
<1>20. Abstract!Show(s, w)
  BY <1>14, <1>17, <1>18, <1>19 DEF Abstract!Show, Abstract!Shown, Abstract!Known
<1> QED BY <1>20

\* Every step shows one record more, or takes servers out, the one that is started
\* again or all of them when majorities stop remembering, or leaves what is shown.
LEMMA StepImplements ==
  ASSUME IInv, IInv', [Next]_vars
  PROVE  [Abstract!Next]_Abstract!rvars
<1>1. Types /\ LogInv BY DEF IInv, LogInv
<1> DEFINE show == [t \in Servers |-> IF t \in Members THEN userLog[t] ELSE <<>>]
<1>2. ASSUME Members' \subseteq Members, \A t \in Members' : userLog'[t] = userLog[t]
      PROVE  [Abstract!Next]_Abstract!rvars
  <2>1. PICK L \in SUBSET Members : L = Members \ Members' OBVIOUS
  <2>1a. Members' = Members \ L BY <1>2, <2>1
  <2>2. show' = [t \in Servers |-> IF t \in L THEN <<>> ELSE show[t]]
    <3>1. ASSUME NEW t \in Servers PROVE show'[t] = IF t \in L THEN <<>> ELSE show[t]
      BY <1>2, <2>1
    <3> QED BY <3>1
  <2>3. Abstract!Leave(L) BY <2>1, <2>1a, <2>2 DEF Abstract!Leave
  <2>4. \E M \in SUBSET Members : Abstract!Leave(M) BY <2>3
  <2>5. Abstract!Next BY <2>4 DEF Abstract!Next
  <2> QED BY <2>5
<1>3. ASSUME NEW s \in Servers, ApplyEntry(s)
      PROVE  [Abstract!Next]_Abstract!rvars
  <2>1. Members' = Members
    BY <1>3 DEF ApplyEntry, lifeVars, Members, FirstLives, MajoritiesRemember
  <2>2. CASE userLog' # userLog /\ s \in Members
    <3>1. \E v \in 1..MaxProduced : Abstract!Show(s, v) BY <1>3, <2>2, ApplyEntryShows
    <3> QED BY <3>1 DEF Abstract!Next, Members, FirstLives
  <2>3. CASE userLog' = userLog BY <1>2, <2>1, <2>3
  <2>4. CASE s \notin Members
    <3>1. \A t \in Servers \ {s} : userLog'[t] = userLog[t]
      BY <1>3, ApplyEffect DEF IInv
    <3>2. Members \subseteq Servers \ {s} BY <2>4 DEF Members, FirstLives
    <3> QED BY <1>2, <2>1, <3>1, <3>2
  <2> QED BY <2>2, <2>3, <2>4
<1>4. LogsKept BY <1>1, NextKeepsLogs
<1>5. ASSUME reopened \subseteq reopened' PROVE Members' \subseteq Members
  BY <1>4, <1>5 DEF LogsKept, Members, FirstLives, MajoritiesRemember
<1>6. ASSUME NEW s \in Servers, NewDistributedLog(s) \/ StartFails(s)
      PROVE  [Abstract!Next]_Abstract!rvars
  <2>1. reopened' = reopened \cup {s}
        /\ \A t \in Servers \ {s} : userLog'[t] = userLog[t]
    BY <1>1, <1>6, StartLeaves
  <2>2. Members' \subseteq Servers \ {s} BY <2>1 DEF Members, FirstLives
  <2> QED BY <1>2, <1>5, <2>1, <2>2
<1>7. ASSUME Quiet PROVE [Abstract!Next]_Abstract!rvars
  <2>1. userLog' = userLog /\ reopened' = reopened BY <1>7 DEF Quiet
  <2> QED BY <1>2, <1>5, <2>1
<1> QED BY <1>1, <1>3, <1>6, <1>7, StepKinds

\* While majorities remember, the user logs of the servers in their first life are a
\* replicated log: records are taken over from the others or new, and never leave or
\* move (distributed.go:291).
THEOREM ImplementsReplicatedLogHolds == Spec => ImplementsReplicatedLog
<1>1. Init => Abstract!Init
  <2> SUFFICES ASSUME Init PROVE Abstract!Init OBVIOUS
  <2>1. Members = Servers BY DEF Init, Members, FirstLives, MajoritiesRemember
  <2> QED BY <2>1 DEF Init, Abstract!Init
<1>2. IInv /\ IInv' /\ [Next]_vars => [Abstract!Next]_Abstract!rvars
  BY StepImplements
<1> QED BY <1>1, <1>2, IInvHolds, PTL DEF Spec, ImplementsReplicatedLog, Abstract!Spec

\* The same replicated log, with what is proved of it.
Promised == INSTANCE ReplicatedLogProofs WITH
  Values  <- 1..MaxProduced,
  members <- Members,
  logs    <- [s \in Servers |-> IF s \in Members THEN userLog[s] ELSE <<>>]

\* So while majorities remember, no server in its first life has a request twice in
\* its user log: raft applies the entry of a request once (distributed.go:291).
THEOREM NoRequestTwice == Spec => []Abstract!NoRepeat
<1>1. Promised!Spec => [](Promised!Agreement /\ Promised!NoRepeat)
  BY Promised!ReplicatedLogCorrect
<1>2. Abstract!Init => Promised!Init
  BY DEF Abstract!Init, Promised!Init
<1>3. [Abstract!Next]_Abstract!rvars => [Promised!Next]_Promised!rvars
  BY DEF Abstract!Next, Promised!Next, Abstract!rvars, Promised!rvars,
         Abstract!Show, Promised!Show, Abstract!Leave, Promised!Leave,
         Abstract!Shown, Promised!Shown, Abstract!Known, Promised!Known
<1>4. Promised!NoRepeat => Abstract!NoRepeat
  BY DEF Abstract!NoRepeat, Promised!NoRepeat
<1> QED BY <1>1, <1>2, <1>3, <1>4, ImplementsReplicatedLogHolds, PTL
  DEF ImplementsReplicatedLog, Abstract!Spec, Promised!Spec

=============================================================================
