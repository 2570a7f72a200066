------------------------- MODULE ReplicatedLogProofs -------------------------
(***************************************************************************)
(* A replicated log (module ReplicatedLog), for any servers and records:   *)
(* its members agree, and none of them has a record twice.                 *)
(***************************************************************************)
EXTENDS ReplicatedLog, TLAPS

\* Neither part is inductive alone: a record taken over from another member is
\* not a repetition because the records before it are the other member's too.
Inv == TypeOK /\ Agreement /\ NoRepeat

\* What a step that shows the record v does to the logs.
LEMMA ShowEffect ==
  ASSUME TypeOK, NEW s \in Servers, NEW v \in Values, Show(s, v)
  PROVE  /\ s \in members /\ members' = members
         /\ logs' \in [Servers -> Seq(Values)]
         /\ \A t \in Servers \ {s} : logs'[t] = logs[t]
         /\ Len(logs'[s]) = Len(logs[s]) + 1
         /\ logs'[s][Len(logs[s]) + 1] = v
         /\ \A n \in 1..Len(logs[s]) : logs'[s][n] = logs[s][n]
<1>1. logs[s] \in Seq(Values) BY DEF TypeOK
<1>2. logs'[s] = Append(logs[s], v) BY DEF Show, TypeOK
<1> QED BY <1>1, <1>2 DEF Show, TypeOK

\* The record shown next is the one any other member has there.
LEMMA ShownAgrees ==
  ASSUME Inv, NEW s \in Servers, NEW v \in Values, Show(s, v),
         NEW t \in members, Len(logs[s]) + 1 \in DOMAIN logs[t]
  PROVE  logs[t][Len(logs[s]) + 1] = v
<1> DEFINE n == Len(logs[s]) + 1
<1>1. logs[t] \in Seq(Values) /\ n \in 1..Len(logs[t]) BY DEF Inv, TypeOK
<1>2. logs[t][n] \in Shown(n) BY <1>1 DEF Shown
<1>3. v \in Shown(n) BY <1>2 DEF Show
<1>4. PICK u \in members : n <= Len(logs[u]) /\ v = logs[u][n] BY <1>3 DEF Shown
<1>5. logs[u] \in Seq(Values) /\ n \in DOMAIN logs[u] BY <1>1, <1>4 DEF Inv, TypeOK
<1> QED BY <1>1, <1>4, <1>5 DEF Inv, Agreement

\* The record shown next is not among those the server has shown.
LEMMA ShownIsNew ==
  ASSUME Inv, NEW s \in Servers, NEW v \in Values, Show(s, v),
         NEW m \in 1..Len(logs[s])
  PROVE  logs[s][m] # v
<1> DEFINE n == Len(logs[s]) + 1
<1>1. s \in members /\ logs[s] \in Seq(Values) BY DEF Show, Inv, TypeOK
<1>2. CASE v \in Shown(n)
  <2>1. PICK u \in members : n <= Len(logs[u]) /\ v = logs[u][n] BY <1>2 DEF Shown
  <2>2. logs[u] \in Seq(Values) BY <2>1 DEF Inv, TypeOK
  <2>3. m \in DOMAIN logs[u] /\ n \in DOMAIN logs[u] /\ m # n BY <1>1, <2>1, <2>2
  <2>4. logs[s][m] = logs[u][m] BY <1>1, <2>1, <2>3 DEF Inv, Agreement
  <2>5. logs[u][m] # logs[u][n] BY <2>1, <2>3 DEF Inv, NoRepeat
  <2> QED BY <2>1, <2>4, <2>5
<1>3. CASE v \notin Known
  BY <1>1, <1>3 DEF Known
<1> QED BY <1>2, <1>3 DEF Show

\* A server that shows the next committed record keeps the prefixes.
LEMMA ShowKeepsInv ==
  ASSUME Inv, NEW s \in Servers, NEW v \in Values, Show(s, v)
  PROVE  Inv'
<1> DEFINE n == Len(logs[s]) + 1
<1>1. TypeOK BY DEF Inv
<1>2. /\ s \in members /\ members' = members
      /\ logs' \in [Servers -> Seq(Values)]
      /\ \A t \in Servers \ {s} : logs'[t] = logs[t]
      /\ Len(logs'[s]) = n
      /\ logs'[s][n] = v
      /\ \A k \in 1..Len(logs[s]) : logs'[s][k] = logs[s][k]
  BY <1>1, ShowEffect
<1>3. TypeOK' BY <1>1, <1>2 DEF TypeOK
<1>4. \A t \in Servers : Len(logs[t]) \in Nat /\ DOMAIN logs[t] = 1..Len(logs[t])
  BY <1>1 DEF TypeOK
<1>5. DOMAIN logs'[s] = 1..n /\ DOMAIN logs[s] = 1..(n - 1)
  <2>1. logs'[s] \in Seq(Values) BY <1>2
  <2> QED BY <1>2, <1>4, <2>1
<1>6. ASSUME NEW t \in members, t # s, NEW k \in DOMAIN logs'[s] \cap DOMAIN logs[t]
      PROVE  logs'[s][k] = logs[t][k]
  <2>1. CASE k = n BY <1>2, <1>6, <2>1, ShownAgrees
  <2>2. CASE k # n
    <3>1. k \in 1..Len(logs[s]) BY <1>4, <1>5, <1>6, <2>2
    <3>2. logs[s][k] = logs[t][k] BY <1>2, <1>4, <1>6, <3>1 DEF Inv, Agreement
    <3> QED BY <1>2, <3>1, <3>2
  <2> QED BY <2>1, <2>2
<1>7. Agreement'
  <2> SUFFICES ASSUME NEW t \in members, NEW u \in members,
                      NEW k \in DOMAIN logs'[t] \cap DOMAIN logs'[u]
               PROVE  logs'[t][k] = logs'[u][k]
    BY <1>2 DEF Agreement
  <2>1. t \in Servers /\ u \in Servers BY <1>1 DEF TypeOK
  <2>2. CASE t = s /\ u = s BY <2>2
  <2>3. CASE t = s /\ u # s BY <1>2, <1>6, <2>1, <2>3
  <2>4. CASE t # s /\ u = s BY <1>2, <1>6, <2>1, <2>4
  <2>5. CASE t # s /\ u # s BY <1>2, <2>1, <2>5 DEF Inv, Agreement
  <2> QED BY <2>2, <2>3, <2>4, <2>5
<1>8. NoRepeat'
  <2> SUFFICES ASSUME NEW t \in members, NEW j \in DOMAIN logs'[t],
                      NEW k \in DOMAIN logs'[t], logs'[t][j] = logs'[t][k]
               PROVE  j = k
    BY <1>2 DEF NoRepeat
  <2>1. CASE t # s
    <3>1. logs'[t] = logs[t] BY <1>1, <1>2, <2>1 DEF TypeOK
    <3> QED BY <3>1 DEF Inv, NoRepeat
  <2>2. CASE t = s
    <3>1. \A m \in 1..Len(logs[s]) : logs'[s][m] # v BY <1>2, ShownIsNew
    <3>2. \A m \in 1..n : m = n \/ m \in 1..Len(logs[s]) BY <1>4
    <3>3. j \in 1..n /\ k \in 1..n BY <1>5, <2>2
    <3>4. CASE j = n BY <1>2, <2>2, <3>1, <3>2, <3>3, <3>4
    <3>5. CASE k = n BY <1>2, <2>2, <3>1, <3>2, <3>3, <3>5
    <3>6. CASE j # n /\ k # n
      <4>1. j \in DOMAIN logs[s] /\ k \in DOMAIN logs[s] BY <1>4, <3>2, <3>3, <3>6
      <4>2. logs[s][j] = logs[s][k] BY <1>2, <1>4, <2>2, <4>1
      <4> QED BY <1>2, <4>1, <4>2 DEF Inv, NoRepeat
    <3> QED BY <3>4, <3>5, <3>6
  <2> QED BY <2>1, <2>2
<1> QED BY <1>3, <1>7, <1>8 DEF Inv

\* Servers that go away keep them.
LEMMA LeaveKeepsInv ==
  ASSUME Inv, NEW L \in SUBSET members, Leave(L)
  PROVE  Inv'
<1>1. /\ members' = members \ L
      /\ \A t \in members' : logs'[t] = logs[t]
  BY DEF Inv, TypeOK, Leave
<1>2. TypeOK' BY DEF Inv, TypeOK, Leave
<1>3. Agreement' BY <1>1 DEF Inv, Agreement
<1>4. NoRepeat' BY <1>1 DEF Inv, NoRepeat
<1> QED BY <1>2, <1>3, <1>4 DEF Inv

\* The members of a replicated log agree and repeat nothing, however they follow
\* each other and whoever leaves: what DistributedLog.Read may rely on
\* (distributed.go:249) as long as the user logs implement this module.
THEOREM ReplicatedLogCorrect == Spec => [](Agreement /\ NoRepeat)
<1>1. Init => Inv
  BY DEF Init, Inv, TypeOK, Agreement, NoRepeat
<1>2. Inv /\ [Next]_rvars => Inv'
  <2> SUFFICES ASSUME Inv, [Next]_rvars PROVE Inv' OBVIOUS
  <2>1. ASSUME NEW s \in Servers, NEW v \in Values, Show(s, v) PROVE Inv'
    BY <2>1, ShowKeepsInv
  <2>2. ASSUME NEW L \in SUBSET members, Leave(L) PROVE Inv' BY <2>2, LeaveKeepsInv
  <2>3. CASE UNCHANGED rvars
    BY <2>3 DEF rvars, Inv, TypeOK, Agreement, NoRepeat
  <2> QED BY <2>1, <2>2, <2>3 DEF Next
<1>3. Inv => Agreement /\ NoRepeat BY DEF Inv
<1> QED BY <1>1, <1>2, <1>3, PTL DEF Spec

=============================================================================
