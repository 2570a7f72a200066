---------------------------- MODULE ReplicatedLog ----------------------------
(***************************************************************************)
(* What DistributedLog promises (internal/log/distributed.go): the servers *)
(* have one log between them, of which each shows a beginning.  A server   *)
(* that is started again is not a member any more: it is promised nothing. *)
(* When majorities no longer remember what they stored, none is a member.  *)
(***************************************************************************)
EXTENDS Naturals, Sequences

CONSTANTS Servers, Values

VARIABLES
  logs,     \* what each server shows
  members   \* the servers that take part

rvars == <<logs, members>>

Init ==
  /\ logs = [s \in Servers |-> <<>>]
  /\ members = Servers

\* What the members show as their n-th record: one value, or none yet.
Shown(n) == {logs[t][n] : t \in {t \in members : n <= Len(logs[t])}}

Known == UNION {{logs[t][n] : n \in DOMAIN logs[t]} : t \in members}

\* A member shows one record more: the one others show there, or a new one.
Show(s, v) ==
  LET others == Shown(Len(logs[s]) + 1)
  IN  /\ s \in members
      /\ logs' = [logs EXCEPT ![s] = Append(@, v)]
      /\ v \in others \/ (others = {} /\ v \notin Known)
      /\ UNCHANGED members

\* Servers leave, one that was started again or all at once.
Leave(L) ==
  /\ L \subseteq members
  /\ members' = members \ L
  /\ logs' = [s \in Servers |-> IF s \in L THEN <<>> ELSE logs[s]]

Next ==
  \/ \E s \in Servers, v \in Values : Show(s, v)
  \/ \E L \in SUBSET members : Leave(L)

Spec == Init /\ [][Next]_rvars

(***************************************************************************)
(* Properties                                                              *)
(***************************************************************************)

TypeOK == logs \in [Servers -> Seq(Values)] /\ members \subseteq Servers

\* Members show the same record at the same place: local reads
\* (distributed.go:249) never differ.
Agreement ==
  \A s, t \in members : \A n \in DOMAIN logs[s] \cap DOMAIN logs[t] :
    logs[s][n] = logs[t][n]

\* No member shows a record twice: a request that was handed to raft once gets
\* one offset (distributed.go:291).
NoRepeat ==
  \A s \in members : \A m, n \in DOMAIN logs[s] : logs[s][m] = logs[s][n] => m = n

=============================================================================
