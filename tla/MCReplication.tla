---------------------------- MODULE MCReplication ----------------------------
(* Small instances of Replication for TLC.                                 *)
EXTENDS Replication, TLC

CONSTANTS s1, s2, s3

ThreeServers == {s1, s2, s3}

AnyOrder == Permutations(ThreeServers)

\* No server is closed before a caller has an answer.
ClosedAfterAnswer == stops > 0 => acked # {}

\* A narrow way to a deep state: a record is shown before the second election, a
\* server panics and is started again before the fourth, the second request follows.
ShownThenForgotten ==
  LET last == Max({term[s] : s \in Servers})
  IN  /\ last >= 2 => \E s \in Servers : userLog[s] # <<>>
      /\ last >= 4 => forgot # {}
      /\ produced >= 2 => last >= 4

=============================================================================
