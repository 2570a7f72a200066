----------------------------- MODULE MCCommitLog -----------------------------
(* Small instances of CommitLog for TLC.                                 *)
EXTENDS CommitLog

CONSTANTS w1, v1, v2

OneWriter == {w1}
TwoValues == {v1, v2}

=============================================================================
