---------------------------- MODULE MCLogRecovery ----------------------------
(* Small instances of LogRecovery for TLC.                               *)
EXTENDS LogRecovery, TLC

CONSTANTS w1, v1, v2

OneWriter == {w1}
OneValue  == {v1}
TwoValues == {v1, v2}

\* The specification only compares values.
AnyOrder == Permutations(TwoValues)

=============================================================================
