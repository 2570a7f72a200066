---------------------------- MODULE MCFsmSnapshot ----------------------------
(* Small instances of FsmSnapshot for TLC.                               *)
EXTENDS FsmSnapshot

CONSTANTS w1, v1, v2

OneWriter == {w1}
TwoValues == {v1, v2}

=============================================================================
