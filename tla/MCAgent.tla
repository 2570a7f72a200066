------------------------------- MODULE MCAgent -------------------------------
(* Small instances of Agent for TLC.                                     *)
EXTENDS Agent

CONSTANTS p1, c1

OneProducer == {p1}
OneConsumer == {c1}
Everyone    == {p1, c1}

=============================================================================
