---------------------------- MODULE MCLoadBalance ----------------------------
(* Small instances of LoadBalance for TLC.                               *)
EXTENDS LoadBalance

CONSTANTS c1, c2, s1, s2, s3

TwoConns     == {c1, c2}
ThreeServers == {s1, s2, s3}
TwoServers   == {s1, s2}

=============================================================================
