----------------------------- MODULE MCMembership -----------------------------
(* Small instances of Membership for TLC.                                *)
EXTENDS Membership

CONSTANTS n1, n2, n3, a1, a2, a3

ThreeServers == {n1, n2, n3}
ThreeAddrs   == {a1, a2, a3}

=============================================================================
