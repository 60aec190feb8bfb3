---------------------------- MODULE MCRawTunnels ----------------------------
(* Small instances of RawTunnels: sessions that draw the same port, the     *)
(* first of them verified twice.                                           *)
EXTENDS RawTunnels, TLC

CONSTANTS s1, s2, v1, v2, v3

OnePort == (s1 :> 1) @@ (s2 :> 1)
Twice   == (v1 :> s1) @@ (v2 :> s1) @@ (v3 :> s2)
=============================================================================
