----------------------------- MODULE MCFrontend -----------------------------
(* Small instances of Frontend.                                            *)
EXTENDS Frontend, TLC

CONSTANTS t1, t2, alice, bob, k1, n1, n2, r1, r2, c1, c2, x1, x2

LowerHex(K) == {EncodeHex(k) : k \in K}

Generous == [createTunnel |-> TRUE, infinity |-> TRUE]
Strict   == [createTunnel |-> FALSE, infinity |-> FALSE]
Limited  == [createTunnel |-> TRUE, infinity |-> FALSE]

OneKey   == LowerHex({k1})
Fixed    == {Limited}
Changing == {Generous, Strict}
OnePort == 1..1
TwoPorts == 1..2
ThreePorts == 1..3

\* Names, nonces, requests and clients are interchangeable; tokens are as well.
Symmetry == Permutations({alice, bob}) \cup Permutations({n1, n2})
                \cup Permutations({r1, r2}) \cup Permutations({t1, t2})
                \cup Permutations({x1, x2})
=============================================================================
