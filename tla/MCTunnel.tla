------------------------------ MODULE MCTunnel ------------------------------
(* Small instances of Tunnel: a client that reconnects on the same key.    *)
EXTENDS Tunnel, TLC

CONSTANTS t1, t2, p1, p2, v1, v2, k1

OneEach == (p1 :> t1) @@ (p2 :> t2)
SameKey == (p1 :> k1) @@ (p2 :> k1)

\* The tunnels are alike, and so are the visitors: the first to move is t1, or
\* v1.  Neither step is one that fairness asks for.
InOrder ==
    /\ Begun(t2) => Begun(t1)
    /\ visitor[v1].pc = "idle" => visitor[v2].pc = "idle"
=============================================================================
