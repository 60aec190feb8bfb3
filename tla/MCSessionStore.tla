--------------------------- MODULE MCSessionStore ---------------------------
(* A small instance of SessionStore: three sessions compete for two names, *)
(* with the lifetimes that Lifetimes grants under small configurations.    *)
EXTENDS SessionStore, Lifetimes

CONSTANTS t1, t2, t3, alice, bob, k1, k2, n1

Default == [ttl |-> 1, ttlLimit |-> 1]
Roles   == [setTTL : BOOLEAN, maxTTL : {0, 1}]
Queries == [infinity : {FALSE}, given : {"none", "duration"}, ttl : {0, 1, 2}]

GrantedTTLs ==
    {EffectiveTTL(Default, x[1], x[2]) :
        x \in {x \in Roles \X Queries : Granted(Default, x[1], x[2])}}
=============================================================================
