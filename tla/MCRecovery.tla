----------------------------- MODULE MCRecovery -----------------------------
(* A small instance of Recovery: users that never expire or do so after a   *)
(* tick, enough tokens and seeds for a name to be taken twice, and limits   *)
(* whose reload widens or narrows both the window and the limit.            *)
EXTENDS Recovery

CONSTANTS alice, bob, k1, k2, k3, s1, s2, h1, h2, ip1

MCLifetimes == {None, 1}
MCRateLimits == {[limit |-> 1, window |-> 2], [limit |-> 2, window |-> 1]}

\* Tokens and seeds that nobody has drawn are interchangeable: only histories
\* that draw them in this order are explored, one of each class of renamings.
InOrder ==
    /\ k2 \in minted => k1 \in minted
    /\ k3 \in minted => k2 \in minted
    /\ s2 \in minted => s1 \in minted
=============================================================================
