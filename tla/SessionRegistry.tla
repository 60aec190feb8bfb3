--------------------------- MODULE SessionRegistry ---------------------------
(***************************************************************************)
(* What the session store promises its users, without buckets or indexes:  *)
(* a set of leases.  A setup token is drawn once and leases one subdomain  *)
(* that nobody else holds; the lease is pending, then perhaps active, and  *)
(* ends once, for good.                                                    *)
(***************************************************************************)
CONSTANTS SetupTokens, Subdomains, None

VARIABLES
    stage,      \* token -> "unused", "pending", "active" or "gone"
    lease       \* token -> the subdomain it holds, or None

registryVars == <<stage, lease>>

Init ==
    /\ stage = [t \in SetupTokens |-> "unused"]
    /\ lease = [t \in SetupTokens |-> None]

\* The name is free because no lease holds it: no index is consulted.
Claim(t, s) ==
    /\ stage[t] = "unused"
    /\ \A u \in SetupTokens : lease[u] # s
    /\ stage' = [stage EXCEPT ![t] = "pending"]
    /\ lease' = [lease EXCEPT ![t] = s]

Activate(t) ==
    /\ stage[t] = "pending"
    /\ stage' = [stage EXCEPT ![t] = "active"]
    /\ UNCHANGED lease

Release(t) ==
    /\ stage[t] \in {"pending", "active"}
    /\ stage' = [stage EXCEPT ![t] = "gone"]
    /\ lease' = [lease EXCEPT ![t] = None]

Next ==
    \/ \E t \in SetupTokens, s \in Subdomains : Claim(t, s)
    \/ \E t \in SetupTokens : Activate(t) \/ Release(t)

Spec == Init /\ [][Next]_registryVars
=============================================================================
