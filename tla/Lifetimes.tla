------------------------------ MODULE Lifetimes ------------------------------
(***************************************************************************)
(* effectiveTTL (internal/server/permissions.go): the lifetime of a new    *)
(* session, from the configuration, the permissions of the caller's role   *)
(* and the query; and what config.Validate demands of the durations it     *)
(* reads.  Durations are integers.                                         *)
(***************************************************************************)
EXTENDS Integers, TLAPS

Tunnel == [ttl : Int, ttlLimit : Int]
Role   == [setTTL : BOOLEAN, maxTTL : Int]

\* ?infinity=true; ?ttl=, whose absence and whose text that is no duration
\* are told apart from every duration.
Query  == [infinity : BOOLEAN, given : {"none", "bad", "duration"}, ttl : Int]

ValidTunnel(tunnel) == tunnel.ttl > 0 /\ tunnel.ttlLimit >= tunnel.ttl
ValidRole(role)     == role.maxTTL >= 0

Valid(tunnel, role) == ValidTunnel(tunnel) /\ ValidRole(role)

Lesser(a, b) == IF a < b THEN a ELSE b

Refused(tunnel, role, query) ==
    /\ ~query.infinity
    /\ role.setTTL
    /\ \/ query.given = "bad"
       \/ /\ query.given = "duration"
          /\ \/ query.ttl <= 0
             \/ query.ttl > tunnel.ttlLimit
             \/ query.ttl > role.maxTTL

\* The lifetime of a request that is neither refused nor infinite.
EffectiveTTL(tunnel, role, query) ==
    IF ~role.setTTL
    THEN role.maxTTL
    ELSE Lesser(IF query.given = "duration" THEN query.ttl ELSE tunnel.ttl, role.maxTTL)

Granted(tunnel, role, query) == ~query.infinity /\ ~Refused(tunnel, role, query)

-----------------------------------------------------------------------------
\* max_ttl is "always enforced regardless of set_ttl" (docs/permissions.json).
THEOREM LifetimeWithinRole ==
    ASSUME NEW tunnel \in Tunnel, NEW role \in Role, NEW query \in Query,
           Granted(tunnel, role, query)
    PROVE  EffectiveTTL(tunnel, role, query) <= role.maxTTL
BY DEF Tunnel, Role, Query, EffectiveTTL, Lesser

\* ttl_limit binds a role that may choose its lifetime, although the default
\* is not compared with it: Validate has seen to that.
THEOREM ChosenWithinLimit ==
    ASSUME NEW tunnel \in Tunnel, NEW role \in Role, NEW query \in Query,
           Valid(tunnel, role), role.setTTL, Granted(tunnel, role, query)
    PROVE  EffectiveTTL(tunnel, role, query) <= tunnel.ttlLimit
BY DEF Tunnel, Role, Query, Valid, ValidTunnel, ValidRole, Granted, Refused, EffectiveTTL, Lesser

\* A session is born expired only by the operator's wish: max_ttl is zero.
THEOREM LifetimePositive ==
    ASSUME NEW tunnel \in Tunnel, NEW role \in Role, NEW query \in Query,
           Valid(tunnel, role), role.maxTTL > 0, Granted(tunnel, role, query)
    PROVE  EffectiveTTL(tunnel, role, query) > 0
BY DEF Tunnel, Role, Query, Valid, ValidTunnel, ValidRole, Granted, Refused, EffectiveTTL, Lesser

\* A role that asks for a lifetime gets that one or a refusal, never another.
THEOREM ChosenAsAsked ==
    ASSUME NEW tunnel \in Tunnel, NEW role \in Role, NEW query \in Query,
           role.setTTL, query.given = "duration", Granted(tunnel, role, query)
    PROVE  EffectiveTTL(tunnel, role, query) = query.ttl
BY DEF Tunnel, Role, Query, Granted, Refused, EffectiveTTL, Lesser
=============================================================================
