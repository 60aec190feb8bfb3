------------------------------ MODULE Recovery ------------------------------
(***************************************************************************)
(* UserStore with what stands before its public half: /regenerate answers  *)
(* an IP only when the sliding window of rateLimiter lets it.  The limiter *)
(* is in memory, its limits are reloaded with the configuration, and       *)
(* startCleaner prunes it.                                                 *)
(***************************************************************************)
EXTENDS UserStore, FiniteSets

CONSTANTS
    IPs,
    RateLimits,     \* configurations: [limit, window in ticks]
    Oldest,         \* no window is longer; older stamps are left out
    Numbers         \* tell apart the requests of one age

\* What config.Validate lets through.
Limits == [limit : Nat, window : 1..Oldest]

ASSUME RecoveryAssumption ==
    /\ Oldest \in Nat \ {0}
    /\ RateLimits \subseteq Limits
    /\ RateLimits # {}

Stamp == [age : 0..(Oldest - 1), nr : Numbers]

VARIABLES
    rate,       \* limit and window
    windows,    \* IP -> stamps of its requests
    admitted    \* IP -> stamps of what was let through since the limiter got
                \* its limits, within the window (history variable)

limiterVars  == <<rate, windows, admitted>>
recoveryVars == <<userVars, limiterVars>>

Young(stamps) == {t \in stamps : t.age < rate.window}
Recent(ip)    == Young(windows[ip])

Nothing == [ip \in IPs |-> {}]

RecoveryInit ==
    /\ UserInit
    /\ rate \in RateLimits
    /\ windows = Nothing
    /\ admitted = Nothing

-----------------------------------------------------------------------------
(* allow: old stamps go, and a request within the limit leaves a new one.  *)

Unused(ip) == {n \in Numbers : [age |-> 0, nr |-> n] \notin windows[ip] \cup admitted[ip]}
Fresh(ip)  == [age |-> 0, nr |-> CHOOSE n \in Unused(ip) : TRUE]

Allow(ip) ==
    /\ Cardinality(Recent(ip)) < rate.limit
    /\ Unused(ip) # {}                                            \* bound
    /\ windows'  = [windows EXCEPT ![ip] = Recent(ip) \cup {Fresh(ip)}]
    /\ admitted' = [admitted EXCEPT ![ip] = @ \cup {Fresh(ip)}]
    /\ UNCHANGED rate

RefuseCounting(ip) ==                                             \* mutant
    /\ Cardinality(Recent(ip)) >= rate.limit
    /\ windows' = [windows EXCEPT ![ip] = {[t EXCEPT !.age = 0] : t \in Recent(ip)}]
    /\ UNCHANGED <<rate, admitted>>
Refuse(ip) ==
    /\ Cardinality(Recent(ip)) >= rate.limit
    /\ windows' = [windows EXCEPT ![ip] = Recent(ip)]
    /\ UNCHANGED <<rate, admitted>>

\* handleRegenerate: the limit comes first, whoever the phrase recovers.
RegenerateFrom(ip, h, s) ==
    /\ Allow(ip)
    /\ Regenerate(h, s)

RegenerateRefused(ip) ==
    /\ Refuse(ip)
    /\ UNCHANGED userVars

-----------------------------------------------------------------------------
\* startCleaner, every 30 s; an IP without stamps has no entry.
ForgetAll == Nothing                                              \* mutant
Pruned    == [ip \in IPs |-> Recent(ip)]

Cleanup ==
    /\ windows' = Pruned
    /\ UNCHANGED <<userVars, rate, admitted>>

\* reloadConfig: the stamps stay, whatever window they were kept for.
ReloadUnvalidated ==                                              \* mutant
    /\ rate' \in RateLimits \cup {[limit |-> 1, window |-> 0]}
    /\ admitted' = Nothing
    /\ UNCHANGED <<userVars, windows>>
Reload ==
    /\ rate' \in RateLimits
    /\ admitted' = Nothing
    /\ UNCHANGED <<userVars, windows>>

Aged(stamps) == {[t EXCEPT !.age = @ + 1] : t \in {t \in stamps : t.age + 1 < Oldest}}

Tick ==
    /\ UserTick
    /\ windows'  = [ip \in IPs |-> Aged(windows[ip])]
    /\ admitted' = [ip \in IPs |-> Young(Aged(admitted[ip]))]
    /\ UNCHANGED rate

Restart ==
    /\ UserRestart
    /\ rate' \in RateLimits
    /\ windows' = Nothing
    /\ admitted' = Nothing

RecoveryNext ==
    \/ \E h \in Handlers :
        \/ \E n \in Usernames :
            (AdminCreate(h, n) \/ AdminRegenerate(h, n)) /\ UNCHANGED limiterVars
        \/ \E s \in Seeds, ip \in IPs : RegenerateFrom(ip, h, s)
        \/ /\ AdminCreateEnd(h) \/ RegenerateLookup(h) \/ RegenerateEnd(h)
           /\ UNCHANGED limiterVars
    \/ \E n \in Usernames : AdminDelete(n) /\ UNCHANGED limiterVars
    \/ \E ip \in IPs : RegenerateRefused(ip)
    \/ InvalidateExpiredUsers /\ UNCHANGED limiterVars
    \/ Cleanup
    \/ Reload
    \/ Tick
    \/ Restart

RecoverySpec == RecoveryInit /\ [][RecoveryNext]_recoveryVars

\* The cleaner's ticker ticks, and time passes.
RecoveryFairSpec ==
    /\ RecoverySpec
    /\ WF_recoveryVars(InvalidateExpiredUsers /\ UNCHANGED limiterVars)
    /\ WF_recoveryVars(Tick)

-----------------------------------------------------------------------------
(* Properties.                                                             *)

LimiterTypeOK ==
    /\ rate \in RateLimits
    /\ windows \in [IPs -> SUBSET Stamp]
    /\ admitted \in [IPs -> SUBSET Stamp]

\* The types of the accounts' state and of the limiter's (type invariant).
RecoveryTypeOK == UserTypeOK /\ LimiterTypeOK

\* No IP has more seed phrases tried within a window than the limit, counted
\* from the moment these limits were loaded: whatever was reloaded, pruned or
\* refused in between.
RateRespected == \A ip \in IPs : Cardinality(Young(admitted[ip])) <= rate.limit

\* An IP that keeps asking while it is refused does not lock itself out: a
\* refused request leaves no stamp.
NotLockedOut == \A ip \in IPs :
    []<>(rate.limit = 0 \/ Cardinality(Recent(ip)) < rate.limit)
=============================================================================
