--------------------------- MODULE RecoveryProofs ---------------------------
(* Theorems about Recovery, for any users, IPs and configurations: the     *)
(* limit holds, and what UserStoreProofs shows of the accounts carries     *)
(* over, since a step of Recovery is a step of UserStore or none of its.   *)
EXTENDS Recovery, UserStoreProofs, FiniteSetTheorems

\* The inductive invariant behind RateRespected: the limiter still has the
\* stamps of everything it has let through within the window.
LimiterInv ==
    /\ LimiterTypeOK
    /\ \A ip \in IPs :
        /\ IsFiniteSet(windows[ip])
        /\ Young(admitted[ip]) \subseteq windows[ip]
    /\ RateRespected

-----------------------------------------------------------------------------
LEMMA RateType == rate \in RateLimits => rate.limit \in Nat /\ rate.window \in 1..Oldest
BY RecoveryAssumption DEF Limits

\* A tick makes no finite set of stamps larger.
LEMMA AgedFinite ==
    ASSUME NEW S, IsFiniteSet(S)
    PROVE  IsFiniteSet(Aged(S)) /\ Cardinality(Aged(S)) <= Cardinality(S)
<1> DEFINE B == {t \in S : t.age + 1 < Oldest}
           f == [t \in B |-> [t EXCEPT !.age = @ + 1]]
<1>1. IsFiniteSet(B) /\ Cardinality(B) <= Cardinality(S)
  BY FS_Subset
<1>2. f \in Surjection(B, Aged(S))
  BY DEF Surjection, Aged
<1>3. IsFiniteSet(Aged(S)) /\ Cardinality(Aged(S)) <= Cardinality(B)
  BY <1>1, <1>2, FS_Surjection
<1>4. Cardinality(B) \in Nat /\ Cardinality(S) \in Nat /\ Cardinality(Aged(S)) \in Nat
  BY <1>1, <1>3, FS_CardinalityType
<1> QED
  BY <1>1, <1>3, <1>4

\* What is young after a tick was young before it.
LEMMA AgedYoung ==
    ASSUME rate \in RateLimits, NEW S \in SUBSET Stamp
    PROVE  Aged(S) \in SUBSET Stamp /\ Young(Aged(S)) \subseteq Aged(Young(S))
<1>1. rate.window \in Nat /\ Oldest \in Nat
  BY RateType, RecoveryAssumption DEF Limits
<1>2. \A t \in S : /\ t.age \in Nat
                   /\ [t EXCEPT !.age = @ + 1].age = t.age + 1
                   /\ t.age + 1 < Oldest => [t EXCEPT !.age = @ + 1] \in Stamp
  BY <1>1 DEF Stamp
<1>3. Aged(S) \in SUBSET Stamp
  BY <1>2 DEF Aged
<1>4. ASSUME NEW s \in Young(Aged(S)) PROVE s \in Aged(Young(S))
  <2>1. PICK t \in S : t.age + 1 < Oldest /\ s = [t EXCEPT !.age = @ + 1]
    BY DEF Young, Aged
  <2>2. t.age + 1 < rate.window
    BY <1>2, <2>1 DEF Young
  <2>3. t \in Young(S)
    BY <1>1, <1>2, <2>1, <2>2 DEF Young
  <2> QED
    BY <2>1, <2>3 DEF Aged
<1> QED
  BY <1>3, <1>4

\* A finite set that can only have lost stamps still respects the limit.
LEMMA FewerStamps ==
    ASSUME NEW S, NEW T \in SUBSET S, IsFiniteSet(S), NEW n \in Nat, Cardinality(S) <= n
    PROVE  IsFiniteSet(T) /\ Cardinality(T) <= n
BY FS_Subset, FS_CardinalityType

-----------------------------------------------------------------------------
LEMMA LimiterInitInv == RecoveryInit => LimiterInv
<1> SUFFICES ASSUME RecoveryInit PROVE LimiterInv
  OBVIOUS
<1>1. Young({}) = {}
  BY DEF Young
<1> QED
  BY <1>1, RateType, FS_EmptySet
  DEF RecoveryInit, LimiterInv, LimiterTypeOK, RateRespected, Nothing

\* The stamp of an admission.
LEMMA FreshStamp ==
    ASSUME NEW ip \in IPs, Unused(ip) # {}
    PROVE  Fresh(ip) \in Stamp
BY RecoveryAssumption DEF Fresh, Unused, Stamp

LEMMA AllowInv ==
    ASSUME LimiterInv, NEW ip \in IPs, Allow(ip)
    PROVE  LimiterInv'
<1> DEFINE A == Young(admitted[ip])
           W == Recent(ip)
<1>1. /\ rate' = rate
      /\ windows' = [windows EXCEPT ![ip] = W \cup {Fresh(ip)}]
      /\ admitted' = [admitted EXCEPT ![ip] = @ \cup {Fresh(ip)}]
      /\ Fresh(ip) \in Stamp
      /\ Cardinality(W) < rate.limit
  BY FreshStamp DEF Allow
<1>2. /\ LimiterTypeOK
      /\ windows \in [IPs -> SUBSET Stamp]
      /\ admitted \in [IPs -> SUBSET Stamp]
      /\ rate.limit \in Nat
  BY RateType DEF LimiterInv, LimiterTypeOK
<1>3. IsFiniteSet(W) /\ A \subseteq W
  BY FS_Subset DEF LimiterInv, Recent, Young
<1>4. IsFiniteSet(A) /\ Cardinality(A) <= Cardinality(W)
  BY <1>3, FS_Subset
<1>5. LimiterTypeOK'
  BY <1>1, <1>2 DEF LimiterTypeOK, Recent, Young
<1>6. ASSUME NEW i \in IPs
      PROVE  /\ IsFiniteSet(windows'[i])
             /\ Young(admitted'[i]) \subseteq windows'[i]
             /\ Cardinality(Young(admitted'[i])) <= rate.limit
  <2>1. CASE i = ip
    <3>1. windows'[i] = W \cup {Fresh(ip)} /\ admitted'[i] = admitted[ip] \cup {Fresh(ip)}
      BY <1>1, <1>2, <2>1
    <3>2. Young(admitted'[i]) \subseteq A \cup {Fresh(ip)}
      BY <3>1 DEF Young
    <3>3. IsFiniteSet(A \cup {Fresh(ip)}) /\ Cardinality(A \cup {Fresh(ip)}) <= rate.limit
      <4>1. Cardinality(A) \in Nat /\ Cardinality(W) \in Nat
        BY <1>3, <1>4, FS_CardinalityType
      <4>2. /\ IsFiniteSet(A \cup {Fresh(ip)})
            /\ Cardinality(A \cup {Fresh(ip)}) \in {Cardinality(A), Cardinality(A) + 1}
        BY <1>4, FS_AddElement
      <4> HIDE DEF A, W
      <4> QED
        BY <1>1, <1>2, <1>4, <4>1, <4>2
    <3>4. IsFiniteSet(W \cup {Fresh(ip)})
      BY <1>3, FS_AddElement
    <3> QED
      BY <1>2, <1>3, <3>1, <3>2, <3>3, <3>4, FewerStamps
  <2>2. CASE i # ip
    <3>1. windows'[i] = windows[i] /\ admitted'[i] = admitted[i]
      BY <1>1, <1>2, <2>2
    <3> QED
      BY <3>1 DEF LimiterInv, RateRespected
  <2> QED
    BY <2>1, <2>2
<1>7. \A i \in IPs : Young(admitted'[i]) = Young(admitted[i])'
  BY <1>1 DEF Young
<1> QED
  BY <1>1, <1>5, <1>6, <1>7 DEF LimiterInv, RateRespected

\* Pruning: the stamps of some IPs go, but for the young ones.
LEMMA PrunedInv ==
    ASSUME LimiterInv, UNCHANGED <<rate, admitted>>,
           windows' \in [IPs -> SUBSET Stamp],
           \A ip \in IPs : windows'[ip] \in {windows[ip], Recent(ip)}
    PROVE  LimiterInv'
<1>1. \A ip \in IPs : Young(admitted[ip])' = Young(admitted[ip])
  BY DEF Young
<1>2. \A ip \in IPs : IsFiniteSet(Recent(ip)) /\ Young(admitted[ip]) \subseteq Recent(ip)
  BY FS_Subset DEF LimiterInv, Recent, Young
<1> QED
  BY <1>1, <1>2 DEF LimiterInv, LimiterTypeOK, RateRespected

LEMMA TickInv == LimiterInv /\ Tick => LimiterInv'
<1> SUFFICES ASSUME LimiterInv, Tick PROVE LimiterInv'
  OBVIOUS
<1>1. /\ rate \in RateLimits /\ rate' = rate
      /\ windows \in [IPs -> SUBSET Stamp]
      /\ admitted \in [IPs -> SUBSET Stamp]
      /\ windows'  = [ip \in IPs |-> Aged(windows[ip])]
      /\ admitted' = [ip \in IPs |-> Young(Aged(admitted[ip]))]
  BY DEF LimiterInv, LimiterTypeOK, Tick
<1>2. ASSUME NEW ip \in IPs
      PROVE  /\ windows'[ip] \in SUBSET Stamp
             /\ admitted'[ip] \in SUBSET Stamp
             /\ IsFiniteSet(windows'[ip])
             /\ Young(admitted[ip])' \subseteq windows'[ip]
             /\ Cardinality(Young(admitted[ip])') <= rate.limit
  <2> DEFINE A == Young(admitted[ip])
             N == Young(Aged(admitted[ip]))
  <2>1. Aged(windows[ip]) \in SUBSET Stamp /\ Aged(admitted[ip]) \in SUBSET Stamp
    BY <1>1, AgedYoung
  <2>2. N \subseteq Aged(A)
    BY <1>1, AgedYoung
  <2>3. Young(admitted[ip])' = N
    BY <1>1 DEF Young
  <2>4. A \subseteq windows[ip] /\ IsFiniteSet(windows[ip]) /\ Cardinality(A) <= rate.limit
    BY DEF LimiterInv, RateRespected
  <2>5. Aged(A) \subseteq Aged(windows[ip])
    BY <2>4 DEF Aged
  <2>6. IsFiniteSet(A)
    BY <2>4, FS_Subset
  <2>7. IsFiniteSet(Aged(A)) /\ Cardinality(Aged(A)) <= rate.limit
    <3>1. IsFiniteSet(Aged(A)) /\ Cardinality(Aged(A)) <= Cardinality(A)
      BY <2>6, AgedFinite
    <3>2. Cardinality(A) \in Nat /\ Cardinality(Aged(A)) \in Nat /\ rate.limit \in Nat
      BY <1>1, <2>6, <3>1, FS_CardinalityType, RateType
    <3> QED
      BY <2>4, <3>1, <3>2
  <2>8. Cardinality(N) <= rate.limit
    BY <1>1, <2>2, <2>7, FewerStamps, RateType
  <2>9. IsFiniteSet(Aged(windows[ip]))
    BY <2>4, AgedFinite
  <2>10. N \in SUBSET Stamp
    BY <2>1 DEF Young
  <2> QED
    BY <1>1, <2>1, <2>2, <2>3, <2>5, <2>8, <2>9, <2>10
<1>3. LimiterTypeOK'
  BY <1>1, <1>2 DEF LimiterTypeOK
<1>4. RateRespected'
  BY <1>1, <1>2 DEF RateRespected
<1>5. \A ip \in IPs : /\ IsFiniteSet(windows[ip])'
                      /\ (Young(admitted[ip]) \subseteq windows[ip])'
  BY <1>2
<1> QED
  BY <1>3, <1>4, <1>5 DEF LimiterInv

\* New limits, or a new process: nothing has been let through yet.
LEMMA ReloadInv ==
    ASSUME LimiterInv, rate' \in RateLimits, admitted' = Nothing,
           windows' \in {windows, Nothing}
    PROVE  LimiterInv'
<1>1. \A ip \in IPs : Young(admitted[ip])' = {}
  BY DEF Young, Nothing
<1>2. rate'.limit \in Nat
  BY RecoveryAssumption DEF Limits
<1>3. LimiterTypeOK'
  BY DEF LimiterInv, LimiterTypeOK, Nothing
<1>4. \A ip \in IPs : IsFiniteSet(windows[ip])'
  BY FS_EmptySet DEF LimiterInv, Nothing
<1>5. \A ip \in IPs : (Young(admitted[ip]) \subseteq windows[ip])'
  BY <1>1
<1>6. RateRespected'
  BY <1>1, <1>2, FS_EmptySet DEF RateRespected
<1> QED
  BY <1>3, <1>4, <1>5, <1>6 DEF LimiterInv

LEMMA LimiterStepInv == LimiterInv /\ [RecoveryNext]_recoveryVars => LimiterInv'
<1> SUFFICES ASSUME LimiterInv, [RecoveryNext]_recoveryVars PROVE LimiterInv'
  OBVIOUS
<1>1. CASE UNCHANGED limiterVars
  BY <1>1 DEF limiterVars, LimiterInv, LimiterTypeOK, RateRespected, Young
<1>2. ASSUME NEW ip \in IPs, NEW h \in Handlers, NEW s \in Seeds, RegenerateFrom(ip, h, s)
      PROVE  LimiterInv'
  BY <1>2, AllowInv DEF RegenerateFrom
<1>3. ASSUME NEW ip \in IPs, RegenerateRefused(ip) PROVE LimiterInv'
  <2>1. /\ windows' = [windows EXCEPT ![ip] = Recent(ip)]
        /\ UNCHANGED <<rate, admitted>>
    BY <1>3 DEF RegenerateRefused, Refuse
  <2>2. windows \in [IPs -> SUBSET Stamp]
    BY DEF LimiterInv, LimiterTypeOK
  <2>3. Recent(ip) \in SUBSET Stamp
    BY <2>2 DEF Recent, Young
  <2> QED
    BY <2>1, <2>2, <2>3, PrunedInv
<1>4. CASE Cleanup
  <2>1. windows \in [IPs -> SUBSET Stamp]
    BY DEF LimiterInv, LimiterTypeOK
  <2>2. windows' \in [IPs -> SUBSET Stamp]
    BY <1>4, <2>1 DEF Cleanup, Pruned, Recent, Young
  <2> QED
    BY <1>4, <2>2, PrunedInv DEF Cleanup, Pruned
<1>5. CASE Reload
  BY <1>5, ReloadInv DEF Reload
<1>6. CASE Tick
  BY <1>6, TickInv
<1>7. CASE Restart
  BY <1>7, ReloadInv DEF Restart
<1>8. UNCHANGED recoveryVars => UNCHANGED limiterVars
  BY DEF recoveryVars
<1> QED
  BY <1>1, <1>2, <1>3, <1>4, <1>5, <1>6, <1>7, <1>8 DEF RecoveryNext

\* However requests, reloads and the cleaner interleave, no IP has more seed
\* phrases tried within a window than the limit (RateRespected).
THEOREM RateIsRespected == RecoverySpec => []RateRespected
<1>1. LimiterInv => RateRespected
  BY DEF LimiterInv
<1> QED
  BY <1>1, LimiterInitInv, LimiterStepInv, PTL DEF RecoverySpec

-----------------------------------------------------------------------------
\* To the accounts the limiter only takes steps away.
THEOREM RecoveryImplementsUsers == RecoverySpec => UserSpec
<1>1. RecoveryInit => UserInit
  BY DEF RecoveryInit
<1>2. [RecoveryNext]_recoveryVars => [UserNext]_userVars
  BY DEF RecoveryNext, UserNext, recoveryVars, RegenerateFrom, RegenerateRefused,
         Cleanup, Reload, Tick, Restart
<1> QED
  BY <1>1, <1>2, PTL DEF RecoverySpec, UserSpec

\* So accounts behind the limiter keep their indexes: these say what the
\* records say (TokenIndexExact, SeedIndexExact).
THEOREM RecoveryKeepsUsers == RecoverySpec => [](TokenIndexExact /\ SeedIndexExact)
BY RecoveryImplementsUsers, TokenIndexCorrect, SeedIndexCorrect, PTL

\* And a token revoked stays so, and an account changes hands only through its
\* deletion (RevokedForever, AccountKept): they implement Accounts
\* (ImplementsAccounts).
THEOREM RecoveryKeepsAccounts ==
    RecoverySpec => RevokedForever /\ AccountKept /\ ImplementsAccounts
BY RecoveryImplementsUsers, RevokedCorrect, AccountCorrect, RefinesAccounts, PTL

\* The accounts' state and the limiter's have their types (RecoveryTypeOK).
THEOREM RecoveryTypeCorrect == RecoverySpec => []RecoveryTypeOK
<1>1. LimiterInv => LimiterTypeOK
  BY DEF LimiterInv
<1>2. RecoverySpec => []LimiterTypeOK
  BY <1>1, LimiterInitInv, LimiterStepInv, PTL DEF RecoverySpec
<1>3. UserTypeOK /\ LimiterTypeOK => RecoveryTypeOK
  BY DEF RecoveryTypeOK
<1> QED
  BY <1>2, <1>3, RecoveryImplementsUsers, UserTypeCorrect, PTL
=============================================================================
