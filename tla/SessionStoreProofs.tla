-------------------------- MODULE SessionStoreProofs --------------------------
(***************************************************************************)
(* The session store is correct for any sets of tokens, names, keys, ports *)
(* and nonces, and any horizon: its types, the subdomain index, the owner  *)
(* of a key, the stability of a session, and SessionRegistry refined.      *)
(***************************************************************************)
EXTENDS SessionStore, TLAPS

-----------------------------------------------------------------------------
(* The inductive invariant.                                                *)

\* Only tokens that were drawn name a session or are named by an index, so a
\* token that is drawn now cannot be found under anything yet.
TokensIssued ==
    /\ \A t \in SetupTokens : Live(t) => t \in issued
    /\ \A p \in PubHex : byKey[p] # None => byKey[p] \in issued

\* An entry of the key index that leads to a live session has its key; this
\* is KeyLeadsToOwner without the query.
KeyIndexSound ==
    \A p \in PubHex, t \in SetupTokens :
        byKey[p] = t /\ Live(t) => sessions[t].key = p.key

StoreInv == StoreTypeOK /\ SubIndexExact /\ TokensIssued /\ KeyIndexSound

-----------------------------------------------------------------------------
(* Records stay records.                                                   *)

LEMMA AgeTypes == ASSUME NEW n \in Ages PROVE Older(n) \in Ages /\ Sooner(n) \in Ages
BY HorizonAssumption DEF Ages, Older, Sooner

LEMMA ZeroAge == 0 \in Ages
BY HorizonAssumption DEF Ages

LEMMA NewSessionType ==
    ASSUME NEW s \in Subdomains, NEW m \in Modes, NEW p \in Ports,
           NEW inf \in BOOLEAN, NEW ttl \in TTLs
    PROVE  [sub |-> s, mode |-> m, port |-> p, infinity |-> inf,
            key |-> None, nonce |-> None, nonceAge |-> 0,
            activated |-> FALSE, activeAge |-> 0,
            left |-> IF inf THEN 0 ELSE ttl] \in Session
BY HorizonAssumption, TTLAssumption DEF Session, Ages

LEMMA AgedType == ASSUME NEW r \in Session PROVE Aged(r) \in Session
<1>1. r.nonceAge \in Ages /\ r.activeAge \in Ages /\ r.left \in Ages
  BY DEF Session
<1>2. /\ Older(r.nonceAge) \in Ages /\ Older(r.activeAge) \in Ages
      /\ Sooner(r.left) \in Ages
  BY <1>1, AgeTypes
<1> QED BY <1>1, <1>2 DEF Session, Aged

-----------------------------------------------------------------------------
(* The invariant is inductive.                                             *)

LEMMA InitInv == StoreInit => StoreInv
BY NoneAssumption
   DEF StoreInit, StoreInv, StoreTypeOK, SubIndexExact, TokensIssued,
       KeyIndexSound, Live

\* CreateSession and DeleteSession are the two that move the indexes.
LEMMA CreateInv ==
    ASSUME StoreInv,
           NEW t \in SetupTokens, NEW s \in Subdomains, NEW m \in Modes,
           NEW p \in Ports, NEW inf \in BOOLEAN, NEW ttl \in TTLs,
           CreateSession(t, s, m, p, inf, ttl)
    PROVE  StoreInv'
<1> DEFINE r == [sub |-> s, mode |-> m, port |-> p, infinity |-> inf,
                 key |-> None, nonce |-> None, nonceAge |-> 0,
                 activated |-> FALSE, activeAge |-> 0,
                 left |-> IF inf THEN 0 ELSE ttl]
<1>1. r \in Session /\ r.sub = s /\ r.key = None
  BY NewSessionType
<1>2. /\ sessions' = [sessions EXCEPT ![t] = r]
      /\ bySub' = [bySub EXCEPT ![s] = t]
      /\ issued' = issued \cup {t} /\ byKey' = byKey
      /\ t \notin issued /\ bySub[s] = None
  BY DEF CreateSession, Fresh, NameFree
<1> HIDE DEF r
<1>3. StoreTypeOK'
  BY <1>1, <1>2 DEF StoreInv, StoreTypeOK
<1>4. ~Live(t) /\ Live(t)'
  BY <1>1, <1>2, NoneAssumption DEF StoreInv, TokensIssued, StoreTypeOK, Live
<1>5. \A u \in SetupTokens \ {t} : sessions'[u] = sessions[u]
  BY <1>2 DEF StoreInv, StoreTypeOK
<1>6. sessions'[t] = r
  BY <1>2 DEF StoreInv, StoreTypeOK
<1>7. SubIndexExact'
  <2> SUFFICES ASSUME NEW u \in SetupTokens, NEW x \in Subdomains
               PROVE  bySub'[x] = u <=> (Live(u)' /\ sessions'[u].sub = x)
    BY DEF SubIndexExact, Live
  <2>1. CASE u = t /\ x = s
    BY <2>1, <1>1, <1>2, <1>4, <1>6 DEF StoreInv, StoreTypeOK
  <2>2. CASE u = t /\ x # s
    BY <2>2, <1>1, <1>2, <1>4, <1>6 DEF StoreInv, StoreTypeOK, SubIndexExact
  <2>3. CASE u # t /\ x = s
    BY <2>3, <1>2, <1>5, NoneAssumption
       DEF StoreInv, StoreTypeOK, SubIndexExact, Live
  <2>4. CASE u # t /\ x # s
    BY <2>4, <1>2, <1>5 DEF StoreInv, StoreTypeOK, SubIndexExact, Live
  <2> QED BY <2>1, <2>2, <2>3, <2>4
<1>8. TokensIssued'
  BY <1>2, <1>5 DEF StoreInv, TokensIssued, Live
<1>9. KeyIndexSound'
  <2> SUFFICES ASSUME NEW q \in PubHex, NEW u \in SetupTokens,
                      byKey'[q] = u, Live(u)'
               PROVE  sessions'[u].key = q.key
    BY DEF KeyIndexSound, Live
  <2>1. u # t
    BY <1>2, NoneAssumption DEF StoreInv, TokensIssued
  <2> QED BY <2>1, <1>2, <1>5 DEF StoreInv, KeyIndexSound, Live
<1> QED BY <1>3, <1>7, <1>8, <1>9 DEF StoreInv

LEMMA DeleteInv ==
    ASSUME StoreInv, NEW t \in SetupTokens, DeleteSession(t)
    PROVE  StoreInv'
<1> DEFINE s == sessions[t].sub
<1>1. /\ sessions' = [sessions EXCEPT ![t] = None]
      /\ bySub' = [bySub EXCEPT ![s] = None]
      /\ issued' = issued /\ Live(t)
  BY DEF DeleteSession
<1>2. sessions[t] \in Session /\ s \in Subdomains
  BY <1>1 DEF StoreInv, StoreTypeOK, Live, Session
<1>3. \A q \in PubHex : byKey'[q] = byKey[q] \/ byKey'[q] = None
  BY DEF DeleteSession, StoreInv, StoreTypeOK
<1>4. byKey' \in [PubHex -> SetupTokens \cup {None}]
  BY DEF DeleteSession, StoreInv, StoreTypeOK
<1>5. StoreTypeOK'
  BY <1>1, <1>2, <1>4 DEF StoreInv, StoreTypeOK
<1>6. \A u \in SetupTokens : Live(u)' <=> (Live(u) /\ u # t)
  BY <1>1 DEF StoreInv, StoreTypeOK, Live
<1>7. \A u \in SetupTokens \ {t} : sessions'[u] = sessions[u]
  BY <1>1 DEF StoreInv, StoreTypeOK
<1> HIDE DEF s
<1>8. SubIndexExact'
  <2> SUFFICES ASSUME NEW u \in SetupTokens, NEW x \in Subdomains
               PROVE  bySub'[x] = u <=> (Live(u)' /\ sessions'[u].sub = x)
    BY DEF SubIndexExact, Live
  <2>1. bySub[s] = t
    BY <1>1, <1>2 DEF StoreInv, SubIndexExact, s
  <2>2. CASE x = s
    BY <2>1, <2>2, <1>1, <1>2, <1>6, <1>7, NoneAssumption
       DEF StoreInv, StoreTypeOK, SubIndexExact
  <2>3. CASE x # s /\ u = t
    BY <2>3, <1>1, <1>2, <1>6 DEF StoreInv, StoreTypeOK, SubIndexExact, s
  <2>4. CASE x # s /\ u # t
    BY <2>4, <1>1, <1>2, <1>6, <1>7 DEF StoreInv, StoreTypeOK, SubIndexExact
  <2> QED BY <2>2, <2>3, <2>4
<1>9. TokensIssued'
  BY <1>1, <1>3, <1>6 DEF StoreInv, TokensIssued
<1>10. KeyIndexSound'
  <2> SUFFICES ASSUME NEW q \in PubHex, NEW u \in SetupTokens,
                      byKey'[q] = u, Live(u)'
               PROVE  sessions'[u].key = q.key
    BY DEF KeyIndexSound, Live
  <2>1. byKey[q] = u
    BY <1>3, NoneAssumption
  <2> QED BY <2>1, <1>6, <1>7 DEF StoreInv, KeyIndexSound
<1> QED BY <1>5, <1>8, <1>9, <1>10 DEF StoreInv

LEMMA RegisterInv ==
    ASSUME StoreInv, NEW t \in SetupTokens, NEW p \in PubHex, RegisterPubkey(t, p)
    PROVE  StoreInv'
<1> DEFINE r == [sessions[t] EXCEPT !.key = p.key]
<1>1. /\ Live(t) /\ sessions[t].key = None
      /\ sessions' = [sessions EXCEPT ![t] = r]
      /\ byKey' = [byKey EXCEPT ![p] = t]
      /\ bySub' = bySub /\ issued' = issued
  BY DEF RegisterPubkey, Registrable, Pending
<1>2. sessions[t] \in Session /\ p.key \in Keys
  BY <1>1 DEF StoreInv, StoreTypeOK, Live, PubHex
<1>3. r \in Session /\ r.sub = sessions[t].sub /\ r.key = p.key
  BY <1>2 DEF Session
<1> HIDE DEF r
<1>4. StoreTypeOK'
  BY <1>1, <1>3 DEF StoreInv, StoreTypeOK
<1>5. \A u \in SetupTokens : Live(u)' <=> Live(u)
  BY <1>1, <1>3, NoneAssumption DEF StoreInv, StoreTypeOK, Live
<1>6. sessions'[t] = r /\ \A u \in SetupTokens \ {t} : sessions'[u] = sessions[u]
  BY <1>1 DEF StoreInv, StoreTypeOK
<1>7. SubIndexExact'
  BY <1>1, <1>3, <1>5, <1>6 DEF StoreInv, SubIndexExact
<1>8. TokensIssued'
  BY <1>1, <1>5 DEF StoreInv, StoreTypeOK, TokensIssued
<1>9. KeyIndexSound'
  <2> SUFFICES ASSUME NEW q \in PubHex, NEW u \in SetupTokens,
                      byKey'[q] = u, Live(u)'
               PROVE  sessions'[u].key = q.key
    BY DEF KeyIndexSound, Live
  <2>1. CASE q = p
    BY <2>1, <1>1, <1>3, <1>6 DEF StoreInv, StoreTypeOK
  <2>2. CASE q # p /\ u # t
    BY <2>2, <1>1, <1>5, <1>6 DEF StoreInv, StoreTypeOK, KeyIndexSound
  <2>3. CASE q # p /\ u = t
    \* t has no key yet, so no entry can lead to it.
    <3>1. byKey[q] = t
      BY <2>3, <1>1 DEF StoreInv, StoreTypeOK
    <3>2. sessions[t].key = q.key
      BY <3>1, <1>1 DEF StoreInv, KeyIndexSound
    <3> QED BY <3>2, <1>1, NoneAssumption DEF PubHex
  <2> QED BY <2>1, <2>2, <2>3
<1> QED BY <1>4, <1>7, <1>8, <1>9 DEF StoreInv

\* The rest only rewrites records, and leaves every name and key alone.
LEMMA RewriteInv ==
    ASSUME StoreInv, UNCHANGED <<bySub, byKey, issued>>,
           sessions' \in [SetupTokens -> Session \cup {None}],
           \A u \in SetupTokens :
                /\ Live(u)' <=> Live(u)
                /\ Live(u) => /\ sessions'[u].sub = sessions[u].sub
                              /\ sessions'[u].key = sessions[u].key
    PROVE  StoreInv'
<1>1. StoreTypeOK'
  BY DEF StoreInv, StoreTypeOK
<1>2. SubIndexExact'
  BY DEF StoreInv, SubIndexExact
<1>3. TokensIssued'
  BY DEF StoreInv, TokensIssued
<1>4. KeyIndexSound'
  BY DEF StoreInv, KeyIndexSound
<1> QED BY <1>1, <1>2, <1>3, <1>4 DEF StoreInv

LEMMA NonceInv ==
    ASSUME StoreInv, NEW t \in SetupTokens, NEW n \in Nonces, UpdateSessionNonce(t, n)
    PROVE  StoreInv'
<1> DEFINE r == WithNonce(sessions[t], n)
<1>1. /\ Live(t) /\ sessions' = [sessions EXCEPT ![t] = r]
      /\ UNCHANGED <<bySub, byKey, issued>>
  BY DEF UpdateSessionNonce
<1>2. sessions[t] \in Session
  BY <1>1 DEF StoreInv, StoreTypeOK, Live
<1>3. r \in Session /\ r.sub = sessions[t].sub /\ r.key = sessions[t].key
  BY <1>2, ZeroAge DEF Session, WithNonce
<1> HIDE DEF r
<1>4. sessions' \in [SetupTokens -> Session \cup {None}]
  BY <1>1, <1>3 DEF StoreInv, StoreTypeOK
<1>5. sessions'[t] = r /\ \A u \in SetupTokens \ {t} : sessions'[u] = sessions[u]
  BY <1>1 DEF StoreInv, StoreTypeOK
<1>6. \A u \in SetupTokens :
        /\ Live(u)' <=> Live(u)
        /\ Live(u) => /\ sessions'[u].sub = sessions[u].sub
                      /\ sessions'[u].key = sessions[u].key
  BY <1>1, <1>3, <1>5, NoneAssumption DEF Live
<1> QED BY <1>1, <1>4, <1>6, RewriteInv

LEMMA ActivateInv ==
    ASSUME StoreInv, NEW t \in SetupTokens, ActivateSession(t)
    PROVE  StoreInv'
<1> DEFINE r == AsActivated(sessions[t])
<1>1. /\ Live(t) /\ sessions' = [sessions EXCEPT ![t] = r]
      /\ UNCHANGED <<bySub, byKey, issued>>
  BY DEF ActivateSession
<1>2. sessions[t] \in Session
  BY <1>1 DEF StoreInv, StoreTypeOK, Live
<1>3. r \in Session /\ r.sub = sessions[t].sub /\ r.key = sessions[t].key
  BY <1>2, ZeroAge DEF Session, AsActivated
<1> HIDE DEF r
<1>4. sessions' \in [SetupTokens -> Session \cup {None}]
  BY <1>1, <1>3 DEF StoreInv, StoreTypeOK
<1>5. sessions'[t] = r /\ \A u \in SetupTokens \ {t} : sessions'[u] = sessions[u]
  BY <1>1 DEF StoreInv, StoreTypeOK
<1>6. \A u \in SetupTokens :
        /\ Live(u)' <=> Live(u)
        /\ Live(u) => /\ sessions'[u].sub = sessions[u].sub
                      /\ sessions'[u].key = sessions[u].key
  BY <1>1, <1>3, <1>5, NoneAssumption DEF Live
<1> QED BY <1>1, <1>4, <1>6, RewriteInv

LEMMA TickInv == StoreInv /\ Tick => StoreInv'
<1> SUFFICES ASSUME StoreInv, Tick PROVE StoreInv'
  OBVIOUS
<1>1. \A u \in SetupTokens :
        sessions'[u] = IF Live(u) THEN Aged(sessions[u]) ELSE None
  BY DEF Tick
<1>2. \A u \in SetupTokens : Live(u) => sessions[u] \in Session
  BY DEF StoreInv, StoreTypeOK, Live
<1>3. \A u \in SetupTokens : Live(u) =>
        /\ Aged(sessions[u]) \in Session
        /\ Aged(sessions[u]).sub = sessions[u].sub
        /\ Aged(sessions[u]).key = sessions[u].key
  <2> SUFFICES ASSUME NEW u \in SetupTokens, Live(u)
               PROVE  /\ Aged(sessions[u]) \in Session
                      /\ Aged(sessions[u]).sub = sessions[u].sub
                      /\ Aged(sessions[u]).key = sessions[u].key
    OBVIOUS
  <2> DEFINE r == sessions[u]
  <2>1. r \in Session
    BY <1>2
  <2>2. Aged(r) \in Session
    BY <2>1, AgedType
  <2>3. Aged(r).sub = r.sub /\ Aged(r).key = r.key
    BY <2>1 DEF Session, Aged
  <2> QED BY <2>2, <2>3
<1>4. sessions' \in [SetupTokens -> Session \cup {None}]
  BY <1>1, <1>3 DEF Tick
<1>5. \A u \in SetupTokens : Live(u)' <=> Live(u)
  BY <1>1, <1>3, NoneAssumption DEF Live
<1>6. UNCHANGED <<bySub, byKey, issued>>
  BY DEF Tick
<1> QED BY <1>1, <1>3, <1>4, <1>5, <1>6, RewriteInv

LEMMA StepInv == StoreInv /\ [StoreNext]_storeVars => StoreInv'
<1> SUFFICES ASSUME StoreInv, [StoreNext]_storeVars PROVE StoreInv'
  OBVIOUS
<1>1. ASSUME NEW t \in SetupTokens, NEW s \in Subdomains, NEW m \in Modes,
             NEW p \in Ports, NEW inf \in BOOLEAN, NEW ttl \in TTLs,
             CreateSession(t, s, m, p, inf, ttl)
      PROVE  StoreInv'
  BY <1>1, CreateInv
<1>2. ASSUME NEW t \in SetupTokens, NEW p \in PubHex, RegisterPubkey(t, p)
      PROVE  StoreInv'
  BY <1>2, RegisterInv
<1>3. ASSUME NEW t \in SetupTokens, NEW n \in Nonces, UpdateSessionNonce(t, n)
      PROVE  StoreInv'
  BY <1>3, NonceInv
<1>4. ASSUME NEW t \in SetupTokens, ActivateSession(t) PROVE StoreInv'
  BY <1>4, ActivateInv
<1>5. ASSUME NEW t \in SetupTokens, DeleteSession(t) PROVE StoreInv'
  BY <1>5, DeleteInv
<1>6. CASE Tick
  BY <1>6, TickInv
<1>7. CASE UNCHANGED storeVars
  BY <1>7 DEF storeVars, StoreInv, StoreTypeOK, SubIndexExact, TokensIssued,
              KeyIndexSound, Live
<1> QED BY <1>1, <1>2, <1>3, <1>4, <1>5, <1>6, <1>7 DEF StoreNext

\* The strengthened invariant holds of every behaviour of the store.
THEOREM StoreInvariant == StoreSpec => []StoreInv
BY InitInv, StepInv, PTL DEF StoreSpec

-----------------------------------------------------------------------------
(* What follows from it.                                                   *)

\* Every bucket holds what the code puts there, for any sets of values.
THEOREM StoreTypeCorrect == StoreSpec => []StoreTypeOK
<1>1. StoreInv => StoreTypeOK
  BY DEF StoreInv
<1> QED BY <1>1, StoreInvariant, PTL

\* The subdomain index is exact after any sequence of transactions, so two
\* live sessions never share a name.
THEOREM SubIndexCorrect == StoreSpec => []SubIndexExact
<1>1. StoreInv => SubIndexExact
  BY DEF StoreInv
<1> QED BY <1>1, StoreInvariant, PTL

\* A key leads to a session that has it, or to none, whatever stale or
\* overwritten entries the index holds.
THEOREM KeyOwnerCorrect == StoreSpec => []KeyLeadsToOwner
<1>1. StoreInv => KeyLeadsToOwner
  BY NoneAssumption DEF StoreInv, StoreTypeOK, KeyIndexSound, KeyLeadsToOwner,
                        GetSessionByPubkey, Lookup
<1> QED BY <1>1, StoreInvariant, PTL

-----------------------------------------------------------------------------
(* Action properties.                                                      *)

\* One step of the store.
LEMMA IdentityLemma == StoreInv /\ [StoreNext]_storeVars => [IdentityStep]_storeVars
<1> DEFINE Same(r, u) ==
      /\ u.sub = r.sub /\ u.mode = r.mode /\ u.port = r.port /\ u.infinity = r.infinity
      /\ r.key # None => u.key = r.key
      /\ r.activated => u.activated
<1> SUFFICES ASSUME StoreInv, StoreNext, NEW t \in SetupTokens, Live(t), Live(t)'
             PROVE  Same(sessions[t], sessions'[t])
  BY DEF IdentityStep, Live
<1>1. /\ sessions[t] \in Session
      /\ sessions \in [SetupTokens -> Session \cup {None}]
  BY DEF StoreInv, StoreTypeOK, Live
<1>2. sessions'[t] = sessions[t] => Same(sessions[t], sessions'[t])
  OBVIOUS
<1>3. ASSUME NEW u \in SetupTokens, NEW s \in Subdomains, NEW m \in Modes,
             NEW p \in Ports, NEW inf \in BOOLEAN, NEW ttl \in TTLs,
             CreateSession(u, s, m, p, inf, ttl)
      PROVE  sessions'[t] = sessions[t]
  <2>1. u # t
    BY <1>3 DEF CreateSession, Fresh, StoreInv, TokensIssued
  <2> QED BY <2>1, <1>1, <1>3 DEF CreateSession
<1>4. ASSUME NEW u \in SetupTokens, NEW p \in PubHex, RegisterPubkey(u, p)
      PROVE  Same(sessions[t], sessions'[t])
  <2>1. CASE u = t
    <3>1. sessions[t].key = None /\ sessions'[t] = [sessions[t] EXCEPT !.key = p.key]
      BY <1>1, <1>4, <2>1 DEF RegisterPubkey, Registrable
    <3> QED BY <3>1, <1>1 DEF Session
  <2>2. CASE u # t
    BY <1>1, <1>4, <2>2 DEF RegisterPubkey
  <2> QED BY <2>1, <2>2
<1>5. ASSUME NEW u \in SetupTokens, NEW n \in Nonces, UpdateSessionNonce(u, n)
      PROVE  Same(sessions[t], sessions'[t])
  <2>1. CASE u = t
    <3>1. sessions'[t] = WithNonce(sessions[t], n)
      BY <1>1, <1>5, <2>1 DEF UpdateSessionNonce
    <3> QED BY <3>1, <1>1 DEF Session, WithNonce
  <2>2. CASE u # t
    BY <1>1, <1>5, <2>2 DEF UpdateSessionNonce
  <2> QED BY <2>1, <2>2
<1>6. ASSUME NEW u \in SetupTokens, ActivateSession(u)
      PROVE  Same(sessions[t], sessions'[t])
  <2>1. CASE u = t
    <3>1. sessions'[t] = AsActivated(sessions[t])
      BY <1>1, <1>6, <2>1 DEF ActivateSession
    <3> QED BY <3>1, <1>1 DEF Session, AsActivated
  <2>2. CASE u # t
    BY <1>1, <1>6, <2>2 DEF ActivateSession
  <2> QED BY <2>1, <2>2
<1>7. ASSUME NEW u \in SetupTokens, DeleteSession(u)
      PROVE  sessions'[t] = sessions[t]
  BY <1>1, <1>7 DEF DeleteSession, Live
<1>8. CASE Tick
  <2>1. sessions'[t] = Aged(sessions[t])
    BY <1>8 DEF Tick
  <2> QED BY <2>1, <1>1 DEF Aged, Session
<1> HIDE DEF Same
<1> QED BY <1>2, <1>3, <1>4, <1>5, <1>6, <1>7, <1>8 DEF StoreNext

\* While a session lives its name, mode, port and key stay, and it does not
\* go back to pending, whatever transaction runs.
THEOREM IdentityCorrect == StoreSpec => SessionIdentityStable
BY IdentityLemma, StoreInvariant, PTL DEF StoreSpec, SessionIdentityStable

LEMMA NoReturnLemma == StoreInv /\ [StoreNext]_storeVars => [NoReturnStep]_storeVars
<1> SUFFICES ASSUME StoreInv, StoreNext, NEW t \in issued, ~Live(t)
             PROVE  ~Live(t)'
  BY DEF NoReturnStep, Live
<1>1. t \in SetupTokens /\ sessions \in [SetupTokens -> Session \cup {None}]
  BY DEF StoreInv, StoreTypeOK
<1>2. \A x : [sessions EXCEPT ![t] = x][t] = x
  BY <1>1
<1>3. \A x, u : u # t => [sessions EXCEPT ![u] = x][t] = sessions[t]
  BY <1>1
<1> QED BY <1>1, <1>2, <1>3
        DEF StoreNext, CreateSession, Fresh, RegisterPubkey, Registrable, Pending,
            UpdateSessionNonce, ActivateSession, DeleteSession, Tick, Live

\* A token whose session is gone never names a session again.
THEOREM DeletedForeverCorrect == StoreSpec => DeletedForever
BY NoReturnLemma, StoreInvariant, PTL DEF StoreSpec, DeletedForever

-----------------------------------------------------------------------------
(* Refinement.                                                             *)

\* What the store does is what the registry allows: in particular a name is
\* granted only when no lease holds it, although the code asks the index.
THEOREM RefinesRegistry == StoreSpec => ImplementsRegistry
<1>1. StoreInit => Registry!Init
  BY DEF StoreInit, Registry!Init, Stage, Lease, StageOf, LeaseOf, Live
<1>2. ASSUME StoreInv, [StoreNext]_storeVars
      PROVE  [Registry!Next]_<<Stage, Lease>>
  <2> USE <1>2
  <2>0. sessions \in [SetupTokens -> Session \cup {None}]
    BY DEF StoreInv, StoreTypeOK
  <2>1. ASSUME NEW t \in SetupTokens, NEW s \in Subdomains, NEW m \in Modes,
               NEW p \in Ports, NEW inf \in BOOLEAN, NEW ttl \in TTLs,
               CreateSession(t, s, m, p, inf, ttl)
        PROVE  Registry!Claim(t, s)
    <3>1. \A u \in SetupTokens \ {t} :
            StageOf(u)' = StageOf(u) /\ LeaseOf(u)' = LeaseOf(u)
      BY <2>0, <2>1 DEF CreateSession, StageOf, LeaseOf, Live
    <3>2. StageOf(t) = "unused"
      BY <2>1 DEF CreateSession, Fresh, StageOf, StoreInv, TokensIssued
    <3>3. StageOf(t)' = "pending" /\ LeaseOf(t)' = s
      <4>1. /\ sessions'[t].sub = s /\ ~sessions'[t].activated
            /\ sessions'[t] \in Session
        BY <2>0, <2>1, NewSessionType DEF CreateSession
      <4> QED BY <4>1, NoneAssumption DEF StageOf, LeaseOf, Live
    <3>4. \A u \in SetupTokens : LeaseOf(u) # s
      BY <2>1, NoneAssumption
         DEF CreateSession, NameFree, StoreInv, SubIndexExact, LeaseOf
    <3> QED BY <3>1, <3>2, <3>3, <3>4 DEF Registry!Claim, Stage, Lease
  <2>2. ASSUME NEW t \in SetupTokens, DeleteSession(t)
        PROVE  Registry!Release(t)
    <3>1. \A u \in SetupTokens \ {t} :
            StageOf(u)' = StageOf(u) /\ LeaseOf(u)' = LeaseOf(u)
      BY <2>0, <2>2 DEF DeleteSession, StageOf, LeaseOf, Live
    <3>2. StageOf(t) \in {"pending", "active"}
      BY <2>2 DEF DeleteSession, StageOf
    <3>3. StageOf(t)' = "gone" /\ LeaseOf(t)' = None
      BY <2>0, <2>2 DEF DeleteSession, StageOf, LeaseOf, Live, StoreInv, TokensIssued
    <3> QED BY <3>1, <3>2, <3>3 DEF Registry!Release, Stage, Lease
  <2>3. ASSUME NEW t \in SetupTokens, ActivateSession(t)
        PROVE  Registry!Activate(t) \/ UNCHANGED <<Stage, Lease>>
    <3>1. \A u \in SetupTokens \ {t} :
            StageOf(u)' = StageOf(u) /\ LeaseOf(u)' = LeaseOf(u)
      BY <2>0, <2>3 DEF ActivateSession, StageOf, LeaseOf, Live
    <3>2. sessions[t] \in Session /\ sessions'[t] = AsActivated(sessions[t])
      BY <2>0, <2>3 DEF ActivateSession, Live
    <3>3. /\ sessions'[t] \in Session /\ sessions'[t].activated
          /\ sessions'[t].sub = sessions[t].sub
      BY <3>2, ZeroAge DEF Session, AsActivated
    <3>4. /\ StageOf(t) \in {"pending", "active"} /\ StageOf(t)' = "active"
          /\ LeaseOf(t)' = LeaseOf(t)
      BY <2>3, <3>3, NoneAssumption DEF ActivateSession, StageOf, LeaseOf, Live
    <3> QED BY <3>1, <3>4 DEF Registry!Activate, Stage, Lease
  <2>4. ASSUME NEW t \in SetupTokens, NEW p \in PubHex, RegisterPubkey(t, p)
        PROVE  UNCHANGED <<Stage, Lease>>
    <3>1. \A u \in SetupTokens \ {t} :
            StageOf(u)' = StageOf(u) /\ LeaseOf(u)' = LeaseOf(u)
      BY <2>0, <2>4 DEF RegisterPubkey, StageOf, LeaseOf, Live
    <3>2. /\ Live(t) /\ sessions[t] \in Session /\ p.key \in Keys
          /\ sessions'[t] = [sessions[t] EXCEPT !.key = p.key]
      BY <2>0, <2>4 DEF RegisterPubkey, Registrable, Pending, Live, PubHex
    <3>3. /\ sessions'[t] \in Session
          /\ sessions'[t].activated = sessions[t].activated
          /\ sessions'[t].sub = sessions[t].sub
      BY <3>2 DEF Session
    <3>4. StageOf(t)' = StageOf(t) /\ LeaseOf(t)' = LeaseOf(t)
      BY <3>2, <3>3, NoneAssumption DEF StageOf, LeaseOf, Live
    <3> QED BY <3>1, <3>4 DEF Stage, Lease
  <2>5. ASSUME NEW t \in SetupTokens, NEW n \in Nonces, UpdateSessionNonce(t, n)
        PROVE  UNCHANGED <<Stage, Lease>>
    <3>1. \A u \in SetupTokens \ {t} :
            StageOf(u)' = StageOf(u) /\ LeaseOf(u)' = LeaseOf(u)
      BY <2>0, <2>5 DEF UpdateSessionNonce, StageOf, LeaseOf, Live
    <3>2. /\ Live(t) /\ sessions[t] \in Session
          /\ sessions'[t] = WithNonce(sessions[t], n)
      BY <2>0, <2>5 DEF UpdateSessionNonce, Live
    <3>3. /\ sessions'[t] \in Session
          /\ sessions'[t].activated = sessions[t].activated
          /\ sessions'[t].sub = sessions[t].sub
      BY <3>2, ZeroAge DEF Session, WithNonce
    <3>4. StageOf(t)' = StageOf(t) /\ LeaseOf(t)' = LeaseOf(t)
      BY <3>2, <3>3, NoneAssumption DEF StageOf, LeaseOf, Live
    <3> QED BY <3>1, <3>4 DEF Stage, Lease
  <2>6. ASSUME Tick PROVE UNCHANGED <<Stage, Lease>>
    <3> SUFFICES ASSUME NEW t \in SetupTokens
                 PROVE  StageOf(t)' = StageOf(t) /\ LeaseOf(t)' = LeaseOf(t)
      BY DEF Stage, Lease
    <3>1. CASE ~Live(t)
      BY <2>6, <3>1 DEF Tick, StageOf, LeaseOf, Live
    <3>2. CASE Live(t)
      <4>1. sessions[t] \in Session /\ sessions'[t] = Aged(sessions[t])
        BY <2>0, <2>6, <3>2 DEF Tick, Live
      <4>2. /\ Aged(sessions[t]).activated = sessions[t].activated
            /\ Aged(sessions[t]).sub = sessions[t].sub
        BY <4>1 DEF Aged, Session
      <4>3. Aged(sessions[t]) \in Session /\ issued' = issued
        BY <4>1, <2>6, AgedType DEF Tick
      <4> QED BY <3>2, <4>1, <4>2, <4>3, NoneAssumption DEF StageOf, LeaseOf, Live
    <3> QED BY <3>1, <3>2
  <2>7. CASE UNCHANGED storeVars
    BY <2>7 DEF storeVars, Stage, Lease, StageOf, LeaseOf, Live
  <2> QED BY <2>1, <2>2, <2>3, <2>4, <2>5, <2>6, <2>7 DEF StoreNext, Registry!Next
<1> QED BY <1>1, <1>2, StoreInvariant, PTL
        DEF StoreSpec, ImplementsRegistry, Registry!Spec, Registry!registryVars
=============================================================================
